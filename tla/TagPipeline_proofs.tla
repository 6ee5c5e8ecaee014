------------------------- MODULE TagPipeline_proofs -------------------------
(***************************************************************************)
(* The measurement from end to end, composed of what is proved of its      *)
(* parts: for any scripts whose texts are sound, any network, any relay    *)
(* and any log, what Statstool_reports proves of the log is carried back   *)
(* to what the scripts did.                                                *)
(***************************************************************************)
EXTENDS TagPipeline, TestClient_proofs, SequenceTheorems, FiniteSetTheorems

\* statstool again, with what is proved of it.
D == INSTANCE Statstool_reports WITH
       Big <- 1000000, MaxFiles <- 1, Tags <- SentTags \cup {"SAMPLE"},
       Clients <- {Host}, Names <- TestNames, Values <- Nat, StampSteps <- {1}

ScriptsEndRuns == \A s \in Scripts : EndsItsRuns(Programs[s])
ScriptsNameClient == \A s \in Scripts : NamesItsClient(Programs[s])
ScriptsBracketTests == \A s \in Scripts : BracketsItsTests(Programs[s])

-----------------------------------------------------------------------------
(* The components *)

LEMMA ToolConstants ==
  ASSUME ScriptsWellFormed
  PROVE  D!StatsConstants /\ D!BigConstant
  <1>1. Unnamed \notin TestNames
    <2> SUFFICES ASSUME NEW s \in Scripts, Unnamed \in NamesIn(Programs[s])
                 PROVE  FALSE
      BY DEF TestNames
    <2>1. PICK p : p = Programs[s] /\ WellFormed(p)
      BY DEF ScriptsWellFormed
    <2>2. PICK i \in 1..Len(p) : p[i].tag = "TEST_BEGIN" /\ p[i].name = Unnamed
      BY <2>1 DEF NamesIn
    <2>3. QED
      BY <2>1, <2>2 DEF WellFormed
  <1>2. Host \in [host : STRING, arch : {"amd64", "i386", "unknown"}]
    BY PipelineConstants DEF S!Archs
  <1>3. D!NoClient \notin {Host} /\ \A c \in {Host} : c.arch \in D!Archs
    <2>1. Host.arch \in {"amd64", "i386", "unknown"}
      BY <1>2
    <2>2. D!NoClient.arch = ""
      BY DEF D!NoClient
    <2>3. QED
      BY <2>1, <2>2 DEF D!Archs
  <1>4. D!NoName \notin TestNames
    BY <1>1 DEF D!NoName, Unnamed, Name
  <1>5. SentTags \cup {"SAMPLE"} \subseteq D!AllTags
    BY DEF SentTags, D!AllTags
  <1>6. OptionSets \subseteq SUBSET D!Options /\ MaxTestRuns \in Nat \ {0} /\ MaxLines \in Nat
    BY PipelineConstants DEF S!Options, D!Options
  <1>7. QED
    BY <1>3, <1>4, <1>5, <1>6 DEF D!StatsConstants, D!BigConstant

\* A client step of the pipeline is a step of TestClient.
LEMMA PipelineRunsClient == PipelineSpec => ClientSpec
  <1>1. PipelineInit => ClientInit
    BY DEF PipelineInit
  <1>2. [PipelineNext]_pipelineVars => [ClientNext]_clientVars
    <2> SUFFICES ASSUME [PipelineNext]_pipelineVars
                 PROVE  ClientNext \/ UNCHANGED clientVars
      OBVIOUS
    <2>1. CASE ClientStep
      BY <2>1 DEF ClientStep, ClientNext
    <2>2. CASE ClientSends
      BY <2>2 DEF ClientSends, ClientNext
    <2>3. CASE Deliver \/ Mishap \/ RelayStep \/ LogTag \/ LogSample \/ StopLogging \/ Analyse
      BY <2>3 DEF Deliver, Mishap, RelayStep, LogTag, LogSample, StopLogging, Analyse
    <2>4. CASE UNCHANGED pipelineVars
      BY <2>4 DEF pipelineVars
    <2>5. QED
      BY <2>1, <2>2, <2>3, <2>4 DEF PipelineNext
  <1>3. QED
    BY <1>1, <1>2, PTL DEF PipelineSpec, ClientSpec

-----------------------------------------------------------------------------
(* What has been sent *)

ProgramOf(s) == Programs[ran[s]]

\* Datagrams, in the order the client sends them.
Before(d, e) == d[1] < e[1] \/ (d[1] = e[1] /\ d[2] < e[2])

\* Session s has sent the tags of its first m steps, and no others.
SentUpTo(s, m) ==
  \A i \in 1..Len(ProgramOf(s)) : ProgramOf(s)[i].op = "send" =>
    (i <= m <=> \E k \in 1..Len(sent) : sent[k] = <<s, i>>)

RanTracked ==
  /\ ran \in Seq(Scripts) /\ Len(ran) = sessions
  /\ script # "none" => sessions > 0 /\ ran[sessions] = script

\* A datagram is a step of a session that was a tag, of the current one no later than
\* where it is.
SentTyped ==
  /\ sent \in Seq(Nat \X Nat)
  /\ \A k \in 1..Len(sent) :
       /\ sent[k][1] \in 1..sessions /\ sent[k][2] \in 1..Len(ProgramOf(sent[k][1]))
       /\ Tag(sent[k]).op = "send"
       /\ sent[k][1] = sessions => sent[k][2] <= at

SentInOrder == \A j, k \in 1..Len(sent) : j < k => Before(sent[j], sent[k])

\* A session sends what its script says up to where it is, and all or nothing if it is
\* not interrupted (nothing, if it refuses).
SentTracked ==
  \A s \in 1..sessions : \E m \in Nat :
    /\ SentUpTo(s, m)
    /\ s = sessions => m = at
    /\ (interrupts = 0 /\ (s < sessions \/ script = "none")) =>
         m = 0 \/ m = Len(ProgramOf(s))

HistoryInv == ClientTypeOK /\ RanTracked /\ SentTyped /\ SentInOrder /\ SentTracked

\* A script is started.
LEMMA HistoryStart ==
  ASSUME ScriptsWellFormed, HistoryInv, NEW s \in Scripts, StartScript(s),
         ran' = Append(ran, s), sent' = sent
  PROVE  RanTracked' /\ SentTyped' /\ SentInOrder' /\ SentTracked'
  <1>1. /\ script = "none" /\ sessions' = sessions + 1 /\ script' = s /\ at' = 0
        /\ interrupts' = interrupts
    BY DEF StartScript
  <1>2. /\ ran \in Seq(Scripts) /\ Len(ran) = sessions /\ sessions \in Nat
        /\ sent \in Seq(Nat \X Nat) /\ Len(sent) \in Nat
    BY DEF HistoryInv, RanTracked, SentTyped
  <1>3. /\ ran' \in Seq(Scripts) /\ Len(ran') = sessions + 1 /\ ran'[sessions + 1] = s
        /\ \A r \in 1..sessions : ran'[r] = ran[r]
    BY <1>2
  <1>4. \A r \in 1..sessions : ProgramOf(r)' = ProgramOf(r)
    BY <1>3 DEF ProgramOf
  <1>5. RanTracked'
    BY <1>1, <1>2, <1>3 DEF RanTracked
  <1>6. ASSUME NEW k \in 1..Len(sent)
        PROVE  /\ sent[k][1] \in 1..sessions /\ Tag(sent[k])' = Tag(sent[k])
               /\ ProgramOf(sent[k][1])' = ProgramOf(sent[k][1])
    <2>1. sent[k][1] \in 1..sessions
      BY DEF HistoryInv, SentTyped
    <2>2. QED
      BY <1>3, <1>4, <2>1 DEF Tag
  <1>7. SentTyped'
    <2>1. ASSUME NEW k \in 1..Len(sent)
          PROVE  /\ sent[k][1] \in 1..(sessions + 1)
                 /\ sent[k][2] \in 1..Len(ProgramOf(sent[k][1])')
                 /\ Tag(sent[k])'.op = "send"
                 /\ sent[k][1] # sessions + 1
      BY <1>2, <1>6 DEF HistoryInv, SentTyped
    <2>2. QED
      BY <1>1, <1>2, <2>1 DEF SentTyped
  <1>8. SentInOrder'
    BY DEF HistoryInv, SentInOrder, Before
  <1>9. SentTracked'
    <2>1. ASSUME NEW r \in 1..sessions
          PROVE  \E m \in Nat : SentUpTo(r, m)' /\ (interrupts = 0 => m = 0 \/ m = Len(ProgramOf(r)'))
      <3>1. PICK m \in Nat : /\ SentUpTo(r, m)
                             /\ interrupts = 0 => m = 0 \/ m = Len(ProgramOf(r))
        BY <1>1 DEF HistoryInv, SentTracked
      <3>2. QED
        BY <1>4, <3>1 DEF SentUpTo
    <2>2. PICK q \in Nat : q = sessions + 1
      BY <1>2
    <2>3. SentUpTo(q, 0)'
      <3>1. ASSUME NEW k \in 1..Len(sent), NEW i
            PROVE  sent[k] # <<q, i>>
        <4>1. sent[k][1] \in 1..sessions /\ sessions \in Nat
          BY <1>2, <1>6
        <4>2. sent[k][1] # q
          BY <2>2, <4>1
        <4>3. QED
          BY ONLY <4>2
      <3>2. \A i \in 1..Len(ProgramOf(q)') : ~(i <= 0)
        OBVIOUS
      <3>3. QED
        BY <3>1, <3>2 DEF SentUpTo
    <2>4. ASSUME NEW r \in 1..sessions'
          PROVE  \E m \in Nat :
                   /\ SentUpTo(r, m)'
                   /\ r = sessions' => m = at'
                   /\ (interrupts' = 0 /\ (r < sessions' \/ script' = "none")) =>
                        m = 0 \/ m = Len(ProgramOf(r)')
      <3>1. CASE r = q
        BY <1>1, <2>2, <2>3, <3>1
      <3>2. CASE r # q
        <4>1. r \in 1..sessions /\ r # sessions'
          BY <1>1, <1>2, <2>2, <3>2
        <4>2. QED
          BY <1>1, <2>1, <4>1
      <3>3. QED
        BY <3>1, <3>2
    <2>5. QED
      BY <2>4 DEF SentTracked
  <1>10. QED
    BY <1>5, <1>7, <1>8, <1>9

\* A script ends: it was interrupted, has refused to start, or has done all its steps.
LEMMA HistoryPause ==
  ASSUME ScriptsWellFormed, HistoryInv, Refuse \/ Finish \/ Interrupt,
         UNCHANGED historyVars
  PROVE  RanTracked' /\ SentTyped' /\ SentInOrder' /\ SentTracked'
  <1>1. /\ script # "none" /\ script' = "none" /\ at' = at /\ sessions' = sessions
        /\ ran' = ran /\ sent' = sent
        /\ interrupts' = 0 => interrupts = 0 /\ (at = 0 \/ at = Len(Program))
    <2>1. interrupts \in Nat
      BY DEF HistoryInv, ClientTypeOK
    <2>2. QED
      BY <2>1 DEF Refuse, Finish, Interrupt, Running, Refusing, historyVars
  <1>2. RanTracked'
    BY <1>1 DEF HistoryInv, RanTracked
  <1>3. SentTyped' /\ SentInOrder'
    BY <1>1 DEF HistoryInv, SentTyped, SentInOrder, Before, Tag, ProgramOf
  <1>4. SentTracked'
    <2>1. ASSUME NEW s \in 1..sessions
          PROVE  \E m \in Nat :
                   /\ SentUpTo(s, m)'
                   /\ s = sessions => m = at
                   /\ interrupts' = 0 => m = 0 \/ m = Len(ProgramOf(s))
      <3>1. PICK m \in Nat :
              /\ SentUpTo(s, m)
              /\ s = sessions => m = at
              /\ (interrupts = 0 /\ s < sessions) => m = 0 \/ m = Len(ProgramOf(s))
        BY DEF HistoryInv, SentTracked
      <3>2. SentUpTo(s, m)'
        BY <1>1, <3>1 DEF SentUpTo, ProgramOf
      <3>3. s = sessions => Program = ProgramOf(s)
        BY <1>1 DEF HistoryInv, RanTracked, ProgramOf, Program
      <3>4. s < sessions \/ s = sessions
        BY DEF HistoryInv, RanTracked
      <3>5. QED
        BY <1>1, <3>1, <3>2, <3>3, <3>4
    <2>2. QED
      BY <1>1, <2>1 DEF SentTracked, ProgramOf
  <1>5. QED
    BY <1>2, <1>3, <1>4

\* The step that is done next, in the text of its session.
LEMMA StepPlace ==
  ASSUME ScriptsWellFormed, HistoryInv, Running
  PROVE  /\ sessions \in Nat \ {0} /\ at \in Nat
         /\ at + 1 \in 1..Len(ProgramOf(sessions)) /\ step = ProgramOf(sessions)[at + 1]
  <1>1. Program = ProgramOf(sessions) /\ script # "none"
    BY DEF HistoryInv, RanTracked, Running, Program, ProgramOf
  <1>2. sessions \in Nat \ {0} /\ at \in Nat
    BY <1>1 DEF HistoryInv, RanTracked, ClientTypeOK
  <1>3. QED
    BY <1>1, <1>2, StepType DEF HistoryInv, step

LEMMA HistoryLocal ==
  ASSUME ScriptsWellFormed, HistoryInv, LocalStep, UNCHANGED historyVars
  PROVE  RanTracked' /\ SentTyped' /\ SentInOrder' /\ SentTracked'
  <1>1. /\ Running /\ step.op # "send" /\ at' = at + 1 /\ sessions' = sessions
        /\ script' = script /\ interrupts' = interrupts /\ ran' = ran /\ sent' = sent
    BY DEF LocalStep, historyVars
  <1>2. RanTracked'
    BY <1>1 DEF HistoryInv, RanTracked
  <1>3. SentTyped' /\ SentInOrder'
    <2>1. \A k \in 1..Len(sent) : sent[k] \in Nat \X Nat
      BY DEF HistoryInv, SentTyped
    <2>2. \A k \in 1..Len(sent) : sent[k][2] <= at => sent[k][2] <= at + 1
      BY <1>1, <2>1, StepPlace
    <2>3. QED
      BY <1>1, <2>2 DEF HistoryInv, SentTyped, SentInOrder, Before, Tag, ProgramOf
  <1>4. SentTracked'
    <2>1. ASSUME NEW s \in 1..sessions
          PROVE  \E m \in Nat :
                   /\ SentUpTo(s, m)'
                   /\ s = sessions => m = at + 1
                   /\ (interrupts = 0 /\ (s < sessions \/ script = "none")) =>
                        m = 0 \/ m = Len(ProgramOf(s))
      <3>1. PICK m \in Nat :
              /\ SentUpTo(s, m)
              /\ s = sessions => m = at
              /\ (interrupts = 0 /\ (s < sessions \/ script = "none")) =>
                   m = 0 \/ m = Len(ProgramOf(s))
        BY DEF HistoryInv, SentTracked
      <3>2. SentUpTo(s, m)' /\ ProgramOf(s)' = ProgramOf(s)
        BY <1>1, <3>1 DEF SentUpTo, ProgramOf
      <3>3. CASE s # sessions
        BY <3>1, <3>2, <3>3
      <3>4. CASE s = sessions
        <4>1. m = at /\ at \in Nat /\ ProgramOf(s)[at + 1].op # "send" /\ script # "none"
          BY <1>1, <3>1, <3>4, StepPlace DEF Running
        <4>2. \A i \in 1..Len(ProgramOf(s)) :
                ProgramOf(s)[i].op = "send" => (i <= m <=> i <= at + 1)
          BY <4>1
        <4>3. PICK n \in Nat : n = at + 1
          BY <4>1
        <4>4. SentUpTo(s, n)'
          BY <3>2, <4>2, <4>3 DEF SentUpTo
        <4>5. ~(s < sessions)
          BY <3>4, <1>1, StepPlace
        <4>6. QED
          BY <4>1, <4>3, <4>4, <4>5
      <3>5. QED
        BY <3>3, <3>4
    <2>2. QED
      BY <1>1, <2>1 DEF SentTracked, ProgramOf
  <1>5. QED
    BY <1>2, <1>3, <1>4

\* A tag is sent, later than all before it.
LEMMA HistorySend ==
  ASSUME ScriptsWellFormed, HistoryInv, SendTag, ran' = ran,
         sent' = Append(sent, <<sessions, at + 1>>)
  PROVE  RanTracked' /\ SentTyped' /\ SentInOrder' /\ SentTracked'
  <1>1. /\ Running /\ step.op = "send" /\ at' = at + 1 /\ sessions' = sessions
        /\ script' = script /\ interrupts' = interrupts
    BY DEF SendTag
  <1>a. sent \in Seq(Nat \X Nat)
    BY DEF HistoryInv, SentTyped
  <1>b. PICK n \in Nat, q \in Nat \ {0}, a \in Nat \ {0} :
          n = Len(sent) /\ q = sessions /\ a = at + 1
    BY <1>1, <1>a, StepPlace
  <1>c. PICK d : d = <<q, a>>
    OBVIOUS
  <1>2. n = Len(sent) /\ q = sessions /\ a = at + 1 /\ d = <<q, a>>
    BY <1>b, <1>c
  <1>3. /\ sent \in Seq(Nat \X Nat) /\ sent' = Append(sent, d) /\ d \in Nat \X Nat
        /\ d[1] = q /\ d[2] = a
    BY <1>2 DEF HistoryInv, SentTyped
  <1>4. /\ sent' \in Seq(Nat \X Nat) /\ Len(sent') = n + 1 /\ sent'[n + 1] = d
        /\ \A k \in 1..n : sent'[k] = sent[k]
    <2>1. n = Len(sent)
      BY <1>2
    <2>2. QED
      BY <1>3, <2>1
  <1>5. a \in 1..Len(ProgramOf(q)) /\ Tag(d).op = "send"
    BY <1>1, <1>2, <1>3, StepPlace DEF Tag, ProgramOf
  <1>6. \A k \in 1..(n + 1) : k \in 1..n \/ k = n + 1
    OBVIOUS
  <1>7. RanTracked'
    BY <1>1 DEF HistoryInv, RanTracked
  <1>8. ASSUME NEW k \in 1..n
        PROVE  /\ sent[k][1] \in 1..q /\ sent[k][2] \in 1..Len(ProgramOf(sent[k][1]))
               /\ Tag(sent[k]).op = "send"
               /\ sent[k][1] = q => sent[k][2] < a
               /\ sent[k][1] \in Nat /\ sent[k][2] \in Nat
               /\ Before(sent[k], d)
    <2>1. /\ sent[k][1] \in 1..q /\ sent[k][2] \in 1..Len(ProgramOf(sent[k][1]))
          /\ Tag(sent[k]).op = "send"
          /\ sent[k][1] = q => sent[k][2] <= at
          /\ sent[k][1] \in Nat /\ sent[k][2] \in Nat
      BY <1>2, <1>3 DEF HistoryInv, SentTyped
    <2>2. at \in Nat
      BY <1>1, StepPlace
    <2>3. sent[k][1] = q => sent[k][2] < a
      BY <1>2, <2>1, <2>2
    <2>4. QED
      BY <1>3, <2>1, <2>3 DEF Before
  <1>9. SentTyped'
    <2>1. \A r : ProgramOf(r)' = ProgramOf(r) /\ \A e : Tag(e)' = Tag(e)
      BY DEF ProgramOf, Tag
    <2>2. ASSUME NEW k \in 1..(n + 1)
          PROVE  /\ sent'[k][1] \in 1..q /\ sent'[k][2] \in 1..Len(ProgramOf(sent'[k][1]))
                 /\ Tag(sent'[k]).op = "send"
                 /\ sent'[k][1] = q => sent'[k][2] <= a
      <3>1. CASE k \in 1..n
        BY <1>2, <1>4, <1>8, <3>1
      <3>2. CASE k = n + 1
        BY <1>2, <1>3, <1>4, <1>5, <3>2
      <3>3. QED
        BY <1>6, <3>1, <3>2
    <2>3. ASSUME NEW k \in 1..(n + 1)
          PROVE  ProgramOf(sent[k][1])' = ProgramOf(sent'[k][1]) /\ Tag(sent[k])' = Tag(sent'[k])
      BY DEF ProgramOf, Tag
    <2>4. at' = a /\ sessions' = q
      BY <1>1, <1>2
    <2>5. QED
      BY <1>4, <2>2, <2>3, <2>4 DEF SentTyped
  <1>10. SentInOrder'
    <2>1. ASSUME NEW j \in 1..(n + 1), NEW k \in 1..(n + 1), j < k
          PROVE  Before(sent'[j], sent'[k])
      <3>1. j \in 1..n
        BY <2>1
      <3>2. CASE k \in 1..n
        BY <1>2, <1>4, <2>1, <3>1, <3>2 DEF HistoryInv, SentInOrder
      <3>3. CASE k = n + 1
        BY <1>4, <1>8, <3>1, <3>3
      <3>4. QED
        BY <1>6, <3>2, <3>3
    <2>2. QED
      BY <1>4, <2>1 DEF SentInOrder, Before
  <1>11. SentTracked'
    <2>1. ASSUME NEW s \in 1..q
          PROVE  \E m \in Nat :
                   /\ SentUpTo(s, m)'
                   /\ s = q => m = a
                   /\ (interrupts = 0 /\ (s < q \/ script = "none")) =>
                        m = 0 \/ m = Len(ProgramOf(s))
      <3>1. PICK m \in Nat :
              /\ SentUpTo(s, m)
              /\ s = sessions => m = at
              /\ (interrupts = 0 /\ (s < sessions \/ script = "none")) =>
                   m = 0 \/ m = Len(ProgramOf(s))
        BY <1>2 DEF HistoryInv, SentTracked
      <3>2. ProgramOf(s)' = ProgramOf(s)
        BY DEF ProgramOf
      <3>3. \A i : (\E k \in 1..(n + 1) : sent'[k] = <<s, i>>) <=>
                     (\E k \in 1..n : sent[k] = <<s, i>>) \/ <<s, i>> = d
        <4>1. n + 1 \in 1..(n + 1) /\ \A k \in 1..n : k \in 1..(n + 1)
          OBVIOUS
        <4>2. QED
          BY <1>4, <1>6, <4>1
      <3>4. CASE s # q
        <4>1. \A i : <<s, i>> # d
          BY <1>2, <3>4
        <4>2. SentUpTo(s, m)'
          BY <1>2, <1>4, <3>1, <3>2, <3>3, <4>1 DEF SentUpTo
        <4>3. QED
          BY <1>2, <3>1, <3>4, <4>2
      <3>5. CASE s = q
        <4>1. m = at /\ at \in Nat /\ script # "none"
          BY <1>1, <1>2, <3>1, <3>5, StepPlace DEF Running
        <4>2. \A i : <<s, i>> = d <=> i = a
          BY <1>2, <3>5
        <4>3. \A i \in 1..Len(ProgramOf(s)) : i <= a <=> i <= m \/ i = a
          BY <1>2, <4>1
        <4>4. SentUpTo(s, a)'
          BY <1>2, <1>4, <3>1, <3>2, <3>3, <4>2, <4>3 DEF SentUpTo
        <4>5. ~(s < q)
          BY <1>2, <3>5
        <4>6. QED
          BY <3>5, <4>1, <4>4, <4>5
      <3>6. QED
        BY <3>4, <3>5
    <2>2. QED
      BY <1>1, <1>2, <2>1 DEF SentTracked, ProgramOf
  <1>12. QED
    BY <1>7, <1>9, <1>10, <1>11

\* Steps of the network, the relay, the logger and statstool.
LEMMA HistoryStutters ==
  ASSUME HistoryInv, UNCHANGED <<clientVars, historyVars>>
  PROVE  HistoryInv'
  <1>1. /\ script' = script /\ at' = at /\ sessions' = sessions /\ apps' = apps
        /\ interrupts' = interrupts /\ settings' = settings /\ ran' = ran /\ sent' = sent
    BY DEF clientVars, historyVars
  <1>2. ClientTypeOK'
    BY <1>1 DEF HistoryInv, ClientTypeOK, Program
  <1>3. RanTracked'
    BY <1>1 DEF HistoryInv, RanTracked
  <1>4. SentTyped' /\ SentInOrder'
    BY <1>1 DEF HistoryInv, SentTyped, SentInOrder, Before, Tag, ProgramOf
  <1>5. \A s, m : SentUpTo(s, m)' <=> SentUpTo(s, m)
    BY <1>1 DEF SentUpTo, ProgramOf
  <1>6. SentTracked'
    <2>1. \A s : ProgramOf(s)' = ProgramOf(s)
      BY <1>1 DEF ProgramOf
    <2>2. QED
      BY <1>1, <1>5, <2>1 DEF HistoryInv, SentTracked
  <1>7. QED
    BY <1>2, <1>3, <1>4, <1>6 DEF HistoryInv

LEMMA HistoryStep ==
  ASSUME ScriptsWellFormed, HistoryInv, [PipelineNext]_pipelineVars
  PROVE  HistoryInv'
  <1>1. CASE ClientStep
    <2>1. ClientTypeOK'
      BY <1>1, TypeStep DEF HistoryInv, ClientStep, ClientNext
    <2>2. RanTracked' /\ SentTyped' /\ SentInOrder' /\ SentTracked'
      BY <1>1, HistoryStart, HistoryPause, HistoryLocal DEF ClientStep, historyVars
    <2>3. QED
      BY <2>1, <2>2 DEF HistoryInv
  <1>2. CASE ClientSends
    <2>1. ClientTypeOK'
      BY <1>2, TypeStep DEF HistoryInv, ClientSends, ClientNext
    <2>2. RanTracked' /\ SentTyped' /\ SentInOrder' /\ SentTracked'
      BY <1>2, HistorySend DEF ClientSends
    <2>3. QED
      BY <2>1, <2>2 DEF HistoryInv
  <1>3. CASE Deliver \/ Mishap \/ RelayStep \/ LogTag \/ LogSample \/ StopLogging \/ Analyse
    BY <1>3, HistoryStutters
    DEF Deliver, Mishap, RelayStep, LogTag, LogSample, StopLogging, Analyse
  <1>4. CASE UNCHANGED pipelineVars
    BY <1>4, HistoryStutters DEF pipelineVars
  <1>5. QED
    BY <1>1, <1>2, <1>3, <1>4 DEF PipelineNext

LEMMA HistoryInit == ScriptsWellFormed /\ PipelineInit => HistoryInv
  <1> SUFFICES ASSUME ScriptsWellFormed, PipelineInit
               PROVE  HistoryInv
    OBVIOUS
  <1>1. ran = <<>> /\ sent = <<>> /\ sessions = 0 /\ script = "none" /\ ClientInit
    BY DEF PipelineInit, ClientInit
  <1>2. ran \in Seq(Scripts) /\ sent \in Seq(Nat \X Nat) /\ Len(ran) = 0 /\ 1..Len(sent) = {}
    BY <1>1, EmptySeq
  <1>3. 1..sessions = {}
    BY <1>1
  <1>4. QED
    BY <1>1, <1>2, <1>3, TypeStart
    DEF HistoryInv, RanTracked, SentTyped, SentInOrder, SentTracked

\* What is sent is what the sessions' scripts say, in every behaviour.
LEMMA HistoryKept ==
  ASSUME ScriptsWellFormed
  PROVE  PipelineSpec => []HistoryInv
  BY HistoryInit, HistoryStep, PTL DEF PipelineSpec

-----------------------------------------------------------------------------
(* What is on its way, relayed and logged *)

\* The datagrams of q are among those sent.
AllSent(q) ==
  /\ q \in Seq(Nat \X Nat)
  /\ \A i \in 1..Len(q) : \E k \in 1..Len(sent) : q[i] = sent[k]

\* Neither the network nor the relay makes up or changes a tag.
PathInv == AllSent(net) /\ AllSent(rxq) /\ AllSent(tx) /\ taken \in 0..Len(tx)

LEMMA AllSentMore ==
  ASSUME NEW d, sent \in Seq(Nat \X Nat), sent' = Append(sent, d), NEW q, AllSent(q)
  PROVE  AllSent(q)'
  <1>1. Len(sent) \in Nat /\ Len(sent') = Len(sent) + 1
        /\ \A k \in 1..Len(sent) : k \in 1..Len(sent') /\ sent'[k] = sent[k]
    OBVIOUS
  <1>2. QED
    BY <1>1 DEF AllSent

\* The relay sends a datagram on as it is: no byte of it is 0 and it is short.
LEMMA RelayedWhole ==
  ASSUME NEW d \in Nat \X Nat, d[1] # 0, d[2] # 0
  PROVE  R!Received(d) = d /\ R!Relayed(d) = d
  <1>a. PICK a \in Nat, b \in Nat : d = <<a, b>>
    OBVIOUS
  <1>1. Len(d) = 2 /\ d \in Seq(Nat)
    BY <1>a
  <1>2. SubSeq(d, 1, 2) = d
    BY <1>1
  <1>3. R!Received(d) = d
    BY <1>1, <1>2 DEF R!Received
  <1>4. {i \in 1..Len(d) : \A j \in 1..i : d[j] # 0} = 1..2
    <2>1. 1..Len(d) = 1..2
      BY <1>1
    <2>2. \A i \in 1..2 : \A j \in 1..i : j = 1 \/ j = 2
      OBVIOUS
    <2>3. QED
      BY <2>1, <2>2
  <1>5. R!Cardinality(1..2) = 2
    <2>1. R!Cardinality(1..2) = Cardinality(1..2)
      BY DEF R!Cardinality, Cardinality
    <2>2. Cardinality(1..2) = IF 1 > 2 THEN 0 ELSE 2 - 1 + 1
      <3>1. 1 \in Int /\ 2 \in Int
        OBVIOUS
      <3>2. QED
        BY <3>1, FS_Interval, Zenon
    <2>3. QED
      BY <2>1, <2>2
  <1>6. QED
    BY <1>1, <1>2, <1>3, <1>4, <1>5 DEF R!Relayed, R!strlen

\* What the network does to the datagrams on their way.
LEMMA AllSentKept ==
  ASSUME NEW q, AllSent(q)
  PROVE  /\ \A i \in 1..Len(q) : /\ AllSent(RemoveAt(q, i))
                                 /\ AllSent(Append(q, q[i]))
                                 /\ AllSent(<<q[i]>> \o RemoveAt(q, i))
         /\ q # <<>> => AllSent(Tail(q)) /\ Len(q) > 0 /\ Head(q) = q[1]
  <1>1. q \in Seq(Nat \X Nat) /\ Len(q) \in Nat
    BY DEF AllSent
  <1>2. ASSUME NEW r \in Seq(Nat \X Nat),
               \A m \in 1..Len(r) : \E n \in 1..Len(q) : r[m] = q[n]
        PROVE  AllSent(r)
    BY <1>2 DEF AllSent
  <1>3. ASSUME NEW i \in 1..Len(q)
        PROVE  /\ AllSent(RemoveAt(q, i))
               /\ AllSent(Append(q, q[i]))
               /\ AllSent(<<q[i]>> \o RemoveAt(q, i))
    <2>1. PICK f : f = SubSeq(q, 1, i - 1)
      OBVIOUS
    <2>2. PICK g : g = SubSeq(q, i + 1, Len(q))
      OBVIOUS
    <2>3. /\ f \in Seq(Nat \X Nat) /\ Len(f) = i - 1
          /\ \A m \in 1..(i - 1) : f[m] = q[m]
      BY <1>1, <2>1
    <2>4. /\ g \in Seq(Nat \X Nat) /\ Len(g) = Len(q) - i
          /\ \A m \in 1..(Len(q) - i) : g[m] = q[i + m]
      <3>1. PICK n \in Nat, k \in Nat : n = Len(q) /\ k = i + 1 /\ i <= n
        BY <1>1
      <3>2. g = SubSeq(q, k, n)
        BY <2>2, <3>1
      <3>3. \A j \in k..n : q[j] \in Nat \X Nat
        BY <1>1, <3>1
      <3>4. /\ g \in Seq(Nat \X Nat) /\ Len(g) = n - k + 1
            /\ \A m \in 1..(n - k + 1) : g[m] = q[k + m - 1]
        <4>1. /\ SubSeq(q, k, n) \in Seq(Nat \X Nat)
              /\ Len(SubSeq(q, k, n)) = IF k <= n THEN n - k + 1 ELSE 0
              /\ \A m \in 1..(n - k + 1) : SubSeq(q, k, n)[m] = q[k + m - 1]
          BY <3>1, <3>3, SubSeqProperties
        <4>2. (IF k <= n THEN n - k + 1 ELSE 0) = n - k + 1
          BY <3>1
        <4>3. QED
          BY <3>2, <4>1, <4>2
      <3>5. n - k + 1 = n - i /\ \A m \in 1..(n - i) : k + m - 1 = i + m
        BY <3>1
      <3>6. QED
        BY <3>1, <3>4, <3>5
    <2>5. PICK h : h = f \o g
      OBVIOUS
    <2>6. /\ h \in Seq(Nat \X Nat) /\ Len(h) = Len(q) - 1
          /\ \A m \in 1..Len(h) : h[m] = IF m < i THEN f[m] ELSE g[m - (i - 1)]
      <3>a. PICK n \in Nat : n = Len(q)
        BY <1>1
      <3>b. i \in 1..n
        BY <3>a
      <3>1. PICK c \in Nat, e \in Nat : c = i - 1 /\ e = n - i
        BY <3>b
      <3>2. Len(f) = c /\ Len(g) = e /\ f \in Seq(Nat \X Nat) /\ g \in Seq(Nat \X Nat)
        BY <2>3, <2>4, <3>a, <3>1
      <3>3. /\ h \in Seq(Nat \X Nat) /\ Len(h) = c + e
            /\ \A m \in 1..(c + e) : h[m] = IF m <= c THEN f[m] ELSE g[m - c]
        BY <2>5, <3>2, ConcatProperties
      <3>4. QED
        <4>1. c + e = n - 1 /\ \A m \in 1..(n - 1) : m <= c <=> m < i
          BY <3>b, <3>1
        <4>2. QED
          BY <3>a, <3>1, <3>3, <4>1
    <2>7. RemoveAt(q, i) = h
      BY <2>1, <2>2, <2>5 DEF RemoveAt
    <2>8. \A m \in 1..Len(h) : \E n \in 1..Len(q) : h[m] = q[n]
      <3> SUFFICES ASSUME NEW m \in 1..Len(h)
                   PROVE  \E n \in 1..Len(q) : h[m] = q[n]
        OBVIOUS
      <3>1. CASE m < i
        <4>1. m \in 1..(i - 1) /\ m \in 1..Len(q)
          BY <1>1, <2>6, <3>1
        <4>2. QED
          BY <2>3, <2>6, <3>1, <4>1
      <3>2. CASE ~(m < i)
        <4>1. PICK j \in 1..(Len(q) - i) : j = m - (i - 1)
          BY <1>1, <2>6, <3>2
        <4>2. h[m] = q[i + j] /\ i + j \in 1..Len(q)
          BY <1>1, <2>4, <2>6, <3>2, <4>1
        <4>3. QED
          BY <4>2
      <3>3. QED
        BY <3>1, <3>2
    <2>9. AllSent(h)
      BY <1>2, <2>6, <2>8
    <2>10. PICK a : a = Append(q, q[i])
      OBVIOUS
    <2>11. /\ a \in Seq(Nat \X Nat) /\ Len(a) = Len(q) + 1 /\ a[Len(q) + 1] = q[i]
           /\ \A m \in 1..Len(q) : a[m] = q[m]
      BY <1>1, <2>10
    <2>12. \A m \in 1..Len(a) : \E n \in 1..Len(q) : a[m] = q[n]
      <3> SUFFICES ASSUME NEW m \in 1..Len(a)
                   PROVE  \E n \in 1..Len(q) : a[m] = q[n]
        OBVIOUS
      <3>1. m \in 1..Len(q) \/ m = Len(q) + 1
        <4>1. PICK n \in Nat : n = Len(q)
          BY <1>1
        <4>2. m \in 1..(n + 1)
          BY <2>11, <4>1
        <4>3. QED
          BY <4>1, <4>2
      <3>2. QED
        BY <2>11, <3>1
    <2>13. AllSent(a)
      BY <1>2, <2>11, <2>12
    <2>14. PICK b : b = <<q[i]>> \o h
      OBVIOUS
    <2>15. /\ b \in Seq(Nat \X Nat) /\ Len(b) = Len(q) /\ b[1] = q[i]
           /\ \A m \in 2..Len(q) : b[m] = h[m - 1]
      BY <1>1, <2>6, <2>14
    <2>16. \A m \in 1..Len(b) : \E n \in 1..Len(q) : b[m] = q[n]
      <3> SUFFICES ASSUME NEW m \in 1..Len(b)
                   PROVE  \E n \in 1..Len(q) : b[m] = q[n]
        OBVIOUS
      <3>1. CASE m = 1
        BY <2>15, <3>1
      <3>2. CASE m # 1
        <4>1. m - 1 \in 1..Len(h) /\ b[m] = h[m - 1]
          BY <1>1, <2>6, <2>15, <3>2
        <4>2. QED
          BY <2>8, <4>1
      <3>3. QED
        BY <3>1, <3>2
    <2>17. AllSent(b)
      BY <1>2, <2>15, <2>16
    <2>18. QED
      BY <2>7, <2>9, <2>10, <2>13, <2>14, <2>17
  <1>4. ASSUME q # <<>>
        PROVE  AllSent(Tail(q)) /\ Len(q) > 0 /\ Head(q) = q[1]
    <2>1. PICK r : r = Tail(q)
      OBVIOUS
    <2>2. /\ Len(q) > 0 /\ Head(q) = q[1] /\ r \in Seq(Nat \X Nat) /\ Len(r) = Len(q) - 1
          /\ \A m \in 1..(Len(q) - 1) : r[m] = q[m + 1]
      BY <1>1, <1>4, <2>1
    <2>3. \A m \in 1..Len(r) : \E n \in 1..Len(q) : r[m] = q[n]
      <3> SUFFICES ASSUME NEW m \in 1..Len(r)
                   PROVE  \E n \in 1..Len(q) : r[m] = q[n]
        OBVIOUS
      <3>1. m + 1 \in 1..Len(q) /\ r[m] = q[m + 1]
        BY <1>1, <2>2
      <3>2. QED
        BY <3>1
    <2>4. QED
      BY <1>2, <2>1, <2>2, <2>3
  <1>5. QED
    BY <1>3, <1>4

LEMMA AllSentSame ==
  ASSUME sent' = sent, NEW q, AllSent(q)
  PROVE  AllSent(q)'
  BY DEF AllSent

LEMMA PathSends ==
  ASSUME ScriptsWellFormed, HistoryInv, PathInv, ClientSends
  PROVE  PathInv'
  <1>1. PICK d : d = <<sessions, at + 1>>
    OBVIOUS
  <1>2. PICK p : p = net'
    OBVIOUS
  <1>3. /\ Running /\ sent' = Append(sent, d) /\ p = Append(net, d)
        /\ rxq' = rxq /\ tx' = tx /\ taken' = taken
    BY <1>1, <1>2 DEF ClientSends, SendTag, relayVars, loggerVars
  <1>4. sent \in Seq(Nat \X Nat) /\ Len(sent) \in Nat
    BY DEF HistoryInv, SentTyped
  <1>5. d \in Nat \X Nat
    BY <1>1, <1>3, StepPlace
  <1>6. PICK s : s = sent'
    OBVIOUS
  <1>7. s \in Seq(Nat \X Nat) /\ Len(s) = Len(sent) + 1 /\ s[Len(sent) + 1] = d
    BY <1>3, <1>4, <1>5, <1>6, AppendProperties
  <1>8. AllSent(net)' 
    <2>1. /\ net \in Seq(Nat \X Nat)
          /\ \A i \in 1..Len(net) : \E k \in 1..Len(sent) : net[i] = sent[k]
      BY DEF PathInv, AllSent
    <2>2. /\ p \in Seq(Nat \X Nat) /\ Len(p) = Len(net) + 1 /\ p[Len(net) + 1] = d
          /\ \A i \in 1..Len(net) : p[i] = net[i]
      BY <1>3, <1>5, <2>1, AppendProperties
    <2>3. \A k \in 1..Len(sent) : k \in 1..Len(s) /\ s[k] = sent[k]
      BY <1>3, <1>4, <1>5, <1>6, AppendProperties
    <2>4. Len(s) \in 1..Len(s)
      BY <1>4, <1>7
    <2>5. ASSUME NEW i \in 1..Len(p)
          PROVE  \E k \in 1..Len(s) : p[i] = s[k]
      <3>1. PICK n \in Nat : n = Len(net)
        BY <2>1
      <3>2. i \in 1..n \/ i = n + 1
        BY <2>2, <3>1
      <3>3. CASE i \in 1..n
        BY <2>1, <2>2, <2>3, <3>1, <3>3
      <3>4. CASE i = n + 1
        BY <1>7, <2>2, <2>4, <3>1, <3>4
      <3>5. QED
        BY <3>2, <3>3, <3>4
    <2>6. QED
      BY <1>2, <1>6, <2>2, <2>5 DEF AllSent
  <1>9. AllSent(rxq)' /\ AllSent(tx)'
    <2>1. PICK q, t : q = rxq /\ t = tx
      OBVIOUS
    <2>2. AllSent(q)' /\ AllSent(t)'
      BY <1>3, <1>4, <2>1, AllSentMore DEF PathInv
    <2>3. QED
      BY <1>3, <2>1, <2>2 DEF AllSent
  <1>10. QED
    BY <1>3, <1>8, <1>9 DEF PathInv

\* A datagram moves along its way, without anything being sent.
LEMMA PathMoves ==
  ASSUME ScriptsWellFormed, HistoryInv, PathInv, Deliver \/ Mishap \/ RelayStep
  PROVE  PathInv'
  <1>1. sent' = sent /\ taken' = taken
    BY DEF Deliver, Mishap, RelayStep, historyVars, loggerVars
  <1>2. PICK n, q, t : n = net' /\ q = rxq' /\ t = tx'
    OBVIOUS
  <1>3. AllSent(net) /\ AllSent(rxq) /\ AllSent(tx) /\ taken \in 0..Len(tx)
    BY DEF PathInv
  <1>4. AllSent(n) /\ AllSent(q) /\ AllSent(t) /\ taken \in 0..Len(t)
    <2>1. CASE Deliver
      <3>1. /\ net # <<>> /\ n = Tail(net) /\ t = tx
            /\ q = Append(rxq, Head(net)) \/ q = rxq
        BY <1>2, <2>1 DEF Deliver, R!Arrive
      <3>2. AllSent(n) /\ Len(net) > 0 /\ Head(net) = net[1]
        BY <1>3, <3>1, AllSentKept
      <3>3. AllSent(q)
        <4>1. PICK d : d = net[1]
          OBVIOUS
        <4>2. PICK k \in 1..Len(sent) : d = sent[k]
          <5>1. 1 \in 1..Len(net) /\ \A i \in 1..Len(net) : \E m \in 1..Len(sent) : net[i] = sent[m]
            BY <1>3, <3>2 DEF AllSent
          <5>2. QED
            BY <4>1, <5>1
        <4>3. sent \in Seq(Nat \X Nat) /\ d \in Nat \X Nat
          BY <4>2 DEF HistoryInv, SentTyped
        <4>4. CASE q = Append(rxq, d)
          <5>1. rxq \in Seq(Nat \X Nat) /\ \A i \in 1..Len(rxq) : \E m \in 1..Len(sent) : rxq[i] = sent[m]
            BY <1>3 DEF AllSent
          <5>2. /\ q \in Seq(Nat \X Nat) /\ Len(q) = Len(rxq) + 1 /\ q[Len(rxq) + 1] = d
                /\ \A i \in 1..Len(rxq) : q[i] = rxq[i]
            BY <4>3, <4>4, <5>1, AppendProperties
          <5>3. ASSUME NEW i \in 1..Len(q)
                PROVE  \E m \in 1..Len(sent) : q[i] = sent[m]
            <6>1. PICK l \in Nat : l = Len(rxq)
              BY <5>1
            <6>2. i \in 1..l \/ i = l + 1
              BY <5>2, <6>1
            <6>3. QED
              BY <4>2, <5>1, <5>2, <6>1, <6>2
          <5>4. QED
            BY <5>2, <5>3 DEF AllSent
        <4>5. QED
          BY <1>3, <3>1, <3>2, <4>1, <4>4
      <3>4. QED
        BY <1>3, <3>1, <3>2, <3>3
    <2>2. CASE Mishap
      <3>1. /\ q = rxq /\ t = tx
            /\ \E i \in 1..Len(net) : \/ n = RemoveAt(net, i)
                                      \/ n = Append(net, net[i])
                                      \/ n = <<net[i]>> \o RemoveAt(net, i)
        BY <1>2, <2>2 DEF Mishap, relayVars
      <3>2. QED
        BY <1>3, <3>1, AllSentKept
    <2>3. CASE RelayStep
      <3>1. /\ rxq # <<>> /\ n = net /\ q = Tail(rxq)
            /\ t = Append(tx, R!Relayed(Head(rxq))) \/ t = tx
        BY <1>2, <2>3 DEF RelayStep, R!Relay, R!sendit, pathVars
      <3>2. AllSent(q) /\ Len(rxq) > 0 /\ Head(rxq) = rxq[1]
        BY <1>3, <3>1, AllSentKept
      <3>3. PICK d : d = rxq[1]
        OBVIOUS
      <3>4. PICK k \in 1..Len(sent) : d = sent[k]
        <4>1. 1 \in 1..Len(rxq) /\ \A i \in 1..Len(rxq) : \E m \in 1..Len(sent) : rxq[i] = sent[m]
          BY <1>3, <3>2 DEF AllSent
        <4>2. QED
          BY <3>3, <4>1
      <3>5. /\ sent \in Seq(Nat \X Nat) /\ d \in Nat \X Nat
            /\ d[1] \in 1..sessions /\ d[2] \in 1..Len(ProgramOf(d[1]))
        BY <3>4 DEF HistoryInv, SentTyped
      <3>6. R!Relayed(d) = d
        <4>1. d[1] # 0 /\ d[2] # 0
          BY <3>5
        <4>2. QED
          BY <3>5, <4>1, RelayedWhole
      <3>7. tx \in Seq(Nat \X Nat) /\ \A i \in 1..Len(tx) : \E m \in 1..Len(sent) : tx[i] = sent[m]
        BY <1>3 DEF AllSent
      <3>8. CASE t = Append(tx, d)
        <4>1. /\ t \in Seq(Nat \X Nat) /\ Len(t) = Len(tx) + 1 /\ t[Len(tx) + 1] = d
              /\ \A i \in 1..Len(tx) : t[i] = tx[i]
          BY <3>5, <3>7, <3>8, AppendProperties
        <4>2. PICK l \in Nat : l = Len(tx)
          BY <3>7
        <4>3. ASSUME NEW i \in 1..Len(t)
              PROVE  \E m \in 1..Len(sent) : t[i] = sent[m]
          <5>1. i \in 1..l \/ i = l + 1
            BY <4>1, <4>2
          <5>2. QED
            BY <3>4, <3>7, <4>1, <4>2, <5>1
        <4>4. taken \in 0..Len(t)
          BY <1>3, <4>1, <4>2
        <4>5. QED
          BY <1>3, <3>1, <3>2, <4>1, <4>3, <4>4 DEF AllSent
      <3>9. QED
        BY <1>3, <3>1, <3>2, <3>3, <3>6, <3>8
    <2>4. QED
      BY <2>1, <2>2, <2>3
  <1>5. AllSent(n)' /\ AllSent(q)' /\ AllSent(t)'
    BY <1>1, <1>4, AllSentSame
  <1>6. QED
    BY <1>1, <1>2, <1>4, <1>5 DEF PathInv, AllSent

LEMMA PathStep ==
  ASSUME ScriptsWellFormed, HistoryInv, PathInv, [PipelineNext]_pipelineVars
  PROVE  PathInv'
  <1>1. ASSUME UNCHANGED <<sent, net, rxq, tx>>, taken' = taken \/ LogTag
        PROVE  PathInv'
    <2>1. taken' \in 0..Len(tx)
      <3>1. tx \in Seq(Nat \X Nat) /\ taken \in 0..Len(tx)
        BY DEF PathInv, AllSent
      <3>2. QED
        BY <1>1, <3>1 DEF LogTag
    <2>2. QED
      BY <1>1, <2>1 DEF PathInv, AllSent
  <1>2. CASE ClientStep \/ LogTag \/ LogSample \/ StopLogging \/ Analyse
    BY <1>1, <1>2 DEF ClientStep, LogTag, LogSample, StopLogging, Analyse,
                      pathVars, relayVars, loggerVars, historyVars
  <1>3. CASE ClientSends
    BY <1>3, PathSends
  <1>4. CASE Deliver \/ Mishap \/ RelayStep
    BY <1>4, PathMoves
  <1>5. CASE UNCHANGED pipelineVars
    BY <1>1, <1>5 DEF pipelineVars, pathVars, relayVars, loggerVars, historyVars
  <1>6. QED
    BY <1>2, <1>3, <1>4, <1>5 DEF PipelineNext

\* The lines of the log file.
LogLine == [datagram : (Nat \X Nat) \cup {<<>>}, sample : Nat, sent : Nat, current : BOOLEAN]

\* The t-th tag taken stands on line pos[t].
Placed(pos) ==
  /\ pos \in [1..taken -> 1..Len(logfile)]
  /\ \A t, u \in 1..taken : t < u => pos[t] < pos[u]
  /\ \A t \in 1..taken : logfile[pos[t]].sample = 0 /\ logfile[pos[t]].datagram = tx[t]
  /\ \A i \in 1..Len(logfile) : logfile[i].sample = 0 => \E t \in 1..taken : pos[t] = i
  /\ \A n \in 0..Len(logfile) :
       /\ TagsInFirst(n) \in 0..taken
       /\ \A t \in 1..taken : t <= TagsInFirst(n) <=> pos[t] <= n

\* The log holds the tags taken, in order.
FileInv == logfile \in Seq(LogLine) /\ \E pos : Placed(pos)

\* A line is added: the tags before it are counted as before.
LEMMA LineAdded ==
  ASSUME logfile \in Seq(LogLine), NEW l \in LogLine, NEW f, f = logfile', f = Append(logfile, l),
         NEW k, k = Len(logfile) + 1
  PROVE  /\ f \in Seq(LogLine) /\ Len(logfile) \in Nat /\ Len(f) = Len(logfile) + 1
         /\ f[Len(logfile) + 1] = l
         /\ \A i \in 1..Len(logfile) : f[i] = logfile[i]
         /\ \A n \in 0..Len(logfile) : TagsInFirst(n)' = TagsInFirst(n) /\ TagsInFirst(n) \in Nat
         /\ TagsInFirst(k)' =
              TagsInFirst(Len(logfile)) + (IF l.sample = 0 THEN 1 ELSE 0)
  <1>1. /\ f \in Seq(LogLine) /\ Len(logfile) \in Nat /\ Len(f) = Len(logfile) + 1
        /\ f[Len(logfile) + 1] = l
        /\ \A i \in 1..Len(logfile) : f[i] = logfile[i]
    BY AppendProperties
  <1>2. ASSUME NEW n \in 0..Len(logfile)
        PROVE  TagsInFirst(n)' = TagsInFirst(n) /\ TagsInFirst(n) \in Nat
    <2> DEFINE T == {i \in 1..n : logfile[i].sample = 0}
               U == {i \in 1..n : f[i].sample = 0}
    <2>1. T = U
      BY <1>1
    <2>2. n \in Int /\ 1 \in Int /\ T \subseteq 1..n
      BY <1>1
    <2>3. IsFiniteSet(1..n)
      BY <2>2, FS_Interval
    <2>4. Cardinality(T) \in Nat
      BY <2>2, <2>3, FS_Subset, FS_CardinalityType
    <2>5. TagsInFirst(n) = Cardinality(T) /\ TagsInFirst(n)' = Cardinality(U)
      BY DEF TagsInFirst
    <2>6. QED
      BY <2>1, <2>4, <2>5
  <1>3. TagsInFirst(k)' =
          TagsInFirst(Len(logfile)) + (IF l.sample = 0 THEN 1 ELSE 0)
    <2>1. PICK n \in Nat : n = Len(logfile)
      BY <1>1
    <2> DEFINE T == {i \in 1..n : logfile[i].sample = 0}
               U == {i \in 1..(n + 1) : f[i].sample = 0}
    <2>2. U = IF l.sample = 0 THEN T \cup {n + 1} ELSE T
      <3>1. \A i \in 1..(n + 1) : i \in 1..n \/ i = n + 1
        OBVIOUS
      <3>2. n + 1 \in 1..(n + 1) /\ \A i \in 1..n : i \in 1..(n + 1)
        OBVIOUS
      <3>3. \A i : i \in U <=> i \in T \/ (i = n + 1 /\ l.sample = 0)
        BY <1>1, <2>1, <3>1, <3>2
      <3>4. QED
        BY <3>3
    <2>3. IsFiniteSet(T)
      <3>1. n \in Int /\ 1 \in Int /\ T \subseteq 1..n
        OBVIOUS
      <3>2. IsFiniteSet(1..n)
        BY <3>1, FS_Interval
      <3>3. QED
        BY <3>1, <3>2, FS_Subset
    <2>4. n + 1 \notin T
      OBVIOUS
    <2>5. Cardinality(T \cup {n + 1}) = Cardinality(T) + 1 /\ Cardinality(T) \in Nat
      BY <2>3, <2>4, FS_AddElement, FS_CardinalityType
    <2>6. TagsInFirst(n) = Cardinality(T)
      BY DEF TagsInFirst
    <2>8. TagsInFirst(k)' = Cardinality(U)
      BY <2>1 DEF TagsInFirst
    <2>9. Cardinality(U) = Cardinality(T) + (IF l.sample = 0 THEN 1 ELSE 0)
      <3> HIDE DEF T, U
      <3>1. CASE l.sample = 0
        BY <2>2, <2>5, <3>1
      <3>2. CASE l.sample # 0
        BY <2>2, <2>5, <3>2
      <3>3. QED
        BY <3>1, <3>2
    <2>10. QED
      <3> HIDE DEF T, U
      <3>1. QED
        BY <2>1, <2>6, <2>8, <2>9
  <1>4. QED
    BY <1>1, <1>2, <1>3

\* What has been taken stays what it is.
LEMMA TakenKept ==
  ASSUME PathInv, [PipelineNext]_pipelineVars
  PROVE  \A t \in 1..taken : tx'[t] = tx[t]
  <1>1. tx \in Seq(Nat \X Nat) /\ taken \in 0..Len(tx)
    BY DEF PathInv, AllSent
  <1>2. tx' = tx \/ \E d : tx' = Append(tx, d)
    BY DEF PipelineNext, ClientStep, ClientSends, Deliver, Mishap, RelayStep, LogTag, LogSample,
           StopLogging, Analyse, R!Arrive, R!Relay, R!sendit, relayVars, pipelineVars
  <1>3. ASSUME NEW d, NEW q, q = Append(tx, d), NEW t \in 1..taken
        PROVE  q[t] = tx[t]
    BY <1>1, <1>3
  <1>4. QED
    BY <1>2, <1>3

\* The logger writes a tag.
LEMMA FileTag ==
  ASSUME PathInv, FileInv, LogTag
  PROVE  FileInv'
  <1> PICK pos : Placed(pos)
    BY DEF FileInv
  <1>1. PICK l, f : /\ l = [datagram |-> tx[taken + 1], sample |-> 0, sent |-> 0, current |-> FALSE]
                    /\ f = logfile'
    OBVIOUS
  <1>2. /\ f = Append(logfile, l) /\ taken' = taken + 1 /\ tx' = tx /\ taken < Len(tx)
        /\ tx \in Seq(Nat \X Nat) /\ taken \in 0..Len(tx)
    BY <1>1 DEF LogTag, relayVars, PathInv, AllSent
  <1>3. /\ l \in LogLine /\ l.sample = 0 /\ l.datagram = tx[taken + 1]
    BY <1>1, <1>2 DEF LogLine
  <1>4. PICK n \in Nat, k \in Nat : n = Len(logfile) /\ k = n + 1
    BY DEF FileInv
  <1>5. PICK c \in Nat, d \in Nat : c = taken /\ d = c + 1
    BY <1>2
  <1>6. /\ f \in Seq(LogLine) /\ Len(f) = k /\ f[k] = l
        /\ \A i \in 1..n : f[i] = logfile[i]
        /\ \A m \in 0..n : TagsInFirst(m)' = TagsInFirst(m)
        /\ TagsInFirst(k)' = TagsInFirst(n) + 1
    <2>1. logfile \in Seq(LogLine) /\ k = Len(logfile) + 1
      BY <1>4 DEF FileInv
    <2>2. f = logfile' /\ f = Append(logfile, l) /\ l \in LogLine /\ l.sample = 0
      BY <1>1, <1>2, <1>3
    <2>3. /\ f \in Seq(LogLine) /\ Len(f) = Len(logfile) + 1 /\ f[Len(logfile) + 1] = l
          /\ \A i \in 1..Len(logfile) : f[i] = logfile[i]
          /\ \A m \in 0..Len(logfile) : TagsInFirst(m)' = TagsInFirst(m)
          /\ TagsInFirst(k)' = TagsInFirst(Len(logfile)) + (IF l.sample = 0 THEN 1 ELSE 0)
      BY <2>1, <2>2, LineAdded
    <2>4. QED
      BY <1>4, <2>2, <2>3
  <1>7. PICK q : q = [t \in 1..d |-> IF t <= c THEN pos[t] ELSE k]
    OBVIOUS
  <1>8. /\ \A t \in 1..c : t \in 1..d /\ q[t] = pos[t] /\ pos[t] \in 1..n
        /\ q[d] = k /\ \A t \in 1..d : t \in 1..c \/ t = d
    BY <1>4, <1>5, <1>7 DEF Placed
  <1>9. q \in [1..d -> 1..k]
    <2>1. k \in 1..k /\ \A m \in 1..n : m \in 1..k
      BY <1>4
    <2>2. \A t \in 1..d : (IF t <= c THEN pos[t] ELSE k) \in 1..k
      BY <1>5, <1>8, <2>1
    <2>3. QED
      BY <1>7, <2>2
  <1>10. \A t, u \in 1..d : t < u => q[t] < q[u]
    <2> SUFFICES ASSUME NEW t \in 1..d, NEW u \in 1..d, t < u
                 PROVE  q[t] < q[u]
      OBVIOUS
    <2>1. t \in 1..c
      BY <1>5
    <2>2. CASE u \in 1..c
      BY <1>5, <1>8, <2>1, <2>2 DEF Placed
    <2>3. CASE u = d
      BY <1>4, <1>8, <2>1, <2>3
    <2>4. QED
      BY <1>8, <2>2, <2>3
  <1>11. \A t \in 1..d : f[q[t]].sample = 0 /\ f[q[t]].datagram = tx[t]
    <2> SUFFICES ASSUME NEW t \in 1..d
                 PROVE  f[q[t]].sample = 0 /\ f[q[t]].datagram = tx[t]
      OBVIOUS
    <2>1. CASE t \in 1..c
      <3>1. logfile[pos[t]].sample = 0 /\ logfile[pos[t]].datagram = tx[t]
        BY <1>5, <2>1 DEF Placed
      <3>2. q[t] = pos[t] /\ f[pos[t]] = logfile[pos[t]]
        BY <1>6, <1>8, <2>1
      <3>3. QED
        BY <3>1, <3>2
    <2>2. CASE t = d
      BY <1>3, <1>5, <1>6, <1>8, <2>2
    <2>3. QED
      BY <1>8, <2>1, <2>2
  <1>12. \A i \in 1..k : f[i].sample = 0 => \E t \in 1..d : q[t] = i
    <2> SUFFICES ASSUME NEW i \in 1..k, f[i].sample = 0
                 PROVE  \E t \in 1..d : q[t] = i
      OBVIOUS
    <2>1. CASE i = k
      BY <1>5, <1>8, <2>1
    <2>2. CASE i # k
      <3>1. i \in 1..n /\ logfile[i].sample = 0
        BY <1>4, <1>6, <2>2
      <3>2. PICK t \in 1..c : pos[t] = i
        BY <1>4, <1>5, <3>1 DEF Placed
      <3>3. QED
        BY <1>8, <3>2
    <2>3. QED
      BY <2>1, <2>2
  <1>13. \A m \in 0..k : /\ TagsInFirst(m)' \in 0..d
                         /\ \A t \in 1..d : t <= TagsInFirst(m)' <=> q[t] <= m
    <2>1. \A m \in 0..n : /\ TagsInFirst(m) \in 0..c
                          /\ \A t \in 1..c : t <= TagsInFirst(m) <=> pos[t] <= m
      BY <1>4, <1>5 DEF Placed
    <2>2. ASSUME NEW m \in 0..n
          PROVE  /\ TagsInFirst(m)' \in 0..d
                 /\ \A t \in 1..d : t <= TagsInFirst(m)' <=> q[t] <= m
      <3>1. TagsInFirst(m)' = TagsInFirst(m)
        BY <1>6
      <3>2. PICK z \in 0..c : z = TagsInFirst(m)
        BY <2>1
      <3>3. ASSUME NEW t \in 1..d
            PROVE  t <= z <=> q[t] <= m
        <4>1. CASE t \in 1..c
          BY <1>8, <2>1, <3>2, <4>1
        <4>2. CASE t = d
          BY <1>4, <1>5, <1>8, <4>2
        <4>3. QED
          BY <1>8, <4>1, <4>2
      <3>4. z \in 0..d
        BY <1>5
      <3>5. QED
        BY <3>1, <3>2, <3>3, <3>4
    <2>3. TagsInFirst(n) = c
      <3>1. n \in 0..n /\ TagsInFirst(n) \in 0..c
        BY <2>1
      <3>2. c > 0 => c \in 1..c /\ pos[c] <= n
        BY <1>4, <1>8
      <3>3. QED
        BY <2>1, <3>1, <3>2
    <2>4. TagsInFirst(k)' = d
      BY <1>5, <1>6, <2>3
    <2>5. \A t \in 1..d : t <= d /\ q[t] <= k
      BY <1>4, <1>5, <1>9
    <2>6. ASSUME NEW m \in 0..k
          PROVE  /\ TagsInFirst(m)' \in 0..d
                 /\ \A t \in 1..d : t <= TagsInFirst(m)' <=> q[t] <= m
      <3>1. m \in 0..n \/ m = k
        BY <1>4
      <3>2. d \in 0..d
        BY <1>5
      <3>3. CASE m = k
        BY <2>4, <2>5, <3>2, <3>3
      <3>4. QED
        BY <2>2, <3>1, <3>3
    <2>7. QED
      BY <2>6
  <1>14. Placed(q)'
    <2>1. taken' = d /\ logfile' = f /\ tx' = tx /\ Len(f) = k
      BY <1>1, <1>2, <1>5, <1>6
    <2>2. q \in [1..taken' -> 1..Len(logfile')]
      BY <1>9, <2>1
    <2>3. /\ \A t, u \in 1..taken' : t < u => q[t] < q[u]
          /\ \A t \in 1..taken' :
               logfile'[q[t]].sample = 0 /\ logfile'[q[t]].datagram = tx'[t]
          /\ \A i \in 1..Len(logfile') : logfile'[i].sample = 0 => \E t \in 1..taken' : q[t] = i
      BY <1>10, <1>11, <1>12, <2>1
    <2>4. \A m \in 0..Len(logfile') :
            /\ TagsInFirst(m)' \in 0..taken'
            /\ \A t \in 1..taken' : t <= TagsInFirst(m)' <=> q[t] <= m
      BY <1>13, <2>1
    <2>5. QED
      BY <2>2, <2>3, <2>4 DEF Placed
  <1>15. QED
    BY <1>1, <1>6, <1>14 DEF FileInv

\* The logger writes a reading of the meter.
LEMMA FileSample ==
  ASSUME PathInv, FileInv, LogSample, Len(sent) \in Nat
  PROVE  FileInv'
  <1> PICK pos : Placed(pos)
    BY DEF FileInv
  <1>1. PICK l, f : /\ l = [datagram |-> <<>>, sample |-> Cardinality(Samples) + 1,
                            sent |-> Len(sent), current |-> taken > 0 /\ tx[taken] = Last(sent)]
                    /\ f = logfile'
    OBVIOUS
  <1>2. /\ f = Append(logfile, l) /\ taken' = taken /\ tx' = tx /\ taken \in Nat
    BY <1>1 DEF LogSample, relayVars, PathInv, AllSent
  <1>3. PICK n \in Nat, k \in Nat : n = Len(logfile) /\ k = n + 1
    BY DEF FileInv
  <1>4. Cardinality(Samples) \in Nat
    <2>1. Samples \subseteq 1..n /\ 1 \in Int /\ n \in Int
      BY <1>3 DEF Samples
    <2>2. IsFiniteSet(1..n)
      BY <2>1, FS_Interval
    <2>3. QED
      BY <2>1, <2>2, FS_Subset, FS_CardinalityType
  <1>5. PICK s \in Nat : s = Cardinality(Samples)
    BY <1>4
  <1>6. l \in LogLine /\ l.sample # 0
    <2>1. PICK b \in BOOLEAN : b = (taken > 0 /\ tx[taken] = Last(sent))
      OBVIOUS
    <2>2. l = [datagram |-> <<>>, sample |-> s + 1, sent |-> Len(sent), current |-> b]
      BY <1>1, <1>5, <2>1
    <2>3. QED
      BY <2>2 DEF LogLine
  <1>7. /\ f \in Seq(LogLine) /\ Len(f) = k /\ f[k] = l
        /\ \A i \in 1..n : f[i] = logfile[i]
        /\ \A m \in 0..n : TagsInFirst(m)' = TagsInFirst(m)
        /\ TagsInFirst(n) \in Nat /\ TagsInFirst(k)' = TagsInFirst(n) + 0
    <2>1. n \in 0..n
      OBVIOUS
    <2>2. QED
      BY <1>1, <1>2, <1>3, <1>6, <2>1, LineAdded DEF FileInv
  <1>8. PICK c \in Nat : c = taken
    BY <1>2
  <1>9. /\ pos \in [1..c -> 1..n]
        /\ \A t, u \in 1..c : t < u => pos[t] < pos[u]
        /\ \A t \in 1..c : logfile[pos[t]].sample = 0 /\ logfile[pos[t]].datagram = tx[t]
        /\ \A i \in 1..n : logfile[i].sample = 0 => \E t \in 1..c : pos[t] = i
        /\ \A m \in 0..n : /\ TagsInFirst(m) \in 0..c
                           /\ \A t \in 1..c : t <= TagsInFirst(m) <=> pos[t] <= m
    BY <1>3, <1>8 DEF Placed
  <1>10. \A i \in 1..n : i \in 1..k
    BY <1>3
  <1>11. \A i \in 1..k : i \in 1..n \/ i = k
    BY <1>3
  <1>12. pos \in [1..c -> 1..k]
    BY <1>9, <1>10
  <1>13. \A t \in 1..c : f[pos[t]].sample = 0 /\ f[pos[t]].datagram = tx[t]
    BY <1>7, <1>9
  <1>14. \A i \in 1..k : f[i].sample = 0 => \E t \in 1..c : pos[t] = i
    BY <1>6, <1>7, <1>9, <1>11
  <1>15. ASSUME NEW m \in 0..k
         PROVE  /\ TagsInFirst(m)' \in 0..c
                /\ \A t \in 1..c : t <= TagsInFirst(m)' <=> pos[t] <= m
    <2>1. m \in 0..n \/ m = k
      BY <1>3
    <2>2. CASE m \in 0..n
      BY <1>7, <1>9, <2>2
    <2>3. CASE m = k
      <3>1. n \in 0..n
        OBVIOUS
      <3>2. PICK z \in 0..c : z = TagsInFirst(n)
        BY <1>9, <3>1
      <3>3. TagsInFirst(m)' = z
        BY <1>7, <2>3, <3>2
      <3>4. \A t \in 1..c : t <= z <=> pos[t] <= n
        BY <1>9, <3>1, <3>2
      <3>5. \A t \in 1..c : pos[t] <= n <=> pos[t] <= k
        BY <1>3, <1>9
      <3>6. QED
        BY <2>3, <3>3, <3>4, <3>5
    <2>4. QED
      BY <2>1, <2>2, <2>3
  <1>16. Placed(pos)'
    BY <1>1, <1>2, <1>7, <1>8, <1>9, <1>12, <1>13, <1>14, <1>15 DEF Placed
  <1>17. QED
    BY <1>1, <1>7, <1>16 DEF FileInv

LEMMA FileStep ==
  ASSUME HistoryInv, PathInv, FileInv, [PipelineNext]_pipelineVars
  PROVE  FileInv'
  <1>1. Len(sent) \in Nat
    BY DEF HistoryInv, SentTyped
  <1>2. CASE LogTag
    BY <1>2, FileTag
  <1>3. CASE LogSample
    BY <1>1, <1>3, FileSample
  <1>4. CASE logfile' = logfile /\ taken' = taken
    <2>1. PICK pos : Placed(pos)
      BY DEF FileInv
    <2>2. \A t \in 1..taken : tx'[t] = tx[t]
      BY TakenKept
    <2>3. \A n : TagsInFirst(n)' = TagsInFirst(n)
      BY <1>4 DEF TagsInFirst
    <2>4. Placed(pos)'
      BY <1>4, <2>1, <2>2, <2>3 DEF Placed
    <2>5. QED
      BY <1>4, <2>4 DEF FileInv
  <1>5. (logfile' = logfile /\ taken' = taken) \/ LogTag \/ LogSample
    BY DEF PipelineNext, ClientStep, ClientSends, Deliver, Mishap, RelayStep, StopLogging,
           Analyse, loggerVars, pipelineVars
  <1>6. QED
    BY <1>2, <1>3, <1>4, <1>5

LEMMA PathInit == PipelineInit => PathInv /\ FileInv
  <1> SUFFICES ASSUME PipelineInit PROVE PathInv /\ FileInv
    OBVIOUS
  <1>1. net = <<>> /\ rxq = <<>> /\ tx = <<>> /\ taken = 0 /\ logfile = <<>>
    BY DEF PipelineInit
  <1>2. PathInv
    BY <1>1 DEF PathInv, AllSent
  <1>3. PICK pos : pos = [t \in 1..0 |-> 0]
    OBVIOUS
  <1>4. 1..0 = {} /\ 0..0 = {0} /\ Len(logfile) = 0
    BY <1>1
  <1>5. TagsInFirst(0) = 0
    BY <1>4, FS_EmptySet DEF TagsInFirst
  <1>6. Placed(pos)
    <2>1. pos \in [1..0 -> 1..0]
      BY <1>3, <1>4
    <2>2. QED
      BY <1>1, <1>4, <1>5, <2>1 DEF Placed
  <1>7. QED
    BY <1>1, <1>2, <1>6 DEF FileInv

\* Everything the client, the network, the relay and the logger keep to.
LEMMA PathKept ==
  ASSUME ScriptsWellFormed
  PROVE  PipelineSpec => [](HistoryInv /\ PathInv /\ FileInv)
  <1>1. HistoryInv /\ PathInv /\ FileInv /\ [PipelineNext]_pipelineVars
          => (HistoryInv /\ PathInv /\ FileInv)'
    BY HistoryStep, PathStep, FileStep
  <1>2. PipelineInit => HistoryInv /\ PathInv /\ FileInv
    BY HistoryInit, PathInit
  <1>3. QED
    BY <1>1, <1>2, PTL DEF PipelineSpec

-----------------------------------------------------------------------------
(* statstool on the log that was written *)

\* A datagram is a tag of the text of its session's script.
LEMMA TagKnown ==
  ASSUME ScriptsWellFormed, HistoryInv, NEW k \in 1..Len(sent)
  PROVE  /\ sent[k] \in Nat \X Nat
         /\ Tag(sent[k]) = ProgramOf(sent[k][1])[sent[k][2]]
         /\ sent[k][1] \in 1..sessions /\ sent[k][2] \in 1..Len(ProgramOf(sent[k][1]))
         /\ ran[sent[k][1]] \in Scripts /\ sessions \in Nat
         /\ Tag(sent[k]).tag \in SentTags
         /\ Tag(sent[k]).tag = "TEST_BEGIN" =>
              Tag(sent[k]).name \in TestNames /\ Tag(sent[k]).name # Unnamed
  <1>1. PICK d \in Nat \X Nat : d = sent[k]
    BY DEF HistoryInv, SentTyped
  <1>2. /\ d[1] \in 1..sessions /\ d[2] \in 1..Len(ProgramOf(d[1])) /\ Tag(d).op = "send"
        /\ Tag(d) = ProgramOf(d[1])[d[2]] /\ ran[d[1]] \in Scripts
    <2>1. d[1] \in 1..sessions /\ d[2] \in 1..Len(ProgramOf(d[1])) /\ Tag(d).op = "send"
      BY <1>1 DEF HistoryInv, SentTyped
    <2>2. ran \in Seq(Scripts) /\ Len(ran) = sessions
      BY DEF HistoryInv, RanTracked
    <2>3. ran[d[1]] \in Scripts
      BY <2>1, <2>2
    <2>4. QED
      BY <2>1, <2>3 DEF Tag, ProgramOf
  <1>3. PICK s \in Scripts : s = ran[d[1]]
    BY <1>2
  <1>4. PICK p : p = Programs[s] /\ WellFormed(p)
    BY DEF ScriptsWellFormed
  <1>5. PICK j \in 1..Len(p) : j = d[2]
    BY <1>2, <1>3, <1>4 DEF ProgramOf
  <1>6. Tag(d) = p[j] /\ p[j].op = "send"
    BY <1>2, <1>3, <1>4, <1>5 DEF ProgramOf
  <1>7. p[j].tag \in SentTags /\ (p[j].tag = "TEST_BEGIN" => p[j].name # Unnamed)
    BY <1>4, <1>6 DEF WellFormed
  <1>8. p[j].tag = "TEST_BEGIN" => p[j].name \in TestNames
    <2>1. p[j].tag = "TEST_BEGIN" => p[j].name \in NamesIn(p)
      BY DEF NamesIn
    <2>2. NamesIn(p) \subseteq TestNames
      BY <1>4 DEF TestNames
    <2>3. QED
      BY <2>1, <2>2
  <1>9. sessions \in Nat
    BY DEF HistoryInv, ClientTypeOK
  <1>10. QED
    BY <1>1, <1>2, <1>6, <1>7, <1>8, <1>9

\* The t-th tag taken was sent.
LEMMA TakenSent ==
  ASSUME PathInv, NEW t \in 1..taken
  PROVE  tx[t] \in Nat \X Nat /\ \E k \in 1..Len(sent) : tx[t] = sent[k]
  <1>1. t \in 1..Len(tx)
    BY DEF PathInv, AllSent
  <1>2. QED
    BY <1>1 DEF PathInv, AllSent

\* The lines of the log are lines statstool knows.
LEMMA LinesKnown ==
  ASSUME ScriptsWellFormed, HistoryInv, PathInv, FileInv, NEW i \in 1..Len(logfile)
  PROVE  BodyOf(logfile[i]) \in D!Bodies
  <1>1. PICK l \in LogLine : l = logfile[i]
    BY DEF FileInv
  <1>2. D!NoClient = [host |-> "", arch |-> ""] /\ D!NoName = [word |-> "", rest |-> ""]
        /\ S!NoClient = D!NoClient /\ S!NoName = D!NoName
    BY DEF D!NoClient, D!NoName, S!NoClient, S!NoName
  <1>3. CASE l.sample > 0
    <2>1. BodyOf(l) = [tag |-> "SAMPLE", who |-> D!NoClient, name |-> D!NoName, y |-> l.sample]
          /\ l.sample \in Nat
      BY <1>1, <1>2, <1>3 DEF BodyOf, LogLine
    <2>2. QED
      BY <1>1, <2>1 DEF D!Bodies, D!Body, D!AllTags
  <1>4. CASE ~(l.sample > 0)
    <2>1. l.sample = 0
      BY <1>1, <1>4 DEF LogLine
    <2>2. PICK pos : Placed(pos)
      BY DEF FileInv
    <2>3. PICK t \in 1..taken : l.datagram = tx[t]
      BY <1>1, <2>1, <2>2 DEF Placed
    <2>4. PICK k \in 1..Len(sent) : tx[t] = sent[k]
      BY TakenSent
    <2>5. PICK g : g = Tag(l.datagram)
      OBVIOUS
    <2>6. /\ g.tag \in {"TEST_CLIENT", "TEST_BEGIN", "TEST_END", "TEST_RUN_BEGIN",
                        "TEST_RUN_END", "OTHER"}
          /\ g.tag = "TEST_BEGIN" => g.name \in TestNames /\ g.name # D!NoName
      BY <2>3, <2>4, <2>5, TagKnown DEF SentTags, D!NoName, Unnamed, Name
    <2>7. PICK b : b = BodyOf(l)
      OBVIOUS
    <2>8. b = [tag |-> g.tag, who |-> IF g.tag = "TEST_CLIENT" THEN Host ELSE D!NoClient,
               name |-> IF g.tag = "TEST_BEGIN" THEN g.name ELSE D!NoName, y |-> 0]
      BY <1>2, <1>4, <2>5, <2>7 DEF BodyOf
    <2>9. Host # D!NoClient
      BY ToolConstants DEF D!StatsConstants
    <2>10. /\ b.tag = g.tag /\ b.y = 0
           /\ b.who = (IF g.tag = "TEST_CLIENT" THEN Host ELSE D!NoClient)
           /\ b.name = (IF g.tag = "TEST_BEGIN" THEN g.name ELSE D!NoName)
      BY <2>8
    <2>11. b \in D!Body
      BY <2>6, <2>8 DEF D!Body, D!AllTags
    <2>12. QED
      BY <1>1, <2>6, <2>7, <2>9, <2>10, <2>11 DEF D!Bodies, SentTags
  <1>5. QED
    BY <1>1, <1>3, <1>4

\* The tool of the pipeline is the tool of Statstool_reports.
LEMMA SameRuns ==
  /\ S!Garbage = D!Garbage /\ S!NewRun = D!NewRun
  /\ \A s, i, d : S!test_run_begin(s, i, d) = D!test_run_begin(s, i, d)
  /\ \A s : S!test_run_end(s) = D!test_run_end(s)
  /\ S!Slots = D!Slots
  /\ \A d, n : S!data_free(d, n) = D!data_free(d, n)
  /\ \A r, x, y : S!AddPoint(r, x, y) = D!AddPoint(r, x, y)
  /\ \A t, d, n : S!data_analyse(t, d, n) = D!data_analyse(t, d, n)
  <1>1. S!Garbage = D!Garbage /\ S!NewRun = D!NewRun
    BY DEF S!Garbage, D!Garbage, S!NewRun, D!NewRun
  <1>2. \A s, i, d : S!test_run_begin(s, i, d) = D!test_run_begin(s, i, d)
    BY <1>1 DEF S!test_run_begin, D!test_run_begin
  <1>3. \A s : S!test_run_end(s) = D!test_run_end(s)
    BY DEF S!test_run_end, D!test_run_end
  <1>4. S!Slots = D!Slots
    BY DEF S!Slots, D!Slots
  <1>5. \A d, n : S!data_free(d, n) = D!data_free(d, n)
    BY <1>4 DEF S!data_free, D!data_free
  <1>6. \A r, x, y : S!AddPoint(r, x, y) = D!AddPoint(r, x, y)
    BY DEF S!AddPoint, D!AddPoint, S!Lesser, D!Lesser, S!Greater, D!Greater,
           S!data_append_point, D!data_append_point
  <1>7. \A t, d, n : S!data_analyse(t, d, n) = D!data_analyse(t, d, n)
    BY DEF S!data_analyse, D!data_analyse
  <1>8. QED
    BY <1>1, <1>2, <1>3, <1>4, <1>5, <1>6, <1>7

LEMMA SameLine ==
  ASSUME NEW b, S!Line(b, 1)
  PROVE  D!Line(b, 1)
  <1>1. S!ReadLine(b, 1) => D!ReadLine(b, 1)
    BY DEF S!ReadLine, D!ReadLine
  <1>2. S!TestClient(b) => D!TestClient(b)
    BY DEF S!TestClient, D!TestClient, S!scanVars, D!scanVars
  <1>3. S!TestBegin(b) => D!TestBegin(b)
    BY DEF S!TestBegin, D!TestBegin
  <1>4. S!TestEnded => D!TestEnded
    BY SameRuns DEF S!TestEnded, D!TestEnded
  <1>5. S!TestEndPrints(b) => D!TestEndPrints(b)
    BY <1>4, SameRuns DEF S!TestEndPrints, D!TestEndPrints
  <1>6. S!TestEndExtracts(b) => D!TestEndExtracts(b)
    BY <1>4, SameRuns DEF S!TestEndExtracts, D!TestEndExtracts, S!OutputName, D!OutputName
  <1>7. S!TestEndCannotCreate(b) => D!TestEndCannotCreate(b)
    BY <1>4 DEF S!TestEndCannotCreate, D!TestEndCannotCreate
  <1>8. S!TestEndNoArch(b) => D!TestEndNoArch(b)
    BY DEF S!TestEndNoArch, D!TestEndNoArch, S!scanVars, D!scanVars, S!nameVars, D!nameVars
  <1>9. S!TestRunBegin(b) => D!TestRunBegin(b)
    BY SameRuns DEF S!TestRunBegin, D!TestRunBegin, S!nameVars, D!nameVars
  <1>10. S!TestRunEnd(b) => D!TestRunEnd(b)
    BY SameRuns DEF S!TestRunEnd, D!TestRunEnd, S!nameVars, D!nameVars
  <1>11. S!OtherTag(b) => D!OtherTag(b)
    BY DEF S!OtherTag, D!OtherTag, S!scanVars, D!scanVars, S!nameVars, D!nameVars
  <1>12. S!AtSample = D!AtSample /\ S!sec = D!sec
    BY SameRuns DEF S!AtSample, D!AtSample, S!sec, D!sec
  <1>13. S!SampleSkipped(b) => D!SampleSkipped(b)
    BY <1>12 DEF S!SampleSkipped, D!SampleSkipped, S!scanVars, D!scanVars, S!nameVars, D!nameVars
  <1>14. S!SampleRecorded(b) => D!SampleRecorded(b)
    BY <1>12, SameRuns DEF S!SampleRecorded, D!SampleRecorded, S!nameVars, D!nameVars
  <1>15. S!SampleOutOfBounds(b) => D!SampleOutOfBounds(b)
    BY <1>12 DEF S!SampleOutOfBounds, D!SampleOutOfBounds, S!scanVars, D!scanVars,
                 S!nameVars, D!nameVars
  <1>16. S!SampleNoMemory(b) => D!SampleNoMemory(b)
    BY <1>12 DEF S!SampleNoMemory, D!SampleNoMemory, S!nameVars, D!nameVars
  <1>17. QED
    BY <1>1, <1>2, <1>3, <1>5, <1>6, <1>7, <1>8, <1>9, <1>10, <1>11, <1>13, <1>14, <1>15, <1>16
    DEF S!Line, D!Line

LEMMA LogLengths ==
  ASSUME FileInv, D!StatsInv
  PROVE  Len(log) \in Nat /\ Len(logfile) \in Nat
  BY DEF FileInv, D!StatsInv, D!TypeOK

\* statstool is run on a log, and does what Statstool says.
LEMMA ToolStep ==
  ASSUME ScriptsWellFormed, HistoryInv, PathInv, FileInv, D!StatsInv, [PipelineNext]_pipelineVars
  PROVE  [D!Next]_D!vars
  <1>1. CASE Analyse
    <2>1. CASE \E o \in OptionSets : S!Getopt(o)
      BY <2>1 DEF D!Next, S!Getopt, D!Getopt, S!scanVars, D!scanVars, S!nameVars, D!nameVars
    <2>2. CASE S!OpenFile
      BY <2>2, SameRuns DEF D!Next, S!OpenFile, D!OpenFile
    <2>3. CASE Len(log) < Len(logfile) /\ S!Line(BodyOf(logfile[Len(log) + 1]), 1)
      <3>1. PICK b : b = BodyOf(logfile[Len(log) + 1])
        OBVIOUS
      <3>2. D!Line(b, 1)
        BY <2>3, <3>1, SameLine
      <3>3. Len(log) + 1 \in 1..Len(logfile)
        BY <2>3, LogLengths
      <3>4. b \in D!Bodies
        BY <3>1, <3>3, LinesKnown
      <3>5. QED
        BY <3>2, <3>4 DEF D!Next
    <2>4. CASE S!CloseFile
      BY <2>4, SameRuns DEF D!Next, S!CloseFile, D!CloseFile, S!nameVars, D!nameVars
    <2>5. CASE S!Exit
      BY <2>5 DEF D!Next, S!Exit, D!Exit, S!scanVars, D!scanVars, S!nameVars, D!nameVars
    <2>6. QED
      BY <1>1, <2>1, <2>2, <2>3, <2>4, <2>5 DEF Analyse
  <1>2. CASE UNCHANGED toolVars
    BY <1>2 DEF toolVars, D!vars, D!scanVars, D!nameVars
  <1>3. QED
    BY <1>1, <1>2
    DEF PipelineNext, ClientStep, ClientSends, Deliver, Mishap, RelayStep, LogTag, LogSample,
        StopLogging, pipelineVars

\* statstool reads the log from its first line on, once it is complete.
ReadInv ==
  /\ logging => log = <<>>
  /\ Len(log) <= Len(logfile)
  /\ \A i \in 1..Len(log) : log[i].body = BodyOf(logfile[i])

LEMMA ReadStep ==
  ASSUME FileInv, D!StatsInv, ReadInv, [PipelineNext]_pipelineVars
  PROVE  ReadInv'
  <1>1. CASE logging /\ UNCHANGED toolVars
    <2>1. log' = <<>> /\ Len(log') = 0 /\ 1..Len(log') = {}
      BY <1>1 DEF ReadInv, toolVars
    <2>2. logfile' = logfile \/ \E l : logfile' = Append(logfile, l)
      BY <1>1 DEF PipelineNext, ClientStep, ClientSends, Deliver, Mishap, RelayStep, LogTag,
                  LogSample, StopLogging, Analyse, loggerVars, pipelineVars
    <2>3. PICK f : f = logfile'
      OBVIOUS
    <2>4. Len(f) \in Nat
      BY <2>2, <2>3 DEF FileInv
    <2>5. QED
      BY <2>1, <2>3, <2>4 DEF ReadInv
  <1>2. CASE Analyse
    <2>1. UNCHANGED <<logging, logfile, ran>> /\ ~logging
      BY <1>2 DEF Analyse, loggerVars, historyVars
    <2>2. \A l : BodyOf(l)' = BodyOf(l)
      BY <2>1 DEF BodyOf, Tag
    <2>3. CASE log' = log
      BY <2>1, <2>2, <2>3 DEF ReadInv
    <2>4. CASE log' = <<>>
      <3>1. Len(log') = 0 /\ 1..Len(log') = {}
        BY <2>4
      <3>2. QED
        BY <2>1, <3>1, LogLengths DEF ReadInv
    <2>5. CASE Len(log) < Len(logfile) /\ S!Line(BodyOf(logfile[Len(log) + 1]), 1)
      <3>1. PICK n \in Nat, k \in Nat : n = Len(log) /\ k = n + 1
        BY LogLengths
      <3>2. PICK b, l, g : b = BodyOf(logfile[k]) /\ l = [stamp |-> stamp', body |-> b] /\ g = log'
        OBVIOUS
      <3>3. g = Append(log, l) /\ l.body = b
        BY <2>5, <3>1, <3>2 DEF S!Line, S!ReadLine
      <3>4. log \in Seq([stamp : Nat, body : D!Body])
        BY DEF D!StatsInv, D!TypeOK
      <3>5. Len(g) = k /\ g[k] = l /\ \A i \in 1..n : g[i] = log[i]
        BY <3>1, <3>3, <3>4
      <3>6. ASSUME NEW i \in 1..k
            PROVE  g[i].body = BodyOf(logfile[i])
        <4>1. i \in 1..n \/ i = k
          BY <3>1
        <4>2. QED
          BY <3>1, <3>2, <3>3, <3>5, <4>1 DEF ReadInv
      <3>7. PICK f : f = logfile'
        OBVIOUS
      <3>8. f = logfile /\ k <= Len(f)
        BY <2>1, <2>5, <3>1, <3>7, LogLengths
      <3>9. ASSUME NEW i \in 1..k
            PROVE  BodyOf(f[i])' = BodyOf(f[i])
        BY <2>1 DEF BodyOf, Tag
      <3>10. QED
        BY <2>1, <2>2, <3>2, <3>5, <3>6, <3>7, <3>8, <3>9 DEF ReadInv
    <2>6. QED
      BY <1>2, <2>3, <2>4, <2>5 DEF Analyse, S!Getopt, S!OpenFile, S!CloseFile, S!Exit
  <1>3. CASE UNCHANGED pipelineVars
    <2>1. UNCHANGED <<logging, logfile, ran, log>>
      BY <1>3 DEF pipelineVars, loggerVars, historyVars, toolVars
    <2>2. \A l : BodyOf(l)' = BodyOf(l)
      BY <2>1 DEF BodyOf, Tag
    <2>3. QED
      BY <2>1, <2>2 DEF ReadInv
  <1>4. QED
    BY <1>1, <1>2, <1>3
    DEF PipelineNext, ClientStep, ClientSends, Deliver, Mishap, RelayStep, LogTag, LogSample,
        StopLogging

\* Everything that is known of the pipeline's state.
PipelineInv == HistoryInv /\ PathInv /\ FileInv /\ D!StatsInv /\ ReadInv

LEMMA ToolInit ==
  ASSUME ScriptsWellFormed, PipelineInit
  PROVE  D!Init /\ ReadInv
  <1>1. /\ files = 1 /\ S!Init /\ logfile = <<>>
    BY DEF PipelineInit
  <1>2. D!Init
    BY <1>1, SameRuns DEF S!Init, D!Init, S!NoClient, D!NoClient, S!NoName, D!NoName
  <1>3. log = <<>>
    BY <1>1 DEF S!Init
  <1>4. QED
    BY <1>1, <1>2, <1>3 DEF ReadInv

LEMMA PipelineKept ==
  ASSUME ScriptsWellFormed
  PROVE  PipelineSpec => []PipelineInv
  <1>1. PipelineInv /\ [PipelineNext]_pipelineVars => PipelineInv'
    <2> SUFFICES ASSUME PipelineInv, [PipelineNext]_pipelineVars
                 PROVE  PipelineInv'
      OBVIOUS
    <2>1. HistoryInv' /\ PathInv' /\ FileInv'
      BY HistoryStep, PathStep, FileStep DEF PipelineInv
    <2>2. D!StatsInv'
      BY ToolStep, ToolConstants, D!StatsStep DEF PipelineInv
    <2>3. ReadInv'
      BY ReadStep DEF PipelineInv
    <2>4. QED
      BY <2>1, <2>2, <2>3 DEF PipelineInv
  <1>2. PipelineInit => PipelineInv
    BY HistoryInit, PathInit, ToolInit, ToolConstants, D!StatsInit DEF PipelineInv
  <1>3. QED
    BY <1>1, <1>2, PTL DEF PipelineSpec

\* The statstool of the pipeline is statstool, run on whatever log the tags left.
THEOREM PipelineRunsTool ==
  ASSUME ScriptsWellFormed
  PROVE  PipelineSpec => D!Spec
  <1>1. PipelineInit => D!Init
    BY ToolInit
  <1>2. PipelineInv /\ [PipelineNext]_pipelineVars => [D!Next]_D!vars
    BY ToolStep DEF PipelineInv
  <1>3. QED
    BY <1>1, <1>2, PipelineKept, PTL DEF PipelineSpec, D!Spec

-----------------------------------------------------------------------------
(* Losing tags is harmless *)

\* The places of datagrams among those sent.
LEMMA PlaceOrder ==
  ASSUME HistoryInv, NEW j \in 1..Len(sent), NEW k \in 1..Len(sent)
  PROVE  /\ Before(sent[j], sent[k]) <=> j < k
         /\ sent[j] = sent[k] => j = k
  <1>1. Len(sent) \in Nat /\ sent[j] \in Nat \X Nat /\ sent[k] \in Nat \X Nat
    <2>1. sent \in Seq(Nat \X Nat)
      BY DEF HistoryInv, SentTyped
    <2>2. QED
      BY <2>1
  <1>2. ~(Before(sent[j], sent[k]) /\ Before(sent[k], sent[j])) /\ ~Before(sent[j], sent[j])
    <2>1. PICK a \in Nat \X Nat, b \in Nat \X Nat : a = sent[j] /\ b = sent[k]
      BY <1>1
    <2>2. a[1] \in Nat /\ a[2] \in Nat /\ b[1] \in Nat /\ b[2] \in Nat
      OBVIOUS
    <2>3. ~(Before(a, b) /\ Before(b, a)) /\ ~Before(a, a)
      BY <2>2 DEF Before
    <2>4. QED
      BY <2>1, <2>3
  <1>3. (j < k => Before(sent[j], sent[k])) /\ (k < j => Before(sent[k], sent[j]))
    BY DEF HistoryInv, SentInOrder
  <1>4. j < k \/ j = k \/ k < j
    BY <1>1
  <1>5. QED
    BY <1>2, <1>3, <1>4

\* Neighbours among the tags taken, and any two of them, were sent in that order.
NextInOrder ==
  \A i \in 1..(taken - 1) : \A k, m \in 1..Len(sent) :
    (sent[k] = tx[i] /\ sent[m] = tx[i + 1]) => k < m
AllInOrder ==
  \A i, j \in 1..taken : i < j =>
    \A k, m \in 1..Len(sent) : (sent[k] = tx[i] /\ sent[m] = tx[j]) => k < m

OrderInv == NextInOrder => AllInOrder

LEMMA OrderKept ==
  ASSUME HistoryInv, HistoryInv', PathInv, OrderInv, taken' = taken,
         \A t \in 1..taken : tx'[t] = tx[t], sent' = sent \/ \E d : sent' = Append(sent, d)
  PROVE  OrderInv'
  <1> SUFFICES ASSUME NextInOrder' PROVE AllInOrder'
    BY DEF OrderInv
  <1>1. PICK c \in Nat, n \in Nat : c = taken /\ n = Len(sent)
    <2>1. taken \in Nat /\ Len(sent) \in Nat
      BY DEF PathInv, HistoryInv, SentTyped
    <2>2. QED
      BY <2>1
  <1>2. PICK s, x : s = sent' /\ x = tx'
    OBVIOUS
  <1>3. /\ Len(s) \in Nat /\ n <= Len(s) /\ \A k \in 1..n : k \in 1..Len(s) /\ s[k] = sent[k]
    <2>1. sent \in Seq(Nat \X Nat) /\ s \in Seq(Nat \X Nat)
      BY <1>2 DEF HistoryInv, SentTyped
    <2>2. ASSUME NEW d, s = Append(sent, d)
          PROVE  /\ n <= Len(s) /\ \A k \in 1..n : k \in 1..Len(s) /\ s[k] = sent[k]
      BY <1>1, <2>1, <2>2
    <2>3. CASE s = sent
      BY <1>1, <2>1, <2>3
    <2>4. QED
      BY <1>2, <2>1, <2>2, <2>3
  <1>4. \A k, m \in 1..Len(s) : s[k] = s[m] => k = m
    <2>1. \A k, m \in 1..Len(sent) : sent[k] = sent[m] => k = m
      BY PlaceOrder
    <2>2. (\A k, m \in 1..Len(sent) : sent[k] = sent[m] => k = m)'
      <3>1. \A j, k \in 1..Len(s) : j < k => Before(s[j], s[k])
        BY <1>2 DEF HistoryInv, SentInOrder, Before
      <3>2. \A j \in 1..Len(s) : ~Before(s[j], s[j])
        BY <1>2 DEF HistoryInv, SentTyped, Before
      <3>3. \A k, m \in 1..Len(s) : k < m \/ k = m \/ m < k
        OBVIOUS
      <3>4. \A k, m \in 1..Len(s) : s[k] = s[m] => k = m
        BY <3>1, <3>2, <3>3
      <3>5. QED
        BY <1>2, <3>4
    <2>3. QED
      BY <1>2, <2>2
  <1>5. \A t \in 1..c : x[t] = tx[t] /\ \E k \in 1..n : tx[t] = sent[k]
    BY <1>1, <1>2, TakenSent
  <1>6. ASSUME NEW t \in 1..c, NEW k \in 1..Len(s), s[k] = x[t]
        PROVE  k \in 1..n /\ sent[k] = tx[t]
    <2>1. PICK m \in 1..n : tx[t] = sent[m]
      BY <1>5
    <2>2. s[m] = s[k] /\ m \in 1..Len(s)
      BY <1>3, <1>5, <1>6, <2>1
    <2>3. QED
      BY <1>4, <2>1, <2>2
  <1>7. NextInOrder
    <2> SUFFICES ASSUME NEW i \in 1..(c - 1), NEW k \in 1..n, NEW m \in 1..n,
                        sent[k] = tx[i], sent[m] = tx[i + 1]
                 PROVE  k < m
      BY <1>1 DEF NextInOrder
    <2>1. i \in 1..c /\ i + 1 \in 1..c
      BY <1>1
    <2>2. s[k] = x[i] /\ s[m] = x[i + 1] /\ k \in 1..Len(s) /\ m \in 1..Len(s)
      BY <1>3, <1>5, <2>1
    <2>3. QED
      BY <1>1, <1>2, <2>2 DEF NextInOrder
  <1>8. AllInOrder
    BY <1>7 DEF OrderInv
  <1>9. ASSUME NEW i \in 1..c, NEW j \in 1..c, i < j, NEW k \in 1..Len(s), NEW m \in 1..Len(s),
               s[k] = x[i], s[m] = x[j]
        PROVE  k < m
    BY <1>1, <1>6, <1>8, <1>9 DEF AllInOrder
  <1>10. QED
    BY <1>1, <1>2, <1>9 DEF AllInOrder

LEMMA OrderTaken ==
  ASSUME HistoryInv, PathInv, OrderInv, taken' = taken + 1, tx' = tx, sent' = sent,
         taken < Len(tx)
  PROVE  OrderInv'
  <1> SUFFICES ASSUME NextInOrder' PROVE AllInOrder'
    BY DEF OrderInv
  <1>1. PICK c \in Nat : c = taken
    BY DEF PathInv
  <1>2. ASSUME NEW i \in 1..c, NEW k \in 1..Len(sent), NEW m \in 1..Len(sent),
               sent[k] = tx[i], sent[m] = tx[i + 1]
        PROVE  k < m
    BY <1>1, <1>2 DEF NextInOrder
  <1>3. NextInOrder
    BY <1>1, <1>2 DEF NextInOrder
  <1>4. AllInOrder
    BY <1>3 DEF OrderInv
  <1>5. ASSUME NEW i \in 1..(c + 1), NEW j \in 1..(c + 1), i < j,
               NEW k \in 1..Len(sent), NEW m \in 1..Len(sent), sent[k] = tx[i], sent[m] = tx[j]
        PROVE  k < m
    <2>1. i \in 1..c
      BY <1>5
    <2>2. CASE j \in 1..c
      BY <1>1, <1>4, <1>5, <2>1, <2>2 DEF AllInOrder
    <2>3. CASE j = c + 1 /\ i = c
      BY <1>2, <1>5, <2>1, <2>3
    <2>4. CASE j = c + 1 /\ i < c
      <3>1. c \in 1..c
        BY <2>1
      <3>2. PICK p \in 1..Len(sent) : tx[c] = sent[p]
        BY <1>1, <3>1, TakenSent
      <3>3. k < p
        BY <1>1, <1>4, <1>5, <2>1, <2>4, <3>1, <3>2 DEF AllInOrder
      <3>4. p < m
        BY <1>2, <1>5, <2>4, <3>1, <3>2
      <3>5. QED
        BY <3>3, <3>4
    <2>5. QED
      BY <1>5, <2>1, <2>2, <2>3, <2>4
  <1>6. QED
    BY <1>1, <1>5 DEF AllInOrder

LEMMA OrderStep ==
  ASSUME HistoryInv, HistoryInv', PathInv, OrderInv, [PipelineNext]_pipelineVars
  PROVE  OrderInv'
  <1>1. CASE LogTag
    BY <1>1, OrderTaken DEF LogTag, historyVars, relayVars
  <1>2. CASE ~LogTag
    <2>1. taken' = taken
      BY <1>2 DEF PipelineNext, ClientStep, ClientSends, Deliver, Mishap, RelayStep, LogSample,
                  StopLogging, Analyse, loggerVars, pipelineVars
    <2>2. sent' = sent \/ \E d : sent' = Append(sent, d)
      BY <1>2 DEF PipelineNext, ClientStep, ClientSends, Deliver, Mishap, RelayStep, LogSample,
                  StopLogging, Analyse, historyVars, pipelineVars
    <2>3. QED
      BY <2>1, <2>2, OrderKept, TakenKept
  <1>3. QED
    BY <1>1, <1>2

LEMMA OrderOf ==
  ASSUME HistoryInv, PathInv, OrderInv, InSentOrder
  PROVE  AllInOrder
  <1> DEFINE place(d) == CHOOSE i \in 1..Len(sent) : sent[i] = d
  <1>1. \A k \in 1..Len(sent) : place(sent[k]) = k
    <2> SUFFICES ASSUME NEW k \in 1..Len(sent) PROVE place(sent[k]) = k
      OBVIOUS
    <2>1. place(sent[k]) \in 1..Len(sent) /\ sent[place(sent[k])] = sent[k]
      OBVIOUS
    <2>2. QED
      BY <2>1, PlaceOrder
  <1>2. \A i \in 1..(taken - 1) : place(tx[i]) < place(tx[i + 1])
    BY DEF InSentOrder
  <1> HIDE DEF place
  <1>3. NextInOrder
    BY <1>1, <1>2 DEF NextInOrder
  <1>4. QED
    BY <1>3 DEF OrderInv

\* A step that is a tag, up to where its session is, was sent.
LEMMA StepSent ==
  ASSUME ScriptsWellFormed, HistoryInv, NEW s \in 1..sessions, NEW m \in Nat, SentUpTo(s, m),
         NEW p, p = ProgramOf(s), NEW j \in 1..Len(p), p[j].tag \in SentTags, j <= m
  PROVE  \E r \in 1..Len(sent) :
           sent[r][1] = s /\ sent[r][2] = j /\ SentTag(r) = p[j].tag
  <1>1. ran[s] \in Scripts
    BY DEF HistoryInv, RanTracked
  <1>2. WellFormed(p)
    BY <1>1 DEF ScriptsWellFormed, ProgramOf
  <1>3. p[j].op = "send"
    BY <1>2 DEF WellFormed, SentTags
  <1>4. PICK r \in 1..Len(sent) : sent[r] = <<s, j>>
    BY <1>3 DEF SentUpTo
  <1>5. PICK x : x = <<s, j>>
    OBVIOUS
  <1>6. x[1] = s /\ x[2] = j /\ Tag(x) = p[j]
    BY <1>5 DEF Tag, ProgramOf
  <1>7. QED
    BY <1>4, <1>5, <1>6 DEF SentTag

\* What a session sent is no later than where it is.
LEMMA SentStep ==
  ASSUME HistoryInv, NEW s, NEW m \in Nat, SentUpTo(s, m),
         NEW r \in 1..Len(sent), NEW j, sent[r] = <<s, j>>
  PROVE  j <= m
  <1>0. PICK x : x = <<s, j>>
    BY ZenonT(10)
  <1>1. x = <<s, j>> /\ x[1] = s /\ x[2] = j
    BY <1>0
  <1>2. j \in 1..Len(ProgramOf(s)) /\ Tag(x).op = "send"
    <2>1. SentTyped
      BY DEF HistoryInv
    <2>2. sent[r][2] \in 1..Len(ProgramOf(sent[r][1])) /\ Tag(sent[r]).op = "send"
      BY <2>1 DEF SentTyped
    <2>3. QED
      BY <1>1, <2>2
  <1>3. ProgramOf(s)[j].op = "send"
    BY <1>1, <1>2 DEF Tag, ProgramOf
  <1>4. \E k \in 1..Len(sent) : sent[k] = <<s, j>>
    OBVIOUS
  <1>5. j <= m <=> \E k \in 1..Len(sent) : sent[k] = <<s, j>>
    BY <1>2, <1>3 DEF SentUpTo
  <1>6. QED
    BY <1>4, <1>5

\* A step that is a tag, later in the text of a session than a tag that was sent, was
\* sent between that tag and a later one which it does not come after in the text, if
\* no script was interrupted.
LEMMA StepBetween ==
  ASSUME ScriptsWellFormed, HistoryInv, interrupts = 0,
         NEW b \in 1..Len(sent), NEW e \in 1..Len(sent), b < e,
         NEW s, s = sent[b][1], NEW i, i = sent[b][2], NEW p, p = ProgramOf(s),
         NEW j \in 1..Len(p), i < j, p[j].tag \in SentTags,
         sent[e][1] = s => j < sent[e][2]
  PROVE  \E r \in 1..Len(sent) : b < r /\ r < e /\ SentTag(r) = p[j].tag
  <1>1. PICK c \in Nat \X Nat, d \in Nat \X Nat : c = sent[b] /\ d = sent[e]
    BY TagKnown
  <1>2. /\ s \in 1..sessions /\ i \in 1..Len(p)
        /\ d[1] \in 1..sessions /\ d[2] \in 1..Len(ProgramOf(d[1]))
        /\ sessions \in Nat
    BY <1>1, TagKnown
  <1>3. Before(c, d) /\ c[1] = s /\ c[2] = i
    BY <1>1, PlaceOrder
  <1>4. PICK m \in Nat : /\ SentUpTo(s, m)
                         /\ s < sessions => m = 0 \/ m = Len(p)
    BY <1>2 DEF HistoryInv, SentTracked
  <1>5. i <= m
    <2>1. sent[b] = <<s, i>>
      BY <1>1, <1>3
    <2>2. QED
      BY <1>4, <2>1, SentStep
  <1>6. j <= m
    <2>1. CASE d[1] = s
      <3>1. sent[e] = <<s, d[2]>>
        BY <1>1, <2>1
      <3>2. d[2] <= m
        BY <1>4, <3>1, SentStep
      <3>3. QED
        BY <1>1, <1>2, <2>1, <3>2
    <2>2. CASE d[1] # s
      <3>1. s < sessions
        BY <1>2, <1>3, <2>2 DEF Before
      <3>2. m = Len(p)
        <4>1. m = 0 \/ m = Len(p)
          BY <1>4, <3>1
        <4>2. i \in Int /\ 1 <= i
          BY <1>2
        <4>3. m # 0
          BY ONLY <1>5, <4>2
        <4>4. QED
          BY <4>1, <4>3
      <3>3. QED
        BY <3>2
    <2>3. QED
      BY <2>1, <2>2
  <1>7. PICK r \in 1..Len(sent) :
           sent[r][1] = s /\ sent[r][2] = j /\ SentTag(r) = p[j].tag
    <2>1. PICK n \in 1..Len(p), u \in 1..sessions :
            /\ n = j /\ n <= m /\ p[n].tag \in SentTags
            /\ u = s /\ SentUpTo(u, m) /\ p = ProgramOf(u)
      BY <1>2, <1>4, <1>6
    <2>2. \E r \in 1..Len(sent) : sent[r][1] = u /\ sent[r][2] = n /\ SentTag(r) = p[n].tag
      BY ONLY ScriptsWellFormed, HistoryInv, <2>1, StepSent
    <2>3. QED
      BY <2>1, <2>2
  <1>8. PICK x : x = sent[r]
    OBVIOUS
  <1>9. x[1] = s /\ x[2] = j
    BY <1>7, <1>8
  <1>10. Before(c, x)
    BY <1>3, <1>9 DEF Before
  <1>11. Before(x, d)
    BY <1>1, <1>3, <1>9 DEF Before
  <1>12. QED
    BY <1>1, <1>7, <1>8, <1>10, <1>11, PlaceOrder

\* Between a TEST_RUN_BEGIN and a later TEST_END a TEST_RUN_END was sent, if no script
\* was interrupted.
LEMMA RunEndSent ==
  ASSUME ScriptsWellFormed, ScriptsEndRuns, HistoryInv, interrupts = 0,
         NEW b \in 1..Len(sent), NEW e \in 1..Len(sent), b < e,
         SentTag(b) = "TEST_RUN_BEGIN", SentTag(e) = "TEST_END"
  PROVE  \E r \in 1..Len(sent) : b < r /\ r < e /\ SentTag(r) = "TEST_RUN_END"
  <1>1. PICK s, i, p : s = sent[b][1] /\ i = sent[b][2] /\ p = ProgramOf(s)
    OBVIOUS
  <1>2. /\ EndsItsRuns(p) /\ i \in 1..Len(p) /\ p[i].tag = "TEST_RUN_BEGIN"
    BY <1>1, TagKnown DEF ScriptsEndRuns, ProgramOf, SentTag
  <1>3. PICK j \in i..Len(p) : p[j].tag = "TEST_RUN_END" /\ \A k \in i..j : p[k].tag # "TEST_END"
    BY <1>2 DEF EndsItsRuns
  <1>4. j \in 1..Len(p) /\ i < j
    BY <1>2, <1>3
  <1>5. ASSUME sent[e][1] = s PROVE j < sent[e][2]
    <2>1. PICK c \in Nat \X Nat, d \in Nat \X Nat : c = sent[b] /\ d = sent[e]
      BY TagKnown
    <2>2. Before(c, d) /\ c[1] = s /\ c[2] = i /\ d[1] = s
      BY <1>1, <1>5, <2>1, PlaceOrder
    <2>3. p[d[2]].tag = "TEST_END" /\ d[2] \in Nat
      BY <1>1, <1>5, <2>1, TagKnown DEF SentTag
    <2>4. i < d[2] /\ ~(d[2] \in i..j)
      BY <1>3, <2>2, <2>3 DEF Before
    <2>5. QED
      BY <1>2, <1>4, <2>1, <2>3, <2>4
  <1>6. p[j].tag \in SentTags
    BY <1>3 DEF SentTags
  <1>7. \E r \in 1..Len(sent) : b < r /\ r < e /\ SentTag(r) = p[j].tag
    BY <1>1, <1>4, <1>5, <1>6, StepBetween
  <1>8. QED
    BY <1>3, <1>7

\* Before a TEST_END the client was named.
LEMMA ClientSent ==
  ASSUME ScriptsWellFormed, ScriptsNameClient, HistoryInv,
         NEW e \in 1..Len(sent), SentTag(e) = "TEST_END"
  PROVE  \E c \in 1..Len(sent) : c < e /\ SentTag(c) = "TEST_CLIENT"
  <1>1. PICK d \in Nat \X Nat : d = sent[e]
    BY TagKnown
  <1>2. /\ d[1] \in 1..sessions /\ d[2] \in 1..Len(ProgramOf(d[1]))
        /\ ProgramOf(d[1])[d[2]].tag = "TEST_END" /\ ran[d[1]] \in Scripts
    BY <1>1, TagKnown DEF SentTag
  <1>3. PICK s \in 1..sessions, i \in Nat : s = d[1] /\ i = d[2]
    BY <1>2
  <1>4. PICK p : p = ProgramOf(s) /\ NamesItsClient(p) /\ WellFormed(p)
    BY <1>2, <1>3 DEF ScriptsNameClient, ScriptsWellFormed, ProgramOf
  <1>5. i \in 1..Len(p) /\ p[i].tag = "TEST_END"
    BY <1>2, <1>3, <1>4
  <1>6. PICK j \in 1..i : p[j].tag = "TEST_CLIENT"
    BY <1>4, <1>5 DEF NamesItsClient
  <1>7. j \in 1..Len(p) /\ j < i
    BY <1>5, <1>6
  <1>9. PICK m \in Nat : SentUpTo(s, m)
    BY DEF HistoryInv, SentTracked
  <1>10. i <= m
    <2>1. sent[e] = <<s, i>>
      BY <1>1, <1>3
    <2>2. QED
      BY <1>9, <2>1, SentStep
  <1>11. PICK r \in 1..Len(sent) :
           sent[r][1] = s /\ sent[r][2] = j /\ SentTag(r) = "TEST_CLIENT"
    <2>1. PICK n \in 1..Len(p) : n = j /\ n <= m
      BY <1>7, <1>10
    <2>2. p = ProgramOf(s) /\ p[n].tag = "TEST_CLIENT" /\ p[n].tag \in SentTags
      BY <1>4, <1>6, <2>1 DEF SentTags
    <2>3. \E r \in 1..Len(sent) : sent[r][1] = s /\ sent[r][2] = n /\ SentTag(r) = p[n].tag
      BY <1>9, <2>1, <2>2, StepSent
    <2>4. QED
      BY <2>1, <2>2, <2>3
  <1>12. PICK x : x = sent[r]
    OBVIOUS
  <1>13. SentTag(r) = "TEST_CLIENT" /\ x[1] = s /\ x[2] = j
    BY <1>11, <1>12
  <1>14. Before(x, d)
    BY <1>3, <1>7, <1>13 DEF Before
  <1>15. QED
    BY <1>1, <1>11, <1>12, <1>13, <1>14, PlaceOrder

\* What statstool has read of the tags.
LEMMA TagRead ==
  ASSUME PipelineInv, NEW pos, Placed(pos), NEW t \in 1..taken, pos[t] <= Len(log)
  PROVE  /\ pos[t] \in 1..Len(log)
         /\ log[pos[t]].body = BodyOf(logfile[pos[t]])
         /\ log[pos[t]].body.tag = Tag(tx[t]).tag
  <1>1. PICK i \in 1..Len(logfile) : i = pos[t]
    BY DEF Placed
  <1>2. i \in 1..Len(log)
    BY <1>1, LogLengths DEF PipelineInv
  <1>3. logfile[i].sample = 0 /\ logfile[i].datagram = tx[t]
    BY <1>1 DEF Placed
  <1>4. BodyOf(logfile[i]).tag = Tag(tx[t]).tag
    BY <1>3 DEF BodyOf
  <1>5. QED
    BY <1>1, <1>2, <1>4 DEF PipelineInv, ReadInv

LEMMA ReadTag ==
  ASSUME PipelineInv, NEW pos, Placed(pos), NEW i \in 1..Len(log),
         log[i].body.tag # "SAMPLE"
  PROVE  \E t \in 1..taken : pos[t] = i /\ Tag(tx[t]).tag = log[i].body.tag
  <1>1. i \in 1..Len(logfile)
    BY LogLengths DEF PipelineInv, ReadInv
  <1>2. logfile[i].sample = 0
    <2>1. log[i].body = BodyOf(logfile[i])
      BY DEF PipelineInv, ReadInv
    <2>2. logfile[i].sample \in Nat
      <3>1. logfile[i] \in LogLine
        BY <1>1 DEF PipelineInv, FileInv
      <3>2. QED
        BY <3>1 DEF LogLine
    <2>3. QED
      BY <2>1, <2>2 DEF BodyOf
  <1>3. PICK t \in 1..taken : pos[t] = i
    BY <1>1, <1>2 DEF Placed
  <1>4. QED
    BY <1>3, TagRead, LogLengths DEF PipelineInv

\* What was sent between two tags of the log, and is in the log, stands between them.
LEMMA Between ==
  ASSUME PipelineInv, AllInOrder, NEW pos, Placed(pos), NEW r \in 1..Len(sent),
         sent[r] \in Range(LoggedTags)
  PROVE  \E t \in 1..taken :
           /\ tx[t] = sent[r]
           /\ \A u \in 1..taken : \A k \in 1..Len(sent) : tx[u] = sent[k] =>
                (k < r => pos[u] < pos[t]) /\ (r < k => pos[t] < pos[u])
  <1>1. PICK q : q = LoggedTags
    OBVIOUS
  <1>2. tx \in Seq(Nat \X Nat) /\ taken \in 0..Len(tx)
    BY DEF PipelineInv, PathInv, AllSent
  <1>3. Len(q) = taken /\ DOMAIN q = 1..taken /\ \A t \in 1..taken : q[t] = tx[t]
    BY <1>1, <1>2 DEF LoggedTags
  <1>4. PICK t \in 1..taken : tx[t] = sent[r]
    <2>1. sent[r] \in {q[x] : x \in DOMAIN q}
      BY <1>1 DEF Range
    <2>2. QED
      BY <1>3, <2>1
  <1>5. ASSUME NEW u \in 1..taken, NEW k \in 1..Len(sent), tx[u] = sent[k]
        PROVE  (k < r => pos[u] < pos[t]) /\ (r < k => pos[t] < pos[u])
    <2>1. k < r => ~(t < u) /\ t # u
      BY <1>4, <1>5, PlaceOrder DEF AllInOrder, PipelineInv
    <2>2. r < k => ~(u < t) /\ t # u
      BY <1>4, <1>5, PlaceOrder DEF AllInOrder, PipelineInv
    <2>3. t < u \/ t = u \/ u < t
      BY <1>2
    <2>4. QED
      BY <2>1, <2>2, <2>3 DEF Placed
  <1>6. QED
    BY <1>4, <1>5

\* A log in order, of scripts that were not interrupted, that lacks no tag statstool
\* needs, is bracketed.
LEMMA LossesBracketed ==
  ASSUME ScriptsWellFormed, ScriptsEndRuns, ScriptsNameClient, PipelineInv, OrderInv,
         interrupts = 0, InSentOrder,
         \A i \in 1..Len(sent) : SentTag(i) \in Vital =>
            \/ sent[i] \in Range(LoggedTags)
            \/ \A j \in (i + 1)..Len(sent) : sent[j] \notin Range(LoggedTags)
  PROVE  D!Bracketed
  <1>1. AllInOrder
    BY OrderOf DEF PipelineInv
  <1>2. PICK pos : Placed(pos)
    BY DEF PipelineInv, FileInv
  <1>3. HistoryInv /\ PathInv /\ Len(sent) \in Nat /\ Len(log) \in Nat
    <2>1. HistoryInv /\ PathInv /\ FileInv /\ D!StatsInv
      BY DEF PipelineInv
    <2>2. sent \in Seq(Nat \X Nat)
      BY <2>1 DEF HistoryInv, SentTyped
    <2>3. QED
      BY <2>1, <2>2, LogLengths
  <1>4. ASSUME NEW t \in 1..taken
        PROVE  tx[t] \in Range(LoggedTags)
    <2>1. PICK q : q = LoggedTags
      OBVIOUS
    <2>2. tx \in Seq(Nat \X Nat) /\ taken \in 0..Len(tx)
      BY <1>3 DEF PathInv, AllSent
    <2>3. q[t] = tx[t] /\ t \in DOMAIN q
      BY <2>1, <2>2 DEF LoggedTags
    <2>4. QED
      BY <2>1, <2>3 DEF Range
  \* A vital tag sent before one that is in the log stands before it in the log.
  <1>5. ASSUME NEW r \in 1..Len(sent), SentTag(r) \in Vital,
               NEW u \in 1..taken, NEW e \in 1..Len(sent), tx[u] = sent[e], r < e,
               pos[u] <= Len(log)
        PROVE  \E t \in 1..taken :
                 /\ pos[t] < pos[u] /\ pos[t] \in 1..Len(log)
                 /\ log[pos[t]].body.tag = SentTag(r)
                 /\ \A v \in 1..taken : \A b \in 1..Len(sent) :
                      (tx[v] = sent[b] /\ b < r) => pos[v] < pos[t]
    <2>1. sent[r] \in Range(LoggedTags)
      <3>1. e \in (r + 1)..Len(sent)
        BY <1>3, <1>5
      <3>2. sent[e] \in Range(LoggedTags)
        BY <1>4, <1>5
      <3>3. QED
        BY <1>5, <3>1, <3>2
    <2>2. PICK t \in 1..taken :
            /\ tx[t] = sent[r]
            /\ \A v \in 1..taken : \A k \in 1..Len(sent) : tx[v] = sent[k] =>
                 (k < r => pos[v] < pos[t]) /\ (r < k => pos[t] < pos[v])
      BY <1>1, <1>2, <2>1, Between
    <2>3. pos[t] < pos[u] /\ pos[t] \in Nat /\ pos[u] \in Nat
      <3>1. pos[t] < pos[u]
        BY <1>5, <2>2
      <3>2. pos[t] \in 1..Len(logfile) /\ pos[u] \in 1..Len(logfile)
        BY <1>2 DEF Placed
      <3>3. QED
        BY <3>1, <3>2
    <2>4. pos[t] <= Len(log)
      BY <1>3, <1>5, <2>3
    <2>5. pos[t] \in 1..Len(log) /\ log[pos[t]].body.tag = SentTag(r)
      BY <1>2, <2>2, <2>4, TagRead DEF SentTag
    <2>6. QED
      BY <2>2, <2>3, <2>5
  <1>6. ASSUME NEW e \in D!At("TEST_END")
        PROVE  /\ ~D!OpenAt(e)
               /\ "x" \in opts => \E c \in D!At("TEST_CLIENT") : c < e
    <2>1. e \in 1..Len(log) /\ log[e].body.tag = "TEST_END"
      BY DEF D!At
    <2>2. PICK u \in 1..taken : pos[u] = e /\ Tag(tx[u]).tag = "TEST_END"
      BY <1>2, <2>1, ReadTag
    <2>3. PICK k \in 1..Len(sent) : tx[u] = sent[k]
      BY <1>3, TakenSent
    <2>4. SentTag(k) = "TEST_END" /\ pos[u] <= Len(log)
      BY <2>1, <2>2, <2>3 DEF SentTag
    <2>5. ASSUME NEW b \in D!At("TEST_RUN_BEGIN"), b < e
          PROVE  \E r \in D!At("TEST_RUN_END") : r < e /\ ~(r < b)
      <3>1. b \in 1..Len(log) /\ log[b].body.tag = "TEST_RUN_BEGIN"
        BY DEF D!At
      <3>2. PICK v \in 1..taken : pos[v] = b /\ Tag(tx[v]).tag = "TEST_RUN_BEGIN"
        BY <1>2, <3>1, ReadTag
      <3>3. PICK n \in 1..Len(sent) : tx[v] = sent[n]
        BY <1>3, TakenSent
      <3>4. SentTag(n) = "TEST_RUN_BEGIN"
        BY <3>2, <3>3 DEF SentTag
      <3>5. n < k
        <4>1. n \in Int /\ k \in Int /\ (n < k \/ n = k \/ k < n)
          OBVIOUS
        <4>2. n # k
          BY <2>4, <3>4
        <4>3. ~(k < n)
          <5>1. u # v /\ taken \in Nat
            BY <2>2, <2>5, <3>2, <1>3 DEF PathInv, AllSent
          <5>2. v < u
            BY <1>2, <2>2, <2>5, <3>2, <5>1 DEF Placed
          <5>3. QED
            BY <1>1, <2>3, <3>3, <5>2, <4>1 DEF AllInOrder
        <4>4. QED
          BY <4>1, <4>2, <4>3
      <3>6. PICK r \in 1..Len(sent) : n < r /\ r < k /\ SentTag(r) = "TEST_RUN_END"
        BY <1>3, <2>4, <3>4, <3>5, RunEndSent
      <3>7. SentTag(r) \in Vital
        BY <3>6 DEF Vital
      <3>8. PICK t \in 1..taken :
              /\ pos[t] < pos[u] /\ pos[t] \in 1..Len(log)
              /\ log[pos[t]].body.tag = SentTag(r)
              /\ \A w \in 1..taken : \A i \in 1..Len(sent) :
                   (tx[w] = sent[i] /\ i < r) => pos[w] < pos[t]
        BY <1>5, <2>3, <2>4, <3>6, <3>7
      <3>9. b < pos[t]
        BY <3>2, <3>3, <3>6, <3>8
      <3>10. pos[t] \in D!At("TEST_RUN_END") /\ pos[t] < e /\ ~(pos[t] < b)
        BY <2>2, <3>1, <3>6, <3>8, <3>9 DEF D!At
      <3>11. QED
        BY <3>10
    <2>6. ~D!OpenAt(e)
      BY <2>5 DEF D!OpenAt
    <2>7. ASSUME "x" \in opts
          PROVE  \E c \in D!At("TEST_CLIENT") : c < e
      <3>1. PICK r \in 1..Len(sent) : r < k /\ SentTag(r) = "TEST_CLIENT"
        BY <1>3, <2>4, ClientSent
      <3>2. SentTag(r) \in Vital
        BY <2>7, <3>1 DEF Vital
      <3>3. PICK t \in 1..taken : /\ pos[t] < pos[u] /\ pos[t] \in 1..Len(log)
                                  /\ log[pos[t]].body.tag = SentTag(r)
        BY <1>5, <2>3, <2>4, <3>1, <3>2
      <3>4. QED
        BY <2>2, <3>1, <3>3 DEF D!At
    <2>8. QED
      BY <2>6, <2>7
  <1>7. QED
    BY <1>6 DEF D!Bracketed

\* As long as no script is interrupted and tags arrive in order, whatever tags are lost,
\* statstool stays within data[] and uses no unset pointer, unless it was a TEST_RUN_END
\* (or, with -x, a TEST_CLIENT) and something sent after it is logged: for any scripts
\* that end their runs and name their client, any network, relay and logger.
THEOREM LossesHarmless ==
  ASSUME ScriptsWellFormed, ScriptsEndRuns, ScriptsNameClient
  PROVE  PipelineSpec => []HarmlessLosses
  <1>1. PipelineInit => OrderInv
    <2> SUFFICES ASSUME PipelineInit PROVE OrderInv
      OBVIOUS
    <2>1. 1..taken = {}
      BY DEF PipelineInit
    <2>2. QED
      BY <2>1 DEF OrderInv, AllInOrder
  <1>2. PipelineInv /\ PipelineInv' /\ OrderInv /\ [PipelineNext]_pipelineVars => OrderInv'
    BY OrderStep DEF PipelineInv
  <1>3. PipelineInv /\ OrderInv /\ D!DefinedOnBracketedLogs => HarmlessLosses
    <2> SUFFICES ASSUME PipelineInv, OrderInv, D!DefinedOnBracketedLogs,
                        "a" \notin opts, pc = "undefined", ~(interrupts > 0), InSentOrder,
                        ~\E i \in 1..Len(sent) :
                           /\ SentTag(i) \in Vital
                           /\ sent[i] \notin Range(LoggedTags)
                           /\ \E j \in (i + 1)..Len(sent) : sent[j] \in Range(LoggedTags)
                 PROVE  FALSE
      BY DEF HarmlessLosses
    <2>1. interrupts = 0
      BY DEF PipelineInv, HistoryInv, ClientTypeOK
    <2>2. D!Bracketed
      BY <2>1, LossesBracketed
    <2>3. QED
      BY <2>2 DEF D!DefinedOnBracketedLogs
  <1>4. D!Spec => []D!DefinedOnBracketedLogs
    BY ToolConstants, D!StatsDefined
  <1>5. QED
    BY <1>1, <1>2, <1>3, <1>4, PipelineKept, PipelineRunsTool, PTL DEF PipelineSpec

-----------------------------------------------------------------------------
(* Tests are reported as they were run *)

\* Between two TEST_BEGINs a TEST_END was sent, if no script was interrupted.
LEMMA TestEndSent ==
  ASSUME ScriptsWellFormed, ScriptsBracketTests, HistoryInv, interrupts = 0,
         NEW b \in 1..Len(sent), NEW e \in 1..Len(sent), b < e,
         SentTag(b) = "TEST_BEGIN", SentTag(e) = "TEST_BEGIN"
  PROVE  \E r \in 1..Len(sent) : b < r /\ r < e /\ SentTag(r) = "TEST_END"
  <1>1. PICK s, i, p : s = sent[b][1] /\ i = sent[b][2] /\ p = ProgramOf(s)
    OBVIOUS
  <1>2. /\ BracketsItsTests(p) /\ i \in 1..Len(p) /\ p[i].tag = "TEST_BEGIN"
    BY <1>1, TagKnown DEF ScriptsBracketTests, ProgramOf, SentTag
  <1>3. PICK j \in (i + 1)..Len(p) :
          p[j].tag = "TEST_END" /\ \A k \in (i + 1)..j : p[k].tag # "TEST_BEGIN"
    BY <1>2 DEF BracketsItsTests
  <1>4. j \in 1..Len(p) /\ i < j
    BY <1>2, <1>3
  <1>5. ASSUME sent[e][1] = s PROVE j < sent[e][2]
    <2>1. PICK c \in Nat \X Nat, d \in Nat \X Nat : c = sent[b] /\ d = sent[e]
      BY TagKnown
    <2>2. Before(c, d) /\ c[1] = s /\ c[2] = i /\ d[1] = s
      BY <1>1, <1>5, <2>1, PlaceOrder
    <2>3. p[d[2]].tag = "TEST_BEGIN" /\ d[2] \in Nat
      BY <1>1, <1>5, <2>1, TagKnown DEF SentTag
    <2>4. i < d[2] /\ ~(d[2] \in (i + 1)..j)
      BY <1>3, <2>2, <2>3 DEF Before
    <2>5. QED
      BY <1>2, <1>4, <2>1, <2>3, <2>4
  <1>6. p[j].tag \in SentTags
    BY <1>3 DEF SentTags
  <1>7. \E r \in 1..Len(sent) : b < r /\ r < e /\ SentTag(r) = p[j].tag
    BY <1>1, <1>4, <1>5, <1>6, StepBetween
  <1>8. QED
    BY <1>3, <1>7

\* A run and the end of a test were sent within a test.
LEMMA TestBeginSent ==
  ASSUME ScriptsWellFormed, ScriptsBracketTests, HistoryInv,
         NEW e \in 1..Len(sent), SentTag(e) \in {"TEST_RUN_BEGIN", "TEST_END"}
  PROVE  \E b \in 1..Len(sent) :
           /\ b < e /\ SentTag(b) = "TEST_BEGIN"
           /\ \A j \in b..(e - 1) : SentTag(j) # "TEST_END"
  <1>1. PICK d \in Nat \X Nat : d = sent[e]
    BY TagKnown
  <1>2. PICK s, i, p : s = d[1] /\ i = d[2] /\ p = ProgramOf(s)
    OBVIOUS
  <1>3. /\ BracketsItsTests(p) /\ i \in 1..Len(p) /\ s \in 1..sessions
        /\ p[i].tag \in {"TEST_RUN_BEGIN", "TEST_END"}
    BY <1>1, <1>2, TagKnown DEF ScriptsBracketTests, ProgramOf, SentTag
  <1>4. PICK h \in 1..(i - 1) :
          p[h].tag = "TEST_BEGIN" /\ \A j \in h..(i - 1) : p[j].tag # "TEST_END"
    BY <1>3 DEF BracketsItsTests
  <1>5. h \in 1..Len(p) /\ h < i
    BY <1>3, <1>4
  <1>6. PICK m \in Nat : SentUpTo(s, m)
    BY <1>3 DEF HistoryInv, SentTracked
  <1>7. h <= m
    <2>1. sent[e] = <<s, i>>
      BY <1>1, <1>2
    <2>2. i <= m
      BY <1>6, <2>1, SentStep
    <2>3. QED
      BY <1>3, <1>5, <2>2
  <1>8. PICK b \in 1..Len(sent) :
          sent[b][1] = s /\ sent[b][2] = h /\ SentTag(b) = p[h].tag
    <2>1. p[h].tag \in SentTags
      BY <1>4 DEF SentTags
    <2>2. QED
      BY <1>2, <1>3, <1>5, <1>6, <1>7, <2>1, StepSent
  <1>9. PICK x : x = sent[b] /\ x[1] = s /\ x[2] = h
    BY <1>8
  <1>10. Before(x, d)
    BY <1>2, <1>5, <1>9 DEF Before
  <1>11. b < e
    BY <1>1, <1>9, <1>10, PlaceOrder
  <1>12. ASSUME NEW j \in b..(e - 1) PROVE SentTag(j) # "TEST_END"
    <2>1. j \in 1..Len(sent) /\ j < e /\ (j = b \/ b < j)
      <3>1. Len(sent) \in Nat
        BY DEF HistoryInv, SentTyped
      <3>2. QED
        BY <3>1
    <2>2. PICK y \in Nat \X Nat : y = sent[j]
      BY <2>1, TagKnown
    <2>3. Before(y, d) /\ (y = x \/ Before(x, y))
      BY <1>1, <1>9, <2>1, <2>2, PlaceOrder
    <2>4. x \in Nat \X Nat
      BY <1>9, TagKnown
    <2>5. y[1] = s
      <3>1. y[1] \in Nat /\ x[1] \in Nat /\ d[1] \in Nat
        BY <2>4
      <3>2. x[1] = s /\ d[1] = s
        BY <1>2, <1>9
      <3>3. y = x \/ x[1] <= y[1]
        BY <2>3, <3>1 DEF Before
      <3>4. y[1] <= d[1]
        BY <2>3, <3>1 DEF Before
      <3>5. QED
        BY ONLY <3>1, <3>2, <3>3, <3>4
    <2>6. y[2] \in h..(i - 1)
      <3>1. y[2] \in Nat /\ h \in Nat /\ i \in Nat
        BY <1>3, <1>5
      <3>2. y[2] < i
        BY <1>2, <2>3, <2>5 DEF Before
      <3>3. y[2] = h \/ h < y[2]
        BY <1>9, <2>3, <2>5 DEF Before
      <3>4. QED
        BY ONLY <3>1, <3>2, <3>3
    <2>7. SentTag(j) = p[y[2]].tag
      BY <1>2, <2>1, <2>2, <2>5, TagKnown DEF SentTag
    <2>8. QED
      BY <1>4, <2>6, <2>7
  <1>13. QED
    BY <1>4, <1>8, <1>11, <1>12

-----------------------------------------------------------------------------
(* The section of the log of the test that was just reported *)

LEMMA MaxIs ==
  ASSUME NEW Z \in SUBSET Int, NEW m \in Z, \A j \in Z : j <= m
  PROVE  Max(Z) = m
  <1>1. m \in Z /\ \A j \in Z : m >= j
    OBVIOUS
  <1>2. Max(Z) \in Z /\ \A j \in Z : Max(Z) >= j
    BY <1>1 DEF Max
  <1>3. PICK x \in Z : x = Max(Z)
    BY <1>2
  <1>4. x \in Int /\ m \in Int /\ m <= x /\ x <= m
    BY <1>2, <1>3
  <1>5. QED
    BY <1>3, <1>4

\* The latest of some positions, of the tool, is one of them, and none is later.
LEMMA LatestIn ==
  ASSUME ScriptsWellFormed, NEW m \in Nat, NEW E \in SUBSET (1..m)
  PROVE  /\ D!Latest(E) \in 0..m
         /\ \A j \in E : j <= D!Latest(E)
         /\ IF E = {} THEN D!Latest(E) = 0 ELSE D!Latest(E) \in E
  BY ToolConstants, D!LatestIs

\* Where the section starts, for the tool and for the pipeline.
LEMMA SameStart ==
  ASSUME ScriptsWellFormed, PipelineInv, S!JustReported
  PROVE  /\ Len(log) \in Nat \ {0} /\ SectionStart \in 0..(Len(log) - 1)
         /\ SectionStart = D!SectionStart(Len(log))
         /\ EndsRead = D!At("TEST_END") /\ Len(log) \in EndsRead
         /\ \A e \in EndsRead : e <= SectionStart \/ e = Len(log)
         /\ SectionStart # 0 => SectionStart \in EndsRead
  <1>1. EndsRead = D!At("TEST_END") /\ EndsRead \subseteq 1..Len(log)
    BY DEF EndsRead, D!At
  <1>2. PICK n \in Nat \ {0} : n = Len(log)
    <2>1. D!StatsInv /\ log # <<>>
      BY DEF PipelineInv, S!JustReported
    <2>2. log \in Seq([stamp : Nat, body : D!Body])
      BY <2>1 DEF D!StatsInv, D!TypeOK
    <2>3. QED
      BY ONLY <2>1, <2>2
  <1>3. n \in EndsRead
    BY <1>2 DEF S!JustReported, EndsRead
  <1>4. PICK E : E = EndsRead \ {n}
    OBVIOUS
  <1>5. E \in SUBSET (1..(n - 1)) /\ E = {e \in D!At("TEST_END") : e < n}
    <2>1. \A e \in EndsRead : e \in 1..n /\ (e # n <=> e < n)
      BY <1>1, <1>2
    <2>2. \A e \in E : e \in 1..(n - 1)
      BY <1>4, <2>1
    <2>3. QED
      BY <1>1, <1>4, <2>1, <2>2
  <1>6. PICK s : s = D!Latest(E)
    OBVIOUS
  <1>7. /\ s \in 0..(n - 1) /\ \A j \in E : j <= s
        /\ IF E = {} THEN s = 0 ELSE s \in E
    <2>1. PICK m \in Nat : m = n - 1
      OBVIOUS
    <2>2. E \in SUBSET (1..m)
      BY <1>5, <2>1
    <2>3. QED
      BY <1>6, <2>1, <2>2, LatestIn
  <1>8. Max({0} \cup E) = s
    <2>1. s \in {0} \cup E /\ {0} \cup E \in SUBSET Int
      BY <1>5, <1>7
    <2>2. \A j \in {0} \cup E : j <= s
      BY <1>7
    <2>3. QED
      BY <2>1, <2>2, MaxIs
  <1>9. SectionStart = s /\ D!SectionStart(Len(log)) = s
    BY <1>2, <1>4, <1>5, <1>6, <1>8 DEF SectionStart, D!SectionStart
  <1>10. \A e \in EndsRead : e <= s \/ e = n
    BY <1>4, <1>7
  <1>11. s # 0 => s \in EndsRead
    BY <1>4, <1>7
  <1>12. QED
    BY <1>1, <1>2, <1>3, <1>7, <1>9, <1>10, <1>11

\* The tags o+1 to z of those taken stand on the lines s+1 to n of the log, and only the
\* last of them ends a test; before them, if anything, another test ended.
Section(pos, s, n, o, z) ==
  /\ n = Len(log) /\ s = SectionStart /\ o = TagsInFirst(s) /\ z = TagsInFirst(n)
  /\ n \in Nat /\ s \in 0..(n - 1) /\ o \in 0..(z - 1) /\ z \in 1..taken
  /\ \A t \in (o + 1)..z : pos[t] \in (s + 1)..n /\ (pos[t] = n <=> t = z)
  /\ \A t \in (o + 1)..z : log[pos[t]].body.tag = Tag(tx[t]).tag
  /\ \A t \in (o + 1)..z : Tag(tx[t]).tag = "TEST_END" <=> t = z
  /\ \A t, u \in (o + 1)..z : t < u <=> pos[t] < pos[u]
  /\ \A i \in (s + 1)..n : log[i].body.tag # "SAMPLE" => \E t \in (o + 1)..z : pos[t] = i
  /\ o # 0 => Tag(tx[o]).tag = "TEST_END"

LEMMA SectionLaid ==
  ASSUME ScriptsWellFormed, PipelineInv, S!JustReported, NEW pos, Placed(pos)
  PROVE  \E s, n, o, z : Section(pos, s, n, o, z)
  <1>1. PICK n \in Nat \ {0}, s \in Nat : n = Len(log) /\ s = SectionStart
    BY SameStart
  <1>2. s \in 0..(n - 1) /\ (s # 0 => s \in EndsRead)
    BY <1>1, SameStart
  <1>a. s <= n - 1
    BY <1>1, SameStart
  <1>b. n \in 1..Len(log) /\ log[n].body.tag = "TEST_END"
    BY <1>1, SameStart DEF EndsRead
  <1>3. \A e \in 1..n : log[e].body.tag = "TEST_END" => e <= s \/ e = n
    BY <1>1, SameStart DEF EndsRead
  <1>4. n <= Len(logfile) /\ Len(logfile) \in Nat
    BY <1>1, LogLengths DEF PipelineInv, ReadInv
  <1>5. PICK c \in Nat : c = taken
    BY DEF PipelineInv, PathInv
  <1>6. /\ pos \in [1..c -> 1..Len(logfile)]
        /\ \A t, u \in 1..c : t < u => pos[t] < pos[u]
        /\ \A i \in 0..Len(logfile) :
             /\ TagsInFirst(i) \in 0..c
             /\ \A t \in 1..c : t <= TagsInFirst(i) <=> pos[t] <= i
    BY <1>5 DEF Placed
  <1>c. s \in 0..Len(logfile) /\ n \in 0..Len(logfile)
    BY <1>a, <1>4
  <1>7. PICK o \in 0..c, z \in 0..c : o = TagsInFirst(s) /\ z = TagsInFirst(n)
    BY <1>6, <1>c
  <1>8. /\ \A t \in 1..c : t <= o <=> pos[t] <= s
        /\ \A t \in 1..c : t <= z <=> pos[t] <= n
    <2>1. \A t \in 1..c : t <= TagsInFirst(s) <=> pos[t] <= s
      BY <1>6, <1>c
    <2>2. \A t \in 1..c : t <= TagsInFirst(n) <=> pos[t] <= n
      BY <1>6, <1>c
    <2>3. QED
      BY <1>7, <2>1, <2>2
  <1>9. \A t, u \in 1..c : /\ t < u <=> pos[t] < pos[u]
                           /\ pos[t] = pos[u] => t = u
                           /\ pos[t] \in Nat \ {0}
    <2> SUFFICES ASSUME NEW t \in 1..c, NEW u \in 1..c
                 PROVE  /\ t < u <=> pos[t] < pos[u]
                        /\ pos[t] = pos[u] => t = u
                        /\ pos[t] \in Nat \ {0}
      OBVIOUS
    <2>1. pos[t] \in Nat \ {0} /\ pos[u] \in Nat /\ (t < u \/ t = u \/ u < t)
      BY <1>6
    <2>2. (t < u => pos[t] < pos[u]) /\ (u < t => pos[u] < pos[t])
      BY <1>6
    <2>3. QED
      BY <2>1, <2>2
  <1>10. \A t \in 1..c : pos[t] <= n => log[pos[t]].body.tag = Tag(tx[t]).tag
    BY <1>1, <1>5, TagRead
  <1>11. \A i \in 1..n : log[i].body.tag # "SAMPLE" => \E t \in 1..c : pos[t] = i
    BY <1>1, <1>5, ReadTag
  <1>12. PICK y \in 1..c : pos[y] = n
    BY <1>1, <1>b, <1>11
  <1>13. y = z /\ o < z
    <2>1. y <= z /\ ~(y <= o)
      BY <1>1, <1>a, <1>8, <1>12
    <2>2. z \in 1..c /\ pos[z] <= n
      BY <1>8, <2>1
    <2>3. ~(y < z)
      BY <1>9, <1>12, <2>2
    <2>4. QED
      BY <2>1, <2>3
  <1>14. ASSUME NEW t \in (o + 1)..z
         PROVE  /\ t \in 1..c /\ pos[t] \in (s + 1)..n /\ (pos[t] = n <=> t = z)
                /\ log[pos[t]].body.tag = Tag(tx[t]).tag
                /\ Tag(tx[t]).tag = "TEST_END" <=> t = z
    <2>1. t \in 1..c /\ t <= z /\ ~(t <= o)
      OBVIOUS
    <2>2. pos[t] <= n /\ ~(pos[t] <= s) /\ pos[t] \in Nat
      BY <1>8, <1>9, <2>1
    <2>3. pos[t] \in (s + 1)..n
      BY <2>2
    <2>4. pos[t] = n <=> t = z
      BY <1>9, <1>12, <1>13, <2>1
    <2>5. log[pos[t]].body.tag = Tag(tx[t]).tag
      BY <1>10, <2>1, <2>2
    <2>6. Tag(tx[t]).tag = "TEST_END" <=> t = z
      <3>1. pos[t] \in 1..n
        BY <2>3
      <3>2. QED
        BY <1>b, <1>3, <2>2, <2>4, <2>5, <3>1
    <2>7. QED
      BY <2>1, <2>3, <2>4, <2>5, <2>6
  <1>15. \A t, u \in (o + 1)..z : t < u <=> pos[t] < pos[u]
    BY <1>9, <1>14
  <1>16. ASSUME NEW i \in (s + 1)..n, log[i].body.tag # "SAMPLE"
         PROVE  \E t \in (o + 1)..z : pos[t] = i
    <2>1. i \in 1..n /\ ~(i <= s) /\ i <= n
      OBVIOUS
    <2>2. PICK t \in 1..c : pos[t] = i
      BY <1>11, <1>16, <2>1
    <2>3. t <= z /\ ~(t <= o)
      BY <1>8, <2>1, <2>2
    <2>4. QED
      BY <2>2, <2>3
  <1>17. ASSUME o # 0 PROVE Tag(tx[o]).tag = "TEST_END"
    <2>1. o \in 1..c /\ o <= o
      BY <1>17
    <2>2. pos[o] <= s /\ pos[o] \in Nat \ {0}
      BY <1>8, <1>9, <2>1
    <2>3. s # 0
      BY <2>2
    <2>4. s \in 1..n /\ log[s].body.tag = "TEST_END" /\ s <= s
      BY <1>1, <1>a, <2>3, SameStart DEF EndsRead
    <2>5. PICK t \in 1..c : pos[t] = s
      BY <1>11, <2>4
    <2>6. t <= o
      BY <1>8, <2>4, <2>5
    <2>7. ~(t < o)
      BY <1>9, <2>1, <2>2, <2>5
    <2>8. t = o
      BY <2>6, <2>7
    <2>9. QED
      BY <1>a, <1>10, <2>4, <2>5, <2>8
  <1>18. o \in 0..(z - 1) /\ z \in 1..c
    BY <1>13
  <1>19. /\ \A t \in (o + 1)..z : pos[t] \in (s + 1)..n /\ (pos[t] = n <=> t = z)
         /\ \A t \in (o + 1)..z : log[pos[t]].body.tag = Tag(tx[t]).tag
         /\ \A t \in (o + 1)..z : Tag(tx[t]).tag = "TEST_END" <=> t = z
    BY <1>14
  <1>20. \A i \in (s + 1)..n : log[i].body.tag # "SAMPLE" => \E t \in (o + 1)..z : pos[t] = i
    BY <1>16
  <1>21. n \in Nat /\ z \in 1..taken
    BY <1>5, <1>18
  <1>22. Section(pos, s, n, o, z)
    BY ONLY <1>1, <1>2, <1>7, <1>15, <1>17, <1>18, <1>19, <1>20, <1>21 DEF Section
  <1>23. QED
    BY ONLY <1>22

\* The tags of the section.
LEMMA SectionIs ==
  ASSUME PipelineInv, NEW pos, NEW s, NEW n, NEW o, NEW z, Section(pos, s, n, o, z)
  PROVE  /\ o \in Nat /\ z \in Nat /\ o < z
         /\ Len(SectionTags) = z - o
         /\ \A m \in 1..(z - o) : SectionTags[m] = tx[o + m]
  <1>1. o \in 0..(z - 1) /\ z \in 1..taken
    BY DEF Section
  <1>2. tx \in Seq(Nat \X Nat) /\ taken \in 0..Len(tx)
    BY DEF PipelineInv, PathInv, AllSent
  <1>3. PICK q \in Seq(Nat \X Nat) :
          q = LoggedTags /\ Len(q) = taken /\ \A m \in 1..taken : q[m] = tx[m]
    <2>1. PICK q : q = SubSeq(tx, 1, taken)
      OBVIOUS
    <2>2. taken \in Nat /\ taken <= Len(tx) /\ 1 \in 1..(Len(tx) + 1)
      BY <1>2
    <2>3. q \in Seq(Nat \X Nat) /\ Len(q) = taken /\ \A m \in 1..taken : q[m] = tx[m]
      BY <1>2, <2>1, <2>2
    <2>4. QED
      BY <2>1, <2>3 DEF LoggedTags
  <1>4. SectionTags = SubSeq(q, o + 1, z)
    BY <1>3 DEF SectionTags, Section
  <1>5. PICK g : g = SubSeq(q, o + 1, z)
    OBVIOUS
  <1>6. z \in 1..Len(q) /\ o \in Nat /\ z \in Nat /\ o + 1 \in 1..z
    BY <1>1, <1>2, <1>3
  <1>7. Len(g) = z - o /\ \A m \in 1..(z - o) : g[m] = q[o + m]
    BY ONLY q \in Seq(Nat \X Nat), <1>5, <1>6
  <1>8. ASSUME NEW m \in 1..(z - o) PROVE o + m \in 1..taken
    <2>1. PICK w \in Nat, k \in Nat : w = o + m /\ k = taken /\ z <= k
      BY <1>1, <1>2, <1>6
    <2>2. w \in 1..k
      BY <1>6, <2>1
    <2>3. QED
      BY <2>1, <2>2
  <1>9. Len(SectionTags) = z - o
    BY <1>4, <1>5, <1>7
  <1>10. ASSUME NEW m \in 1..(z - o) PROVE SectionTags[m] = tx[o + m]
    <2>1. SectionTags[m] = q[o + m]
      BY <1>4, <1>5, <1>7
    <2>2. QED
      BY <1>3, <1>8, <2>1
  <1>11. o < z
    BY ONLY <1>6
  <1>12. QED
    BY <1>6, <1>9, <1>10, <1>11

\* The tags of the section are all those sent from the place o + c + 1 on, before which,
\* if anything, the end of a test was sent.
SentWhole(o, z, c) ==
  /\ c \in Int /\ o + c \in Nat
  /\ \A t \in (o + 1)..z : t + c \in 1..Len(sent) /\ sent[t + c] = tx[t]
  /\ o + c # 0 => o + c \in 1..Len(sent) /\ SentTag(o + c) = "TEST_END"

LEMMA WholeSent ==
  ASSUME PipelineInv, NEW pos, NEW s, NEW n, NEW o, NEW z, Section(pos, s, n, o, z),
         NEW k \in 1..Len(sent), Whole(SectionTags, k)
  PROVE  \E c : SentWhole(o, z, c)
  <1>1. /\ o \in Nat /\ z \in Nat /\ o < z
        /\ Len(SectionTags) = z - o
        /\ \A m \in 1..(z - o) : SectionTags[m] = tx[o + m]
    BY SectionIs
  <1>2. PICK c \in Int : c = k - o - 1
    BY <1>1
  <1>3. sent \in Seq(Nat \X Nat)
    BY DEF PipelineInv, HistoryInv, SentTyped
  <1>4. PICK l \in Nat : l = k + (z - o) - 1
    BY <1>1
  <1>5. l <= Len(sent) /\ SubSeq(sent, k, l) = SectionTags /\ (k > 1 => SentTag(k - 1) = "TEST_END")
    BY <1>1, <1>4 DEF Whole
  <1>6. PICK g : g = SubSeq(sent, k, l)
    OBVIOUS
  <1>7. k \in Nat /\ l \in 1..Len(sent) /\ k <= l
    BY <1>1, <1>3, <1>4, <1>5
  <1>8. \A m \in 1..(z - o) : g[m] = sent[k + m - 1]
    <2>1. PICK h \in Nat : h = z - o /\ h = l - k + 1
      BY <1>1, <1>4, <1>7
    <2>2. \A m \in 1..(l - k + 1) : g[m] = sent[k + m - 1]
      BY <1>3, <1>6, <1>7, SubSeqProperties
    <2>3. QED
      BY <2>1, <2>2
  <1>9. ASSUME NEW t \in (o + 1)..z
        PROVE  t + c \in 1..Len(sent) /\ sent[t + c] = tx[t]
    <2>1. PICK m \in 1..(z - o) : m = t - o
      BY <1>1
    <2>2. t = o + m /\ t + c = k + m - 1 /\ t + c <= l
      BY <1>1, <1>2, <1>4, <2>1
    <2>3. sent[t + c] = SectionTags[m] /\ SectionTags[m] = tx[o + m]
      BY <1>1, <1>5, <1>6, <1>8, <2>2
    <2>4. QED
      BY <1>1, <1>2, <1>3, <1>7, <2>2, <2>3
  <1>10. o + c = k - 1 /\ o + c \in Nat
    BY <1>1, <1>2
  <1>11. o + c # 0 => o + c \in 1..Len(sent) /\ SentTag(o + c) = "TEST_END"
    <2>1. PICK x \in Nat : x = o + c /\ x = k - 1
      BY <1>10
    <2>2. Len(sent) \in Nat
      BY <1>3
    <2>3. x # 0 => x \in 1..Len(sent) /\ k > 1
      BY <2>1, <2>2
    <2>4. k > 1 => SentTag(x) = "TEST_END"
      BY <1>5, <2>1
    <2>5. QED
      BY <2>1, <2>3, <2>4
  <1>12. QED
    BY <1>2, <1>9, <1>10, <1>11 DEF SentWhole

\* What was sent within the section is logged within it: the place e, at or before that
\* of a tag of the section, if nothing from e on ended a test before it.
LEMMA SentWithin ==
  ASSUME PipelineInv, NEW pos, NEW s, NEW n, NEW o, NEW z, Section(pos, s, n, o, z),
         NEW c, SentWhole(o, z, c), NEW t \in (o + 1)..z, NEW e \in 1..Len(sent),
         e <= t + c, \A j \in e..(t + c - 1) : SentTag(j) # "TEST_END"
  PROVE  \E u \in (o + 1)..t : u + c = e /\ tx[u] = sent[e] /\ Tag(tx[u]).tag = SentTag(e)
  <1>1. o \in Nat /\ z \in Nat /\ t \in Nat /\ t > o /\ c \in Int /\ o + c \in Nat
    BY SectionIs DEF SentWhole
  <1>2. o + c < e
    <2>1. SUFFICES ASSUME ~(o + c < e) PROVE FALSE
      OBVIOUS
    <2>2. o + c # 0 /\ o + c \in e..(t + c - 1)
      BY <1>1, <2>1
    <2>3. QED
      BY <2>2 DEF SentWhole
  <1>3. PICK u \in (o + 1)..t : u = e - c
    BY <1>1, <1>2
  <1>4. u \in (o + 1)..z /\ u + c = e
    BY <1>1, <1>3
  <1>5. tx[u] = sent[e]
    BY <1>4 DEF SentWhole
  <1>6. QED
    BY <1>4, <1>5 DEF SentTag

\* Runs and the end of the test come after a TEST_BEGIN of the section.
LEMMA BeginInSection ==
  ASSUME ScriptsWellFormed, ScriptsBracketTests, PipelineInv,
         NEW pos, NEW s, NEW n, NEW o, NEW z, Section(pos, s, n, o, z),
         NEW c, SentWhole(o, z, c), NEW t \in (o + 1)..z,
         Tag(tx[t]).tag \in {"TEST_RUN_BEGIN", "TEST_END"}
  PROVE  \E u \in (o + 1)..(t - 1) : Tag(tx[u]).tag = "TEST_BEGIN"
  <1>1. t + c \in 1..Len(sent) /\ SentTag(t + c) = Tag(tx[t]).tag
    BY DEF SentWhole, SentTag
  <1>2. PICK e \in 1..Len(sent) : e = t + c
    BY <1>1
  <1>3. PICK b \in 1..Len(sent) :
          /\ b < e /\ SentTag(b) = "TEST_BEGIN"
          /\ \A j \in b..(e - 1) : SentTag(j) # "TEST_END"
    BY <1>1, <1>2, TestBeginSent DEF PipelineInv
  <1>4. b <= t + c
    BY <1>2, <1>3
  <1>5. PICK u \in (o + 1)..t : u + c = b /\ Tag(tx[u]).tag = SentTag(b)
    <2>1. \A j \in b..(t + c - 1) : SentTag(j) # "TEST_END"
      <3>a. o \in Nat /\ z \in Nat /\ c \in Int
        BY SectionIs DEF SentWhole
      <3>1. PICK h : h = e - 1 /\ h = t + c - 1
        BY <1>2, <3>a
      <3>2. QED
        BY <1>3, <3>1
    <2>2. QED
      BY <1>4, <2>1, SentWithin
  <1>6. u # t /\ o \in Nat /\ z \in Nat
    BY <1>2, <1>3, <1>5, SectionIs
  <1>7. u \in (o + 1)..(t - 1)
    BY <1>6
  <1>8. QED
    BY <1>3, <1>5, <1>7

\* It begins once, if no script was interrupted.
LEMMA OneBegin ==
  ASSUME ScriptsWellFormed, ScriptsBracketTests, PipelineInv, interrupts = 0,
         NEW pos, NEW s, NEW n, NEW o, NEW z, Section(pos, s, n, o, z),
         NEW c, SentWhole(o, z, c), NEW t \in (o + 1)..z, NEW u \in (o + 1)..z,
         Tag(tx[t]).tag = "TEST_BEGIN", Tag(tx[u]).tag = "TEST_BEGIN"
  PROVE  ~(t < u)
  <1> SUFFICES ASSUME t < u PROVE FALSE
    OBVIOUS
  <1>1. o \in Nat /\ z \in Nat /\ c \in Int
    BY SectionIs DEF SentWhole
  <1>2. PICK b \in 1..Len(sent), e \in 1..Len(sent) : b = t + c /\ e = u + c
    BY DEF SentWhole
  <1>3. SentTag(b) = "TEST_BEGIN" /\ SentTag(e) = "TEST_BEGIN" /\ b < e
    BY <1>1, <1>2 DEF SentWhole, SentTag
  <1>4. PICK r \in 1..Len(sent) : b < r /\ r < e /\ SentTag(r) = "TEST_END"
    BY <1>3, TestEndSent DEF PipelineInv
  <1>5. PICK v \in (o + 1)..z : v = r - c /\ v + c = r /\ v < z
    BY <1>1, <1>2, <1>4
  <1>6. Tag(tx[v]).tag = "TEST_END"
    BY <1>4, <1>5 DEF SentWhole, SentTag
  <1>7. v = z
    BY <1>6 DEF Section
  <1>8. QED
    BY ONLY <1>1, <1>5, <1>7

\* What statstool finds last of a kind is the last of that kind in the section.
LEMMA LastInSection ==
  ASSUME ScriptsWellFormed, PipelineInv, S!JustReported,
         NEW pos, Placed(pos), NEW s, NEW n, NEW o, NEW z, Section(pos, s, n, o, z),
         NEW tag, tag \notin {"SAMPLE", "TEST_END"},
         NEW t \in (o + 1)..z, Tag(tx[t]).tag = tag
  PROVE  \E y \in (o + 1)..z :
           /\ Tag(tx[y]).tag = tag
           /\ \A u \in (o + 1)..z : Tag(tx[u]).tag = tag => u <= y
           /\ D!LastIn(tag, n) = pos[y] /\ pos[y] # 0
           /\ log[pos[y]].body = BodyOf(logfile[pos[y]])
           /\ logfile[pos[y]].datagram = tx[y] /\ logfile[pos[y]].sample = 0
  <1>1. /\ n = Len(log) /\ n \in Nat /\ s \in 0..(n - 1) /\ z \in 1..taken /\ o \in 0..(z - 1)
        /\ s = D!SectionStart(n)
    BY SameStart DEF Section
  <1>2. PICK l \in Nat, c \in Nat : l = n /\ c = taken
    <2>1. taken \in Nat
      BY DEF PipelineInv, PathInv
    <2>2. QED
      BY <1>1, <2>1
  <1> DEFINE P == {j \in D!At(tag) : s < j /\ j < n}
  <1>3. \A j : j \in P <=> j \in (s + 1)..(n - 1) /\ log[j].body.tag = tag
    BY <1>1 DEF D!At
  <1>4. \A u \in (o + 1)..z : Tag(tx[u]).tag = tag => pos[u] \in P
    <2> SUFFICES ASSUME NEW u \in (o + 1)..z, Tag(tx[u]).tag = tag PROVE pos[u] \in P
      OBVIOUS
    <2>1. pos[u] \in (s + 1)..n /\ pos[u] # n /\ log[pos[u]].body.tag = tag
      BY DEF Section
    <2>2. pos[u] \in (s + 1)..(n - 1)
      BY <1>1, <2>1
    <2> HIDE DEF P
    <2>3. QED
      BY <1>3, <2>1, <2>2
  <1>5. \A j \in P : \E u \in (o + 1)..z : pos[u] = j /\ Tag(tx[u]).tag = tag
    <2> SUFFICES ASSUME NEW j \in P
                 PROVE  \E u \in (o + 1)..z : pos[u] = j /\ Tag(tx[u]).tag = tag
      OBVIOUS
    <2>1. j \in (s + 1)..n /\ log[j].body.tag = tag
      BY <1>1, <1>3
    <2> HIDE DEF P
    <2>2. PICK u \in (o + 1)..z : pos[u] = j
      BY <2>1 DEF Section
    <2>3. log[pos[u]].body.tag = Tag(tx[u]).tag
      BY DEF Section
    <2>4. QED
      BY <2>1, <2>2, <2>3
  <1>6. P \in SUBSET (1..n) /\ P # {}
    <2> HIDE DEF P
    <2>1. \A j \in P : j \in 1..n
      BY <1>1, <1>3
    <2>2. QED
      BY <1>4, <2>1
  <1>7. D!LastIn(tag, n) = D!Latest(P)
    BY <1>1 DEF D!LastIn
  <1> HIDE DEF P
  <1>8. PICK x : x = D!Latest(P)
    OBVIOUS
  <1>9. x \in P /\ \A j \in P : j <= x
    <2>1. PICK Q : Q = P
      OBVIOUS
    <2>2. Q \in SUBSET (1..l) /\ Q # {}
      BY <1>2, <1>6, <2>1
    <2>3. D!Latest(Q) \in Q /\ \A j \in Q : j <= D!Latest(Q)
      BY <2>2, LatestIn
    <2>4. QED
      BY <1>8, <2>1, <2>3
  <1>10. PICK y \in (o + 1)..z : pos[y] = x /\ Tag(tx[y]).tag = tag
    BY <1>5, <1>9
  <1>11. ASSUME NEW u \in (o + 1)..z, Tag(tx[u]).tag = tag PROVE u <= y
    <2>1. pos[u] <= pos[y] /\ pos[u] \in Nat /\ pos[y] \in Nat
      <3>1. pos[u] \in P /\ pos[y] = x /\ x \in P
        BY <1>4, <1>9, <1>10, <1>11
      <3>2. \A j \in P : j <= x /\ j \in Nat
        BY <1>1, <1>6, <1>9
      <3>3. QED
        BY <3>1, <3>2
    <2>2. ~(y < u)
      BY <2>1 DEF Section
    <2>3. QED
      BY <1>1, <2>2
  <1>12. y \in 1..taken /\ pos[y] <= Len(log) /\ pos[y] # 0
    <2>1. x \in 1..l
      BY <1>2, <1>6, <1>9
    <2>2. y \in 1..c
      BY <1>1, <1>2
    <2>3. QED
      BY <1>1, <1>2, <1>10, <2>1, <2>2
  <1>13. log[pos[y]].body = BodyOf(logfile[pos[y]])
    BY <1>12, TagRead
  <1>14. logfile[pos[y]].datagram = tx[y] /\ logfile[pos[y]].sample = 0
    BY <1>12 DEF Placed
  <1>15. QED
    BY <1>7, <1>8, <1>10, <1>11, <1>12, <1>13, <1>14

\* Runs are counted by statstool as they stand in the section.
LEMMA RunsCounted ==
  ASSUME ScriptsWellFormed, PipelineInv, S!JustReported,
         NEW pos, NEW s, NEW n, NEW o, NEW z, Section(pos, s, n, o, z)
  PROVE  /\ \A j : j \in D!RunBegins(n) <=>
                     \E t \in (o + 1)..z : pos[t] = j /\ Tag(tx[t]).tag = "TEST_RUN_BEGIN"
         /\ Cardinality(RunsIn(SectionTags)) = Cardinality(D!RunBegins(n))
  <1>1. /\ n = Len(log) /\ n \in Nat /\ s \in 0..(n - 1) /\ z \in 1..taken /\ o \in 0..(z - 1)
        /\ s = D!SectionStart(n)
    BY SameStart DEF Section
  <1>2. PICK B : B = D!RunBegins(n)
    OBVIOUS
  <1>3. \A j : j \in B <=> j \in (s + 1)..(n - 1) /\ log[j].body.tag = "TEST_RUN_BEGIN"
    BY <1>1, <1>2 DEF D!RunBegins, D!At
  <1>4. ASSUME NEW j \in B
        PROVE  \E t \in (o + 1)..z : pos[t] = j /\ Tag(tx[t]).tag = "TEST_RUN_BEGIN"
    <2>1. j \in (s + 1)..n /\ log[j].body.tag = "TEST_RUN_BEGIN"
      BY <1>1, <1>3
    <2>2. PICK t \in (o + 1)..z : pos[t] = j
      BY <2>1 DEF Section
    <2>3. log[pos[t]].body.tag = Tag(tx[t]).tag
      BY DEF Section
    <2>4. QED
      BY <2>1, <2>2, <2>3
  <1>5. ASSUME NEW t \in (o + 1)..z, Tag(tx[t]).tag = "TEST_RUN_BEGIN"
        PROVE  pos[t] \in B
    <2>1. /\ pos[t] \in (s + 1)..n /\ pos[t] # n /\ log[pos[t]].body.tag = "TEST_RUN_BEGIN"
      BY <1>5 DEF Section
    <2>2. pos[t] \in (s + 1)..(n - 1)
      BY <1>1, <2>1
    <2>3. QED
      BY <1>3, <2>1, <2>2
  <1>6. PICK A : A = RunsIn(SectionTags)
    OBVIOUS
  <1>7. /\ o \in Nat /\ z \in Nat /\ o < z
        /\ \A m : m \in A <=> m \in 1..(z - o) /\ Tag(tx[o + m]).tag = "TEST_RUN_BEGIN"
    <2>1. /\ o \in Nat /\ z \in Nat /\ o < z
          /\ Len(SectionTags) = z - o
          /\ \A m \in 1..(z - o) : SectionTags[m] = tx[o + m]
      BY SectionIs
    <2>2. QED
      BY <1>6, <2>1 DEF RunsIn
  <1> DEFINE f == [m \in A |-> pos[o + m]]
  <1>8. f \in [A -> B]
    <2> SUFFICES ASSUME NEW m \in A PROVE pos[o + m] \in B
      OBVIOUS
    <2>1. o + m \in (o + 1)..z /\ Tag(tx[o + m]).tag = "TEST_RUN_BEGIN"
      BY <1>7
    <2>2. QED
      BY <1>5, <2>1
  <1>9. \A j \in B : \E m \in A : f[m] = j
    <2> SUFFICES ASSUME NEW j \in B PROVE \E m \in A : pos[o + m] = j
      OBVIOUS
    <2>1. PICK t \in (o + 1)..z : pos[t] = j /\ Tag(tx[t]).tag = "TEST_RUN_BEGIN"
      BY <1>4
    <2>2. PICK m \in 1..(z - o) : m = t - o /\ o + m = t
      BY <1>7
    <2>3. m \in A
      BY <1>7, <2>1, <2>2
    <2>4. QED
      BY <2>1, <2>2, <2>3
  <1>10. \A m, p \in A : f[m] = f[p] => m = p
    <2> SUFFICES ASSUME NEW m \in A, NEW p \in A, pos[o + m] = pos[o + p] PROVE m = p
      OBVIOUS
    <2>1. PICK t \in (o + 1)..z, u \in (o + 1)..z : t = o + m /\ u = o + p
      BY <1>7
    <2>2. pos[t] = pos[u] /\ pos[t] \in (s + 1)..n
      BY <2>1 DEF Section
    <2>3. ~(pos[t] < pos[u]) /\ ~(pos[u] < pos[t])
      BY <1>1, <2>2
    <2>4. ~(t < u) /\ ~(u < t)
      BY <2>3 DEF Section
    <2>5. QED
      BY <1>7, <2>1, <2>4
  <1>11. IsFiniteSet(A)
    <2>1. z - o \in Int /\ 1 \in Int /\ A \subseteq 1..(z - o)
      BY <1>7
    <2>2. IsFiniteSet(1..(z - o))
      BY <2>1, FS_Interval
    <2>3. QED
      BY <2>1, <2>2, FS_Subset
  <1> HIDE DEF f
  <1>12. f \in Bijection(A, B)
    <2>1. f \in Injection(A, B)
      BY <1>8, <1>10 DEF Injection, IsInjective
    <2>2. f \in Surjection(A, B)
      BY <1>8, <1>9 DEF Surjection
    <2>3. QED
      BY <2>1, <2>2 DEF Bijection
  <1>13. Cardinality(A) = Cardinality(B)
    BY <1>11, <1>12, FS_Bijection DEF ExistsBijection
  <1>14. QED
    BY <1>2, <1>4, <1>5, <1>6, <1>13

\* Cardinality is the same for the tool.
LEMMA SameCardinality == \A Z : D!Cardinality(Z) = Cardinality(Z)
  BY DEF Cardinality, D!Cardinality

\* The report of a test all of whose tags are logged is the one of its section.
LEMMA WholeReport ==
  ASSUME ScriptsWellFormed, PipelineInv, D!LastReport, WholeTestReported
  PROVE  /\ S!JustReported /\ Last(reports) = reports[Len(reports)]
         /\ D!NamedAsAnnounced /\ D!RunsReported
         /\ \E k \in 1..Len(sent) : Whole(SectionTags, k)
  <1>1. /\ S!JustReported /\ pc = "reading" /\ "a" \notin opts
        /\ Len(reports) = Cardinality(EndsRead)
        /\ \E k \in 1..Len(sent) : Whole(SectionTags, k)
    BY DEF WholeTestReported, S!JustReported
  <1>2. EndsRead = D!At("TEST_END") /\ D!JustReported
    BY <1>1 DEF EndsRead, D!At, S!JustReported, D!JustReported
  <1>3. Last(reports) = reports[Len(reports)]
    BY DEF Last
  <1>4. QED
    BY <1>1, <1>2, <1>3, SameCardinality DEF D!LastReport

ReportNamed(r, name) == r.test.word = name.word /\ ("x" \notin opts => r.test = name)

\* statstool reports the test under the name it was begun with, and its client's.
LEMMA NamesAsSent ==
  ASSUME ScriptsWellFormed, PipelineInv, S!JustReported, D!NamedAsAnnounced,
         NEW pos, Placed(pos), NEW s, NEW n, NEW o, NEW z, Section(pos, s, n, o, z),
         NEW t \in (o + 1)..z
  PROVE  LET r == reports[Len(reports)]
         IN /\ Tag(tx[t]).tag = "TEST_BEGIN" =>
                 \E y \in (o + 1)..z :
                   /\ Tag(tx[y]).tag = "TEST_BEGIN"
                   /\ \A u \in (o + 1)..z : Tag(tx[u]).tag = "TEST_BEGIN" => u <= y
                   /\ ReportNamed(r, Tag(tx[y]).name)
            /\ Tag(tx[t]).tag = "TEST_CLIENT" =>
                 r.client.host = Host.host /\ r.client.arch = Host.arch
  <1>1. n = Len(log)
    BY DEF Section
  <1>2. PICK r : r = reports[Len(reports)]
    OBVIOUS
  <1>3. /\ D!LastIn("TEST_CLIENT", n) # 0 =>
             LET who == log[D!LastIn("TEST_CLIENT", n)].body.who
             IN r.client.host = who.host /\ r.client.arch = who.arch
        /\ D!LastIn("TEST_BEGIN", n) # 0 =>
             ReportNamed(r, log[D!LastIn("TEST_BEGIN", n)].body.name)
    BY <1>1, <1>2 DEF D!NamedAsAnnounced, ReportNamed
  <1>4. ASSUME NEW l, l.sample = 0, NEW d, d = l.datagram
        PROVE  /\ Tag(d).tag = "TEST_BEGIN" => BodyOf(l).name = Tag(d).name
               /\ Tag(d).tag = "TEST_CLIENT" => BodyOf(l).who = Host
    BY <1>4 DEF BodyOf
  <1>5. ASSUME Tag(tx[t]).tag = "TEST_BEGIN"
        PROVE  \E y \in (o + 1)..z :
                 /\ Tag(tx[y]).tag = "TEST_BEGIN"
                 /\ \A u \in (o + 1)..z : Tag(tx[u]).tag = "TEST_BEGIN" => u <= y
                 /\ ReportNamed(r, Tag(tx[y]).name)
    <2>1. PICK tag : tag = "TEST_BEGIN"
      OBVIOUS
    <2>2. PICK y \in (o + 1)..z :
            /\ Tag(tx[y]).tag = tag
            /\ \A u \in (o + 1)..z : Tag(tx[u]).tag = tag => u <= y
            /\ D!LastIn(tag, n) = pos[y] /\ pos[y] # 0
            /\ log[pos[y]].body = BodyOf(logfile[pos[y]])
            /\ logfile[pos[y]].datagram = tx[y] /\ logfile[pos[y]].sample = 0
      BY <1>5, <2>1, LastInSection
    <2>3. BodyOf(logfile[pos[y]]).name = Tag(tx[y]).name
      BY <1>4, <2>1, <2>2
    <2>4. QED
      BY <1>3, <2>1, <2>2, <2>3
  <1>6. ASSUME Tag(tx[t]).tag = "TEST_CLIENT"
        PROVE  r.client.host = Host.host /\ r.client.arch = Host.arch
    <2>1. PICK tag : tag = "TEST_CLIENT"
      OBVIOUS
    <2>2. PICK y \in (o + 1)..z :
            /\ Tag(tx[y]).tag = tag
            /\ D!LastIn(tag, n) = pos[y] /\ pos[y] # 0
            /\ log[pos[y]].body = BodyOf(logfile[pos[y]])
            /\ logfile[pos[y]].datagram = tx[y] /\ logfile[pos[y]].sample = 0
      BY <1>6, <2>1, LastInSection
    <2>3. BodyOf(logfile[pos[y]]).who = Host
      BY <1>4, <2>1, <2>2
    <2>4. QED
      BY <1>3, <2>1, <2>2, <2>3
  <1>7. QED
    BY <1>2, <1>5, <1>6

LEMMA ReportedAsRun ==
  ASSUME ScriptsWellFormed, ScriptsBracketTests, PipelineInv, D!LastReport
  PROVE  TestReportedAsRun
  <1> SUFFICES ASSUME WholeTestReported PROVE TestReportedAsRun
    BY DEF TestReportedAsRun
  <1>1. /\ S!JustReported /\ Last(reports) = reports[Len(reports)]
        /\ D!NamedAsAnnounced /\ D!RunsReported
        /\ \E k \in 1..Len(sent) : Whole(SectionTags, k)
    BY WholeReport
  <1>2. PICK pos : Placed(pos)
    BY DEF PipelineInv, FileInv
  <1>3. PICK s, n, o, z : Section(pos, s, n, o, z)
    BY <1>1, <1>2, SectionLaid
  <1>4. PICK c : SentWhole(o, z, c)
    BY <1>1, <1>3, WholeSent
  <1>5. PICK q : q = SectionTags
    OBVIOUS
  <1>6. /\ o \in Nat /\ z \in Nat /\ o < z /\ Len(q) = z - o
        /\ \A m \in 1..(z - o) : q[m] = tx[o + m]
    BY <1>3, <1>5, SectionIs
  <1>7. PICK r : r = Last(reports) /\ r = reports[Len(reports)]
    BY <1>1
  <1>8. PICK begins : begins = {i \in 1..Len(q) : Tag(q[i]).tag = "TEST_BEGIN"}
    OBVIOUS
  <1>9. \A m : m \in begins <=> m \in 1..(z - o) /\ Tag(tx[o + m]).tag = "TEST_BEGIN"
    BY <1>6, <1>8
  <1>10. \E t \in (o + 1)..z : Tag(tx[t]).tag = "TEST_BEGIN"
    <2>1. z \in (o + 1)..z
      BY <1>6
    <2>2. Tag(tx[z]).tag = "TEST_END"
      BY <1>3, <2>1 DEF Section
    <2>3. PICK u \in (o + 1)..(z - 1) : Tag(tx[u]).tag = "TEST_BEGIN"
      BY <1>3, <1>4, <2>1, <2>2, BeginInSection
    <2>4. u \in (o + 1)..z
      BY <1>6
    <2>5. QED
      BY <2>3, <2>4
  <1>11. PICK y \in (o + 1)..z :
           /\ Tag(tx[y]).tag = "TEST_BEGIN"
           /\ \A u \in (o + 1)..z : Tag(tx[u]).tag = "TEST_BEGIN" => u <= y
           /\ ReportNamed(r, Tag(tx[y]).name)
    BY <1>1, <1>2, <1>3, <1>7, <1>10, NamesAsSent
  <1>12. PICK m \in 1..(z - o) : m = y - o /\ o + m = y
    BY <1>6
  <1>13. Max(begins) = m
    <2>1. m \in begins /\ begins \in SUBSET Int
      BY <1>9, <1>11, <1>12
    <2>2. ASSUME NEW j \in begins PROVE j <= m
      <3>1. o + j \in (o + 1)..z /\ Tag(tx[o + j]).tag = "TEST_BEGIN" /\ j \in Int
        BY <1>6, <1>9
      <3>2. o + j <= y
        BY <1>11, <3>1
      <3>3. QED
        BY <1>6, <1>12, <3>1, <3>2
    <2>3. QED
      BY <2>1, <2>2, MaxIs
  <1>14. ReportNamed(r, Tag(q[Max(begins)]).name)
    BY <1>6, <1>11, <1>12, <1>13
  <1>15. Len(r.runs) = S!Lesser(Cardinality(RunsIn(q)), MaxTestRuns)
    <2>1. Len(r.runs) = D!RunsOf(n)
      BY <1>1, <1>3, <1>7 DEF D!RunsReported, Section
    <2>2. Cardinality(RunsIn(q)) = Cardinality(D!RunBegins(n))
      BY <1>1, <1>3, <1>5, RunsCounted
    <2>3. QED
      BY <2>1, <2>2, SameCardinality DEF D!RunsOf, D!Lesser, S!Lesser
  <1>16. ASSUME NEW i \in 1..Len(q), Tag(q[i]).tag = "TEST_CLIENT"
         PROVE  r.client.host = Host.host /\ r.client.arch = Host.arch
    <2>1. PICK t \in (o + 1)..z : t = o + i
      BY <1>6
    <2>2. Tag(tx[t]).tag = "TEST_CLIENT"
      BY <1>6, <1>16, <2>1
    <2>3. QED
      BY <1>1, <1>2, <1>3, <1>7, <2>2, NamesAsSent
  <1>17. ASSUME interrupts = 0
         PROVE  Cardinality(begins) = 1 /\ \A i \in RunsIn(q) : i > Max(begins)
    <2>1. ASSUME NEW j \in begins PROVE j = m
      <3>1. PICK t \in (o + 1)..z : t = o + j /\ Tag(tx[t]).tag = "TEST_BEGIN" /\ j \in Int
        <4>1. j \in 1..(z - o) /\ Tag(tx[o + j]).tag = "TEST_BEGIN"
          BY <1>9
        <4>2. o + j \in (o + 1)..z /\ j \in Int
          BY ONLY <1>6, <4>1
        <4>3. QED
          BY <4>1, <4>2
      <3>2. ~(t < y) /\ ~(y < t)
        BY <1>3, <1>4, <1>11, <1>17, <3>1, OneBegin
      <3>3. QED
        BY <1>6, <1>12, <3>1, <3>2
    <2>2. m \in begins
      BY <1>9, <1>11, <1>12
    <2>3. begins = {m}
      BY <2>1, <2>2
    <2>4. Cardinality(begins) = 1
      BY <2>3, FS_Singleton
    <2>5. ASSUME NEW i \in RunsIn(q) PROVE i > Max(begins)
      <3>1. i \in 1..Len(q) /\ Tag(q[i]).tag = "TEST_RUN_BEGIN"
        BY DEF RunsIn
      <3>2. PICK t \in (o + 1)..z : t = o + i /\ Tag(tx[t]).tag = "TEST_RUN_BEGIN" /\ i \in Int
        BY <1>6, <3>1
      <3>3. PICK u \in (o + 1)..(t - 1) : Tag(tx[u]).tag = "TEST_BEGIN"
        BY <1>3, <1>4, <3>2, BeginInSection
      <3>4. PICK j \in 1..(z - o) : j = u - o /\ o + j = u /\ j < i
        BY <1>6, <3>2
      <3>5. j \in begins
        BY <1>9, <3>3, <3>4
      <3>6. j = m
        BY <2>1, <3>5
      <3>7. QED
        BY <1>13, <3>2, <3>4, <3>6
    <2>6. QED
      BY <2>4, <2>5
  <1>18. QED
    BY <1>5, <1>7, <1>8, <1>14, <1>15, <1>16, <1>17
    DEF TestReportedAsRun, ReportNamed

\* Whatever was lost, duplicated or reordered before it, a test all of whose tags are
\* logged is reported under its own name and its client's, with one run for each run
\* its script made, all of them its own unless a script was interrupted: for any scripts
\* that bracket their tests, any network, relay, logger and log.
THEOREM WholeTestsReported ==
  ASSUME ScriptsWellFormed, ScriptsBracketTests
  PROVE  PipelineSpec => []TestReportedAsRun
  <1>1. PipelineInv /\ D!LastReport => TestReportedAsRun
    BY ReportedAsRun
  <1>2. D!Spec => []D!LastReport
    BY ToolConstants, D!StatsLastReport
  <1>3. QED
    BY <1>1, <1>2, PipelineKept, PipelineRunsTool, PTL

-----------------------------------------------------------------------------
(* Samples are counted in the runs they were taken in *)

\* Samples are numbered; if the last tag of the log was the last one sent when a sample
\* was taken, it is the last tag logged before the sample.
SampleInv ==
  /\ \A i \in Samples : logfile[i].sample \in 1..Cardinality(Samples)
  /\ \A i, j \in Samples : logfile[i].sample = logfile[j].sample => i = j
  /\ \A i \in Samples : logfile[i].current =>
       /\ TagsInFirst(i) \in 1..taken /\ logfile[i].sent \in 1..Len(sent)
       /\ tx[TagsInFirst(i)] = sent[logfile[i].sent]

\* What a step leaves of it.
LEMMA SampleKept ==
  ASSUME HistoryInv, PathInv, FileInv, [PipelineNext]_pipelineVars
  PROVE  /\ taken \in Nat /\ taken' \in Nat /\ taken <= taken'
         /\ \A t \in 1..taken : tx'[t] = tx[t]
         /\ \A k \in 1..Len(sent) : k \in 1..Len(sent') /\ sent'[k] = sent[k]
  <1>1. taken \in Nat /\ sent \in Seq(Nat \X Nat)
    BY DEF PathInv, HistoryInv, SentTyped
  <1>2. taken' = taken \/ taken' = taken + 1
    BY DEF PipelineNext, ClientStep, ClientSends, Deliver, Mishap, RelayStep, LogTag, LogSample,
           StopLogging, Analyse, loggerVars, pipelineVars
  <1>3. sent' = sent \/ \E d : sent' = Append(sent, d)
    BY DEF PipelineNext, ClientStep, ClientSends, Deliver, Mishap, RelayStep, LogTag, LogSample,
           StopLogging, Analyse, historyVars, pipelineVars
  <1>4. ASSUME NEW d, NEW s, s = Append(sent, d), NEW k \in 1..Len(sent)
        PROVE  k \in 1..Len(s) /\ s[k] = sent[k]
    BY <1>1, <1>4
  <1>5. \A k \in 1..Len(sent) : k \in 1..Len(sent') /\ sent'[k] = sent[k]
    BY <1>3, <1>4
  <1>6. QED
    BY <1>1, <1>2, <1>5, TakenKept

\* If the file stays, or gets a tag, its samples stay.
LEMMA SampleStays ==
  ASSUME HistoryInv, PathInv, FileInv, SampleInv, [PipelineNext]_pipelineVars, Samples' = Samples,
         \A i \in Samples : logfile'[i] = logfile[i] /\ TagsInFirst(i)' = TagsInFirst(i)
  PROVE  SampleInv'
  <1>1. /\ taken \in Nat /\ taken' \in Nat /\ taken <= taken'
        /\ \A t \in 1..taken : tx'[t] = tx[t] /\ t \in 1..taken'
        /\ \A k \in 1..Len(sent) : k \in 1..Len(sent') /\ sent'[k] = sent[k]
    BY SampleKept
  <1>2. Cardinality(Samples)' = Cardinality(Samples)
    OBVIOUS
  <1>3. ASSUME NEW i \in Samples, logfile[i].current
        PROVE  /\ TagsInFirst(i)' \in 1..taken' /\ logfile'[i].sent \in 1..Len(sent')
               /\ tx'[TagsInFirst(i)'] = sent'[logfile'[i].sent]
    <2>1. PICK t \in 1..taken, k \in 1..Len(sent) :
            t = TagsInFirst(i) /\ k = logfile[i].sent /\ tx[t] = sent[k]
      BY <1>3 DEF SampleInv
    <2>2. TagsInFirst(i)' = t /\ logfile'[i].sent = k
      BY <2>1
    <2>3. QED
      BY <1>1, <2>1, <2>2
  <1>4. \A i \in Samples : logfile'[i].sample \in 1..Cardinality(Samples)
    BY DEF SampleInv
  <1>5. \A i, j \in Samples : logfile'[i].sample = logfile'[j].sample => i = j
    BY DEF SampleInv
  <1>6. QED
    BY <1>2, <1>3, <1>4, <1>5 DEF SampleInv

LEMMA SampleSet ==
  ASSUME FileInv
  PROVE  /\ IsFiniteSet(Samples) /\ Cardinality(Samples) \in Nat
         /\ \A i : i \in Samples <=> i \in 1..Len(logfile) /\ logfile[i].sample # 0
  <1>1. PICK n \in Nat : n = Len(logfile)
    BY DEF FileInv
  <1>2. \A i \in 1..n : logfile[i].sample \in Nat
    <2>1. \A i \in 1..n : logfile[i] \in LogLine
      BY <1>1 DEF FileInv
    <2>2. QED
      BY <2>1 DEF LogLine
  <1>3. Samples \subseteq 1..n /\ 1 \in Int /\ n \in Int
    BY <1>1 DEF Samples
  <1>4. IsFiniteSet(1..n)
    BY <1>3, FS_Interval
  <1>5. IsFiniteSet(Samples) /\ Cardinality(Samples) \in Nat
    BY <1>3, <1>4, FS_Subset, FS_CardinalityType
  <1>6. \A i : i \in Samples <=> i \in 1..Len(logfile) /\ logfile[i].sample # 0
    BY <1>1, <1>2 DEF Samples
  <1>7. QED
    BY <1>5, <1>6

LEMMA SampleLogged ==
  ASSUME HistoryInv, PathInv, FileInv, FileInv', SampleInv, LogSample, [PipelineNext]_pipelineVars
  PROVE  SampleInv'
  <1>1. PICK l, f : /\ l = [datagram |-> <<>>, sample |-> Cardinality(Samples) + 1,
                            sent |-> Len(sent), current |-> taken > 0 /\ tx[taken] = Last(sent)]
                    /\ f = logfile'
    OBVIOUS
  <1>2. PICK n \in Nat, k \in Nat, c \in Nat :
          n = Len(logfile) /\ k = n + 1 /\ c = Cardinality(Samples)
    BY SampleSet DEF FileInv
  <1>3. /\ f = Append(logfile, l) /\ taken' = taken /\ tx' = tx /\ sent' = sent
        /\ tx \in Seq(Nat \X Nat) /\ taken \in 0..Len(tx)
    BY <1>1 DEF LogSample, relayVars, historyVars, PathInv, AllSent
  <1>4. l.sample = c + 1 /\ (l.current <=> taken > 0 /\ tx[taken] = Last(sent)) /\ l.sent = Len(sent)
    BY <1>1, <1>2
  <1>5. l \in LogLine
    <2>1. Len(sent) \in Nat
      BY DEF HistoryInv, SentTyped
    <2>2. PICK b \in BOOLEAN : b = (taken > 0 /\ tx[taken] = Last(sent))
      OBVIOUS
    <2>3. l = [datagram |-> <<>>, sample |-> c + 1, sent |-> Len(sent), current |-> b]
      BY <1>1, <1>2, <2>2
    <2>4. QED
      BY <2>1, <2>3 DEF LogLine
  <1>6. /\ f \in Seq(LogLine) /\ Len(f) = k /\ f[k] = l
        /\ \A i \in 1..n : f[i] = logfile[i]
        /\ \A m \in 0..n : TagsInFirst(m)' = TagsInFirst(m)
        /\ TagsInFirst(k)' = TagsInFirst(n) + 0
    <2>1. n \in 0..n /\ l.sample # 0
      BY <1>4
    <2>2. logfile \in Seq(LogLine)
      BY DEF FileInv
    <2>3. f = logfile' /\ f = Append(logfile, l) /\ k = Len(logfile) + 1
      BY <1>1, <1>2, <1>3
    <2>4. QED
      BY ONLY <1>2, <1>5, <2>1, <2>2, <2>3, LineAdded
  <1>7. TagsInFirst(k)' = taken
    <2>1. PICK pos : Placed(pos)
      BY DEF FileInv
    <2>2. n \in 0..Len(logfile)
      BY <1>2
    <2>3. PICK t \in 0..taken : t = TagsInFirst(n)
      BY <2>1, <2>2 DEF Placed
    <2>4. \A u \in 1..taken : u <= t <=> pos[u] <= n
      BY <2>1, <2>2, <2>3 DEF Placed
    <2>5. \A u \in 1..taken : pos[u] <= n
      BY <1>2, <2>1 DEF Placed
    <2>6. taken \in Nat /\ (taken = 0 \/ taken \in 1..taken)
      BY <1>3
    <2>7. t = taken
      BY <2>4, <2>5, <2>6
    <2>8. QED
      BY <1>6, <2>3, <2>7
  <1>8. PICK P, Q : P = Samples /\ Q = Samples'
    OBVIOUS
  <1>9. /\ IsFiniteSet(P) /\ \A i : i \in P <=> i \in 1..n /\ logfile[i].sample # 0
        /\ c = Cardinality(P)
    BY <1>2, <1>8, SampleSet
  <1>10. \A i : i \in Q <=> i \in 1..k /\ f[i].sample # 0
    <2>1. (\A i : i \in Samples <=> i \in 1..Len(logfile) /\ logfile[i].sample # 0)'
      <3>1. \A i \in 1..Len(f) : f[i].sample \in Nat
        <4>1. \A i \in 1..Len(f) : f[i] \in LogLine
          BY <1>6
        <4>2. QED
          BY <4>1 DEF LogLine
      <3>2. QED
        BY <1>1, <3>1 DEF Samples
    <2>2. QED
      BY <1>1, <1>6, <1>8, <2>1
  <1>11. Q = P \cup {k} /\ k \notin P
    <2>1. \A i : i \in 1..k <=> i \in 1..n \/ i = k
      BY <1>2
    <2>2. k \notin 1..n /\ l.sample # 0
      BY <1>2, <1>4
    <2>3. \A i : i \in Q <=> i \in P \/ i = k
      BY <1>6, <1>9, <1>10, <2>1, <2>2
    <2>4. QED
      BY <1>9, <2>2, <2>3
  <1>12. Cardinality(Q) = c + 1
    BY <1>9, <1>11, FS_AddElement
  <1>13. \A i \in P : f[i] = logfile[i] /\ TagsInFirst(i)' = TagsInFirst(i)
    <2>1. \A i \in P : i \in 1..n /\ i \in 0..n
      BY <1>9
    <2>2. QED
      BY <1>6, <2>1
  <1>14. \A i \in P : logfile[i].sample \in 1..c
    BY <1>2, <1>8 DEF SampleInv
  <1>15. \A i \in Q : f[i].sample \in 1..(c + 1)
    BY <1>4, <1>6, <1>11, <1>13, <1>14
  <1>16. \A i, j \in Q : f[i].sample = f[j].sample => i = j
    <2> SUFFICES ASSUME NEW i \in Q, NEW j \in Q, f[i].sample = f[j].sample PROVE i = j
      OBVIOUS
    <2>1. \A m \in P : f[m].sample # c + 1
      BY <1>13, <1>14
    <2>2. (i \in P \/ i = k) /\ (j \in P \/ j = k) /\ f[k].sample = c + 1
      BY <1>4, <1>6, <1>11
    <2>3. CASE i \in P /\ j \in P
      BY <1>8, <1>13, <2>3 DEF SampleInv
    <2>4. QED
      BY <2>1, <2>2, <2>3
  <1>17. ASSUME NEW i \in Q, f[i].current
         PROVE  /\ TagsInFirst(i)' \in 1..taken /\ f[i].sent \in 1..Len(sent)
                /\ tx[TagsInFirst(i)'] = sent[f[i].sent]
    <2>1. CASE i \in P
      BY <1>8, <1>13, <1>17, <2>1 DEF SampleInv
    <2>2. CASE i = k
      <3>1. taken \in 1..taken /\ tx[taken] = Last(sent)
        BY <1>3, <1>4, <1>6, <1>17, <2>2
      <3>2. PICK m \in 1..Len(sent) : tx[taken] = sent[m]
        BY <3>1, TakenSent
      <3>3. Len(sent) \in 1..Len(sent) /\ Last(sent) = sent[Len(sent)]
        <4>1. Len(sent) \in Nat
          BY DEF HistoryInv, SentTyped
        <4>2. QED
          BY <3>2, <4>1 DEF Last
      <3>4. QED
        BY <1>4, <1>6, <1>7, <2>2, <3>1, <3>3
    <2>3. QED
      BY <1>11, <2>1, <2>2
  <1>18. QED
    BY <1>1, <1>3, <1>8, <1>12, <1>15, <1>16, <1>17 DEF SampleInv

LEMMA SampleStep ==
  ASSUME HistoryInv, PathInv, FileInv, FileInv', SampleInv, [PipelineNext]_pipelineVars
  PROVE  SampleInv'
  <1>1. CASE logfile' = logfile
    <2>1. Samples' = Samples /\ \A i : TagsInFirst(i)' = TagsInFirst(i)
      BY <1>1 DEF Samples, TagsInFirst
    <2>2. QED
      BY <1>1, <2>1, SampleStays
  <1>2. CASE LogTag
    <2>1. PICK l, f : /\ l = [datagram |-> tx[taken + 1], sample |-> 0, sent |-> 0, current |-> FALSE]
                      /\ f = logfile'
      OBVIOUS
    <2>2. /\ f = Append(logfile, l) /\ taken < Len(tx)
          /\ tx \in Seq(Nat \X Nat) /\ taken \in 0..Len(tx)
      BY <1>2, <2>1 DEF LogTag, PathInv, AllSent
    <2>3. l \in LogLine /\ l.sample = 0
      BY <2>1, <2>2 DEF LogLine
    <2>4. PICK n \in Nat, k \in Nat : n = Len(logfile) /\ k = n + 1
      BY DEF FileInv
    <2>5. /\ f \in Seq(LogLine) /\ Len(f) = k /\ f[k] = l
          /\ \A i \in 1..n : f[i] = logfile[i]
          /\ \A m \in 0..n : TagsInFirst(m)' = TagsInFirst(m)
      <3>1. logfile \in Seq(LogLine)
        BY DEF FileInv
      <3>2. f = logfile' /\ f = Append(logfile, l) /\ k = Len(logfile) + 1
        BY <2>1, <2>2, <2>4
      <3>3. QED
        BY ONLY <2>3, <2>4, <3>1, <3>2, LineAdded
    <2>6. \A i : i \in 1..k <=> i \in 1..n \/ i = k
      BY <2>4
    <2>7. Samples' = Samples
      <3>1. PICK Q : Q = {i \in 1..k : f[i].sample > 0}
        OBVIOUS
      <3>2. Samples' = Q
        BY <2>1, <2>5, <3>1 DEF Samples
      <3>3. \A i : i \in Q <=> i \in 1..n /\ logfile[i].sample > 0
        BY <2>3, <2>5, <2>6, <3>1
      <3>4. \A i : i \in Samples <=> i \in 1..n /\ logfile[i].sample > 0
        BY <2>4 DEF Samples
      <3>5. QED
        BY <3>2, <3>3, <3>4
    <2>8. \A i \in Samples : f[i] = logfile[i] /\ TagsInFirst(i)' = TagsInFirst(i)
      <3>1. \A i \in Samples : i \in 1..n /\ i \in 0..n
        BY <2>4 DEF Samples
      <3>2. QED
        BY <2>5, <3>1
    <2>9. QED
      BY <2>1, <2>7, <2>8, SampleStays
  <1>3. CASE LogSample
    BY <1>3, SampleLogged
  <1>4. logfile' = logfile \/ LogTag \/ LogSample
    BY DEF PipelineNext, ClientStep, ClientSends, Deliver, Mishap, RelayStep, StopLogging,
           Analyse, loggerVars, pipelineVars
  <1>5. QED
    BY <1>1, <1>2, <1>3, <1>4

LEMMA SamplesNumbered ==
  ASSUME ScriptsWellFormed
  PROVE  PipelineSpec => []SampleInv
  <1>1. PipelineInit => SampleInv
    <2> SUFFICES ASSUME PipelineInit PROVE SampleInv
      OBVIOUS
    <2>1. logfile = <<>>
      BY DEF PipelineInit
    <2>2. Samples = {}
      BY <2>1 DEF Samples
    <2>3. QED
      BY <2>2 DEF SampleInv
  <1>2. PipelineInv /\ PipelineInv' /\ SampleInv /\ [PipelineNext]_pipelineVars => SampleInv'
    BY SampleStep DEF PipelineInv
  <1>3. QED
    BY <1>1, <1>2, PipelineKept, PTL DEF PipelineSpec

\* What statstool has read of the samples.
LEMMA SampleRead ==
  ASSUME ScriptsWellFormed, PipelineInv
  PROVE  /\ \A i : i \in D!At("SAMPLE") <=> i \in Samples /\ i \in 1..Len(log)
         /\ \A i \in D!At("SAMPLE") : log[i].body.y = logfile[i].sample
  <1>1. ASSUME NEW i \in 1..Len(log)
        PROVE  /\ log[i].body.tag = "SAMPLE" <=> i \in Samples
               /\ i \in Samples => log[i].body.y = logfile[i].sample
    <2>1. i \in 1..Len(logfile)
      BY LogLengths DEF PipelineInv, ReadInv
    <2>2. PICK l \in LogLine : l = logfile[i]
      BY <2>1 DEF PipelineInv, FileInv
    <2>3. log[i].body = BodyOf(l) /\ l.sample \in Nat
      BY <2>2 DEF PipelineInv, ReadInv, LogLine
    <2>4. CASE l.sample > 0
      <3>1. i \in Samples
        BY <2>1, <2>2, <2>4 DEF Samples
      <3>2. BodyOf(l).tag = "SAMPLE" /\ BodyOf(l).y = l.sample
        BY <2>4 DEF BodyOf
      <3>3. QED
        BY <2>2, <2>3, <3>1, <3>2
    <2>5. CASE ~(l.sample > 0)
      <3>1. i \notin Samples /\ l.sample = 0
        BY <2>2, <2>3, <2>5 DEF Samples
      <3>2. PICK pos : Placed(pos)
        BY DEF PipelineInv, FileInv
      <3>3. PICK t \in 1..taken : l.datagram = tx[t]
        BY <2>1, <2>2, <3>1, <3>2 DEF Placed
      <3>4. PICK k \in 1..Len(sent) : tx[t] = sent[k]
        BY TakenSent DEF PipelineInv
      <3>5. Tag(l.datagram).tag \in SentTags
        BY <3>3, <3>4, TagKnown DEF PipelineInv
      <3>6. BodyOf(l).tag = Tag(l.datagram).tag
        BY <2>5 DEF BodyOf
      <3>7. QED
        BY <2>3, <3>1, <3>5, <3>6 DEF SentTags
    <2>6. QED
      BY <2>4, <2>5
  <1>2. \A i : i \in D!At("SAMPLE") <=> i \in 1..Len(log) /\ log[i].body.tag = "SAMPLE"
    BY DEF D!At
  <1>3. QED
    BY <1>1, <1>2

\* A run began before the line i of the test that ends at n, and has not ended since.
RunOpen(n, i) ==
  \E b \in D!RunBegins(n) :
    b < i /\ \A e \in D!At("TEST_RUN_END") : ~(b < e /\ e < i)

\* A sample is counted if and only if it was read when a run was open.
LEMMA CountedOpen ==
  ASSUME ScriptsWellFormed, PipelineInv, SampleInv, D!RunsReported,
         NEW n \in Nat, n = Len(log), Cardinality(D!RunBegins(n)) <= MaxTestRuns,
         NEW r, r = reports[Len(reports)], NEW i \in Samples
  PROVE  logfile[i].sample \in Counted(r) <=> i \in 1..n /\ i < n /\ RunOpen(n, i)
  <1>1. PICK v : v = logfile[i].sample
    OBVIOUS
  <1>2. PICK runs : runs = r.runs
    OBVIOUS
  <1>3. v \in Counted(r) <=> \E k \in 1..Len(runs) : \E p \in Range(runs[k].points) : p.y = v
    BY <1>2 DEF Counted
  <1>4. (\E k \in 1..Len(runs) : \E p \in D!Range(runs[k].points) : p.y = v) <=>
        \E j \in D!At("SAMPLE") :
           /\ j < n /\ log[j].body.y = v
           /\ \E b \in D!RunBegins(n) :
                b < j /\ \A e \in D!At("TEST_RUN_END") : ~(b < e /\ e < j)
    <2>1. MaxTestRuns \in Nat
      BY PipelineConstants
    <2>2. D!Cardinality(D!RunBegins(n)) <= MaxTestRuns
      BY SameCardinality
    <2>3. runs = reports[Len(reports)].runs
      BY <1>2
    <2>4. D!StatsConstants /\ D!BigConstant
      BY ToolConstants
    <2>5. D!ReadInRun(n, runs, v)
      BY ONLY D!RunsReported, n \in Nat, n = Len(log), <2>1, <2>2, <2>3, <2>4,
              D!SamplesCounted
    <2>6. QED
      BY ONLY <2>5 DEF D!ReadInRun
  <1>5. \A f : Range(f) = D!Range(f)
    BY DEF Range, D!Range
  <1>6. v \in Counted(r) <=> \E j \in D!At("SAMPLE") : j < n /\ log[j].body.y = v /\ RunOpen(n, j)
    BY <1>3, <1>4, <1>5 DEF RunOpen
  <1>7. \A j \in D!At("SAMPLE") : log[j].body.y = v <=> j = i
    BY <1>1, SampleRead DEF SampleInv
  <1>8. i \in D!At("SAMPLE") <=> i \in 1..n
    BY SampleRead
  <1>9. QED
    BY <1>1, <1>6, <1>7, <1>8

\* A sample that was taken when the last tag of the log was the last one sent was taken
\* within a run if and only if a run was open in the log.
LEMMA OpenWithin ==
  ASSUME ScriptsWellFormed, PipelineInv, SampleInv, S!JustReported,
         NEW pos, Placed(pos), NEW s, NEW n, NEW o, NEW z, Section(pos, s, n, o, z),
         NEW c, SentWhole(o, z, c),
         NEW i \in Samples, s <= i, i < n, logfile[i].current
  PROVE  RunOpen(n, i) <=> WithinRun(logfile[i].sent)
  <1>1. /\ o \in Nat /\ z \in Nat /\ o < z /\ c \in Int /\ n \in Nat /\ n = Len(log)
        /\ o \in 0..(z - 1) /\ z \in 1..taken
    BY SectionIs DEF SentWhole, Section
  <1>2. PICK t \in 1..taken, m \in 1..Len(sent) :
          t = TagsInFirst(i) /\ m = logfile[i].sent /\ tx[t] = sent[m]
    BY DEF SampleInv
  <1>3. taken \in Nat /\ i \in 1..n /\ i \in 0..Len(logfile)
    BY <1>1, LogLengths DEF PipelineInv, ReadInv, PathInv, Samples
  <1>4. \A u \in 1..taken : u <= t <=> pos[u] <= i
    BY <1>2, <1>3 DEF Placed
  <1>5. log[i].body.tag = "SAMPLE"
    BY <1>1, <1>3, SampleRead DEF D!At
  <1>6. \A u \in (o + 1)..z : /\ u \in 1..taken /\ pos[u] # i /\ pos[u] \in Nat
                              /\ u <= t <=> pos[u] < i
    <2> SUFFICES ASSUME NEW u \in (o + 1)..z
                 PROVE  /\ u \in 1..taken /\ pos[u] # i /\ pos[u] \in Nat
                        /\ u <= t <=> pos[u] < i
      OBVIOUS
    <2>1. u \in 1..taken
      BY <1>1, <1>3
    <2>2. pos[u] \in Nat
      BY <2>1 DEF Placed
    <2>3. log[pos[u]].body.tag = Tag(tx[u]).tag /\ Tag(tx[u]).tag \in SentTags
      <3>1. log[pos[u]].body.tag = Tag(tx[u]).tag
        BY DEF Section
      <3>2. PICK k \in 1..Len(sent) : tx[u] = sent[k]
        BY <2>1, TakenSent DEF PipelineInv
      <3>3. QED
        BY <3>1, <3>2, TagKnown DEF PipelineInv
    <2>4. pos[u] # i
      BY <1>5, <2>3 DEF SentTags
    <2>5. QED
      BY <1>3, <1>4, <2>1, <2>2, <2>4
  <1>7. t < z
    <2>1. z \in (o + 1)..z
      BY <1>1
    <2>2. pos[z] = n
      BY <2>1 DEF Section
    <2>3. ~(z <= t)
      BY <1>1, <1>3, <1>6, <2>1, <2>2
    <2>4. QED
      BY <1>1, <1>2, <2>3
  <1>8. o <= t
    <2>1. o = TagsInFirst(s) /\ s \in 0..Len(logfile)
      BY <1>1, <1>3 DEF Section
    <2>2. o \in 1..taken => pos[o] <= s
      BY <1>1, <2>1 DEF Placed
    <2>3. o \in 1..taken => o <= t
      <3>1. o \in 1..taken => pos[o] \in Nat
        BY DEF Placed
      <3>2. s \in Nat
        BY <2>1
      <3>3. QED
        BY <1>3, <1>4, <2>2, <3>1, <3>2
    <2>4. QED
      BY <1>1, <1>2, <1>3, <2>3
  <1>9. RunOpen(n, i) <=>
          \E u \in (o + 1)..t :
            /\ Tag(tx[u]).tag = "TEST_RUN_BEGIN"
            /\ \A v \in (u + 1)..t : Tag(tx[v]).tag # "TEST_RUN_END"
    <2>1. ASSUME NEW u \in (o + 1)..t
          PROVE  (\A e \in D!At("TEST_RUN_END") : ~(pos[u] < e /\ e < i)) <=>
                 (\A v \in (u + 1)..t : Tag(tx[v]).tag # "TEST_RUN_END")
      <3>1. u \in (o + 1)..z
        BY <1>1, <1>2, <1>7
      <3>2. ASSUME NEW v \in (u + 1)..t, Tag(tx[v]).tag = "TEST_RUN_END"
            PROVE  \E e \in D!At("TEST_RUN_END") : pos[u] < e /\ e < i
        <4>1. v \in (o + 1)..z /\ u < v /\ v <= t
          BY <1>1, <1>2, <1>7
        <4>2. pos[u] < pos[v] /\ pos[v] < i /\ log[pos[v]].body.tag = "TEST_RUN_END"
          BY <1>6, <3>1, <3>2, <4>1 DEF Section
        <4>3. pos[v] \in 1..Len(log)
          <5>1. pos[v] \in (s + 1)..n /\ s \in 0..(n - 1)
            BY <4>1 DEF Section
          <5>2. pos[v] \in 1..n
            BY ONLY <1>1, <5>1
          <5>3. QED
            BY <1>1, <5>2
        <4>4. QED
          BY <4>2, <4>3 DEF D!At
      <3>3. ASSUME NEW e \in D!At("TEST_RUN_END"), pos[u] < e, e < i
            PROVE  \E v \in (u + 1)..t : Tag(tx[v]).tag = "TEST_RUN_END"
        <4>1. e \in 1..n /\ log[e].body.tag = "TEST_RUN_END"
          BY <1>1 DEF D!At
        <4>2. pos[u] \in (s + 1)..n /\ s \in Nat
          BY <3>1 DEF Section
        <4>3. e \in (s + 1)..n
          BY <1>1, <3>3, <4>1, <4>2
        <4>4. PICK v \in (o + 1)..z : pos[v] = e
          BY <4>1, <4>3 DEF Section
        <4>5. Tag(tx[v]).tag = "TEST_RUN_END"
          BY <4>1, <4>4 DEF Section
        <4>6. u < v /\ v <= t
          BY <1>6, <3>1, <3>3, <4>4 DEF Section
        <4>7. v \in (u + 1)..t
          BY <1>1, <1>2, <4>6
        <4>8. QED
          BY <4>5, <4>7
      <3>4. QED
        BY <3>2, <3>3
    <2>2. \A j : j \in D!RunBegins(n) <=>
                   \E u \in (o + 1)..z : pos[u] = j /\ Tag(tx[u]).tag = "TEST_RUN_BEGIN"
      BY RunsCounted
    <2>3. \A u \in (o + 1)..z : pos[u] < i <=> u \in (o + 1)..t
      BY <1>1, <1>2, <1>6
    <2>4. \A u \in (o + 1)..t : u \in (o + 1)..z
      BY <1>1, <1>2, <1>7
    <2>5. QED
      BY <2>1, <2>2, <2>3, <2>4 DEF RunOpen
  <1>10. CASE t = o
    <2>1. (o + 1)..t = {}
      BY <1>1, <1>10
    <2>2. SentTag(m) = "TEST_END"
      BY <1>1, <1>2, <1>10 DEF Section, SentTag
    <2>3. ~WithinRun(m)
      BY <1>2, <2>2 DEF WithinRun
    <2>4. QED
      BY <1>2, <1>9, <2>1, <2>3
  <1>11. CASE t # o
    <2>1. t \in (o + 1)..z
      BY <1>1, <1>2, <1>7, <1>8, <1>11
    <2>2. t + c \in 1..Len(sent) /\ sent[t + c] = tx[t]
      BY <2>1 DEF SentWhole
    <2>3. m = t + c
      BY <1>2, <2>2, PlaceOrder DEF PipelineInv
    <2>4. ASSUME NEW u \in (o + 1)..t, Tag(tx[u]).tag = "TEST_RUN_BEGIN",
                 \A v \in (u + 1)..t : Tag(tx[v]).tag # "TEST_RUN_END"
          PROVE  WithinRun(m)
      <3>1. PICK b \in 1..Len(sent) : b = u + c /\ SentTag(b) = "TEST_RUN_BEGIN"
        <4>1. u \in (o + 1)..z
          BY <1>1, <1>2, <1>7
        <4>2. QED
          BY <2>4, <4>1 DEF SentWhole, SentTag
      <3>2. b \in 1..m
        BY <1>1, <1>2, <2>3, <3>1
      <3>3. ASSUME NEW e \in b..m PROVE SentTag(e) \notin {"TEST_RUN_END", "TEST_END"}
        <4>1. PICK v \in u..t : v = e - c /\ v + c = e
          <5>1. u \in Int /\ t \in Int /\ b \in Int /\ m \in Int /\ c \in Int
            BY <1>1, <1>2, <2>3
          <5>2. b = u + c
            BY <3>1
          <5>3. e - c \in u..t /\ (e - c) + c = e
            BY ONLY <2>3, <5>1, <5>2, e \in b..m
          <5>4. QED
            BY <5>3
        <4>2. v \in (o + 1)..z /\ v # z
          BY <1>1, <1>2, <1>7, <4>1
        <4>3. SentTag(e) = Tag(tx[v]).tag
          BY <4>1, <4>2 DEF SentWhole, SentTag
        <4>4. Tag(tx[v]).tag # "TEST_END"
          BY <4>2 DEF Section
        <4>5. v = u \/ v \in (u + 1)..t
          BY <1>1, <1>2, <4>1
        <4>6. QED
          BY <2>4, <4>3, <4>4, <4>5
      <3>4. QED
        BY <3>1, <3>2, <3>3 DEF WithinRun
    <2>5. ASSUME WithinRun(m)
          PROVE  \E u \in (o + 1)..t :
                   /\ Tag(tx[u]).tag = "TEST_RUN_BEGIN"
                   /\ \A v \in (u + 1)..t : Tag(tx[v]).tag # "TEST_RUN_END"
      <3>1. PICK b \in 1..m : /\ SentTag(b) = "TEST_RUN_BEGIN"
                              /\ \A e \in b..m : SentTag(e) \notin {"TEST_RUN_END", "TEST_END"}
        BY <2>5 DEF WithinRun
      <3>2. b \in 1..Len(sent) /\ b <= t + c
        BY <1>2, <2>2, <2>3, <3>1
      <3>3. \A j \in b..(t + c - 1) : SentTag(j) # "TEST_END"
        <4>1. \A j \in b..(t + c - 1) : j \in b..m
          BY <1>1, <1>2, <2>3, <3>1
        <4>2. QED
          BY <3>1, <4>1
      <3>4. PICK u \in (o + 1)..t : u + c = b /\ Tag(tx[u]).tag = SentTag(b)
        BY <2>1, <3>2, <3>3, SentWithin
      <3>5. ASSUME NEW v \in (u + 1)..t PROVE Tag(tx[v]).tag # "TEST_RUN_END"
        <4>1. v \in (o + 1)..z
          BY <1>1, <1>2, <1>7
        <4>2. PICK e : e = v + c
          OBVIOUS
        <4>3. e \in b..m
          <5>1. t \in Int /\ b \in Int /\ u \in Int /\ v \in Int /\ u < v /\ v <= t
            BY <1>1, <1>2, <3>1
          <5>2. e \in Int /\ b <= e /\ e <= m
            BY ONLY <1>1, <2>3, <3>4, <4>2, <5>1
          <5>3. m \in Int
            BY <1>1, <2>3, <5>1
          <5>4. QED
            BY <5>1, <5>2, <5>3
        <4>4. SentTag(e) = Tag(tx[v]).tag
          BY <4>1, <4>2 DEF SentWhole, SentTag
        <4>5. QED
          BY <3>1, <4>3, <4>4
      <3>6. QED
        BY <3>1, <3>4, <3>5
    <2>6. QED
      BY <1>2, <1>9, <2>4, <2>5
  <1>12. QED
    BY <1>10, <1>11

LEMMA CountedAsTaken ==
  ASSUME ScriptsWellFormed, PipelineInv, SampleInv, D!LastReport
  PROVE  MeasuredExactly
  <1> SUFFICES ASSUME WholeTestReported, Cardinality(RunsIn(SectionTags)) <= MaxTestRuns,
                      NEW i \in Samples
               PROVE  LET l == logfile[i] IN
                      IF i \in SectionStart..Len(log)
                      THEN l.current => (l.sample \in Counted(Last(reports)) <=> WithinRun(l.sent))
                      ELSE l.sample \notin Counted(Last(reports))
    BY DEF MeasuredExactly
  <1>1. /\ S!JustReported /\ D!RunsReported
        /\ \E k \in 1..Len(sent) : Whole(SectionTags, k)
    BY WholeReport
  <1>2. PICK r : r = Last(reports) /\ r = reports[Len(reports)]
    BY WholeReport
  <1>3. PICK pos : Placed(pos)
    BY DEF PipelineInv, FileInv
  <1>4. PICK s, n, o, z : Section(pos, s, n, o, z)
    BY <1>1, <1>3, SectionLaid
  <1>5. PICK c : SentWhole(o, z, c)
    BY <1>1, <1>4, WholeSent
  <1>6. n \in Nat /\ n = Len(log) /\ s = SectionStart /\ s \in 0..(n - 1)
    BY <1>4 DEF Section
  <1>7. Cardinality(D!RunBegins(n)) <= MaxTestRuns
    BY <1>1, <1>4, RunsCounted
  <1>8. logfile[i].sample \in Counted(r) <=> i \in 1..n /\ i < n /\ RunOpen(n, i)
    BY <1>1, <1>2, <1>6, <1>7, CountedOpen
  <1>9. i \in Nat \ {0} /\ i # n
    <2>1. i \in Nat \ {0}
      <3>1. Len(logfile) \in Nat
        BY LogLengths DEF PipelineInv
      <3>2. QED
        BY <3>1 DEF Samples
    <2>2. n \in EndsRead
      BY <1>1, <1>6, SameStart
    <2>3. log[n].body.tag = "TEST_END" /\ n \in 1..Len(log)
      BY <2>2 DEF EndsRead
    <2>4. i # n
      BY <2>3, SampleRead DEF D!At
    <2>5. QED
      BY <2>1, <2>4
  <1>10. CASE i \in s..n
    <2>1. s <= i /\ i < n /\ i \in 1..n
      BY <1>6, <1>9, <1>10
    <2>2. ASSUME logfile[i].current PROVE RunOpen(n, i) <=> WithinRun(logfile[i].sent)
      BY <1>1, <1>3, <1>4, <1>5, <2>1, <2>2, OpenWithin
    <2>3. QED
      BY <1>2, <1>6, <1>8, <1>10, <2>1, <2>2
  <1>11. CASE i \notin s..n
    <2>1. ~(i \in 1..n /\ i < n) \/ i < s
      BY <1>6, <1>9, <1>11
    <2>2. i < s => ~RunOpen(n, i)
      <3>1. \A b \in D!RunBegins(n) : s < b /\ b \in Nat
        BY <1>1, <1>6, SameStart DEF D!RunBegins, D!At
      <3>2. \A b \in D!RunBegins(n) : ~(b < i /\ i < s)
        BY <1>6, <1>9, <3>1
      <3>3. QED
        BY <3>2 DEF RunOpen
    <2>3. QED
      BY <1>2, <1>6, <1>8, <1>11, <2>1, <2>2
  <1>12. QED
    BY <1>10, <1>11

\* The report of a test all of whose tags are logged counts exactly the samples taken
\* while the client was within a run, up to the samples that were taken while a tag was
\* on its way: for any scripts, interrupted or not, any network, relay, logger and log.
THEOREM SamplesAsTaken ==
  ASSUME ScriptsWellFormed
  PROVE  PipelineSpec => []MeasuredExactly
  <1>1. PipelineInv /\ SampleInv /\ D!LastReport => MeasuredExactly
    BY CountedAsTaken
  <1>2. D!Spec => []D!LastReport
    BY ToolConstants, D!StatsLastReport
  <1>3. QED
    BY <1>1, <1>2, PipelineKept, SamplesNumbered, PipelineRunsTool, PTL

=============================================================================
