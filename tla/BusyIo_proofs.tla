---------------------------- MODULE BusyIo_proofs ---------------------------
(***************************************************************************)
(* The window busyio.stp counts in and the way of its lines through        *)
(* busyio.py, for every delay, every duration and every way the two        *)
(* programs interleave.                                                    *)
(***************************************************************************)
EXTENDS BusyIo, SequenceTheorems, TLAPS

\* The lines that are passed on, and the one that is not.
Passed == {"Starting", "Recording", "Report"}
Texts == Passed \cup {"SYNC"}

BusyTypeOK ==
  /\ duration \in Durations
  /\ stap \in {"loading", "running", "exited"}
  /\ begin_delay \in Int /\ end_after \in Int /\ second \in Nat
  /\ io_stat \subseteq Nat /\ happened \subseteq Nat
  /\ printed \in Seq(Texts) /\ pipe \in Seq(Texts)
  /\ stdout_open \in BOOLEAN /\ stderr_open \in BOOLEAN
  /\ shown \in Seq(Passed)
  /\ wrapper \in {"reading", "exited"}

\* Where the two countdowns are after so many turns: the delay runs down to -1
\* first, then the duration, if there is one, to 0.
Countdowns ==
  stap = "running" =>
    \/ /\ begin_delay \in 0..BeginDelay /\ end_after = duration
       /\ second = BeginDelay - begin_delay
       /\ duration = 0 => second = 0
    \/ /\ begin_delay = -1 /\ end_after \in 0..duration /\ duration > 0
       /\ second = BeginDelay + 1 + (duration - end_after)

\* What is counted is what happened since the delay was over.
Counted ==
  /\ stap = "loading" => io_stat = {} /\ happened = {} /\ second = 0
  /\ stap = "running" => /\ \A s \in happened : s <= second
                         /\ io_stat = {s \in happened : s >= BeginDelay}

WindowInv == BusyTypeOK /\ Countdowns /\ Counted /\ WindowCounted

\* The lines are either all unread, the line to act on first, or that one is gone
\* and the others are written or in the pipe.
LinesKept ==
  \/ /\ stap = "loading" /\ printed = <<>> /\ shown = <<>> /\ pipe = <<>>
  \/ /\ stap # "loading" /\ shown = <<>> /\ pipe = printed
     /\ \E s \in Seq(Passed) : printed = <<"SYNC">> \o s
  \/ /\ stap # "loading" /\ pipe \in Seq(Passed)
     /\ printed = <<"SYNC">> \o (shown \o pipe)

\* The end of stdout is seen when there is nothing to read and never will be.
EndSeen ==
  /\ ~stdout_open => stap = "exited" /\ pipe = <<>>
  /\ wrapper = "exited" => ~stdout_open

LinesInv == BusyTypeOK /\ LinesKept /\ EndSeen

-----------------------------------------------------------------------------
(* Facts about sequences of lines *)

\* What the timer prints are lines to pass on.
LEMMA PrintedType ==
  /\ Announced \in Seq(Passed)
  /\ Announced \o Reported \in Seq(Passed)
  <1>1. /\ <<>> \in Seq(Passed)
        /\ <<"Recording">> \in Seq(Passed) /\ <<"Report">> \in Seq(Passed)
    BY DEF Passed
  <1>2. Announced \in Seq(Passed) /\ Reported \in Seq(Passed)
    BY <1>1 DEF Announced, Reported
  <1>3. QED
    BY <1>2, ConcatProperties

\* Taking the first line of a sequence that begins with a given one.
LEMMA HeadOfConcat ==
  ASSUME NEW S, NEW h, NEW s \in Seq(S)
  PROVE  Head(<<h>> \o s) = h /\ Tail(<<h>> \o s) = s
  <1>1. PICK T : h \in T /\ s \in Seq(T)
    <2>1. s \in Seq(S \cup {h})
      BY SeqMonotonic
    <2>2. QED
      BY <2>1
  <1>2. /\ <<h>> \in Seq(T) /\ Len(<<h>>) = 1 /\ <<h>>[1] = h /\ Len(s) \in Nat
    BY <1>1, LenProperties
  <1>3. PICK c \in Seq(T) :
          /\ c = <<h>> \o s /\ Len(c) = 1 + Len(s)
          /\ \A i \in 1..Len(c) : c[i] = IF i <= 1 THEN <<h>>[i] ELSE s[i - 1]
    <2>1. PICK b \in Seq(T) : b = <<h>> /\ Len(b) = 1
      BY <1>2
    <2>2. /\ b \o s \in Seq(T) /\ Len(b \o s) = 1 + Len(s)
          /\ \A i \in 1..(1 + Len(s)) : (b \o s)[i] = IF i <= 1 THEN b[i] ELSE s[i - 1]
      BY <1>1, <2>1, ConcatProperties
    <2>3. QED
      BY <2>1, <2>2
  <1>4. c # <<>> /\ Head(c) = h /\ Tail(c) \in Seq(T) /\ Len(Tail(c)) = Len(s)
    BY <1>2, <1>3, HeadTailProperties, EmptySeq
  <1>5. ASSUME NEW i \in 1..Len(s)
        PROVE  Tail(c)[i] = s[i]
    <2>1. Tail(c)[i] = c[i + 1]
      BY <1>2, <1>3, <1>4, HeadTailProperties
    <2>2. QED
      BY <1>2, <1>3, <2>1
  <1>6. Tail(c) = s
    BY <1>1, <1>4, <1>5, SeqEqual
  <1>7. QED
    BY <1>3, <1>4, <1>6

\* A sequence is its first line and the rest.
LEMMA HeadThenTail ==
  ASSUME NEW S, NEW s \in Seq(S), s # <<>>
  PROVE  s = <<Head(s)>> \o Tail(s)
  <1>1. /\ Len(s) \in Nat \ {0} /\ Head(s) \in S /\ Tail(s) \in Seq(S)
        /\ Len(Tail(s)) = Len(s) - 1 /\ Head(s) = s[1]
    BY HeadTailProperties, EmptySeq
  <1>2. <<Head(s)>> \in Seq(S) /\ Len(<<Head(s)>>) = 1
    BY <1>1
  <1>3. /\ <<Head(s)>> \o Tail(s) \in Seq(S)
        /\ Len(<<Head(s)>> \o Tail(s)) = Len(s)
    BY <1>1, <1>2, ConcatProperties
  <1>4. ASSUME NEW i \in 1..Len(s)
        PROVE  s[i] = (<<Head(s)>> \o Tail(s))[i]
    <2>1. (<<Head(s)>> \o Tail(s))[i] = IF i <= 1 THEN <<Head(s)>>[i] ELSE Tail(s)[i - 1]
      BY <1>1, <1>2, ConcatProperties
    <2>2. i > 1 => Tail(s)[i - 1] = s[i]
      BY <1>1, HeadTailProperties
    <2>3. QED
      BY <2>1, <2>2, <1>1
  <1>5. QED
    BY <1>3, <1>4, SeqEqual

-----------------------------------------------------------------------------
(* The window *)

LEMMA WindowInit == BusyInit => WindowInv
  BY BusyConstants, EmptySeq
  DEF BusyInit, WindowInv, BusyTypeOK, Countdowns, Counted, WindowCounted

\* Every action keeps the types.
LEMMA BusyTypes == BusyTypeOK /\ [BusyNext]_busyVars => BusyTypeOK'
  <1> SUFFICES ASSUME BusyTypeOK, [BusyNext]_busyVars
               PROVE  BusyTypeOK'
    OBVIOUS
  <1> USE DEF BusyTypeOK
  <1>1. /\ <<"SYNC", "Starting">> \in Seq(Texts)
        /\ Announced \in Seq(Texts) /\ Announced \o Reported \in Seq(Texts)
    BY PrintedType, SeqMonotonic DEF Texts, Passed
  <1>2. \A x \in Seq(Texts) : printed \o x \in Seq(Texts) /\ pipe \o x \in Seq(Texts)
    BY ConcatProperties
  <1>3. duration \in Nat
    BY BusyConstants
  <1>4. CASE StapBegin
    BY <1>1, <1>2, <1>3, <1>4, BusyConstants DEF StapBegin, Printf, wrapperVars
  <1>5. CASE InodeIo
    BY <1>5 DEF InodeIo, wrapperVars
  <1>6. CASE TimerReports
    BY <1>1, <1>2, <1>6 DEF TimerReports, Printf, wrapperVars
  <1>7. CASE TimerCounts
    BY <1>1, <1>2, <1>7 DEF TimerCounts, Printf, wrapperVars
  <1>8. CASE ReadStdout
    <2>1. CASE pipe = <<>>
      BY <1>8, <2>1 DEF ReadStdout, stapVars
    <2>2. CASE pipe # <<>>
      <3>1. Head(pipe) \in Texts /\ Tail(pipe) \in Seq(Texts)
        BY <2>2, HeadTailProperties, EmptySeq
      <3>2. shown' \in Seq(Passed)
        <4>1. shown' = IF Head(pipe) = "SYNC" THEN shown ELSE Append(shown, Head(pipe))
          BY <1>8, <2>2 DEF ReadStdout
        <4>2. Head(pipe) # "SYNC" => Head(pipe) \in Passed
          BY <3>1 DEF Texts
        <4>3. QED
          BY <4>1, <4>2, AppendProperties
      <3>3. QED
        BY <1>8, <2>2, <3>1, <3>2 DEF ReadStdout, stapVars
    <2>3. QED
      BY <2>1, <2>2
  <1>9. CASE ReadStderr
    BY <1>9 DEF ReadStderr, stapVars
  <1>10. CASE WrapperExits
    BY <1>10 DEF WrapperExits, stapVars
  <1>11. CASE UNCHANGED busyVars
    BY <1>11 DEF busyVars
  <1>12. QED
    BY <1>4, <1>5, <1>6, <1>7, <1>8, <1>9, <1>10, <1>11 DEF BusyNext

\* The wrapper has no part in the counting.
LEMMA WindowStep == WindowInv /\ [BusyNext]_busyVars => WindowInv'
  <1> SUFFICES ASSUME WindowInv, [BusyNext]_busyVars
               PROVE  Countdowns' /\ Counted' /\ WindowCounted'
    BY BusyTypes DEF WindowInv
  <1> USE BusyConstants DEF Countdowns, Counted, WindowCounted
  <1>1. duration \in Nat /\ begin_delay \in Int /\ end_after \in Int /\ second \in Nat
        /\ happened \subseteq Nat /\ BusyTypeOK
    BY DEF WindowInv, BusyTypeOK
  <1>2. CASE StapBegin
    <2>1. /\ stap = "loading" /\ stap' = "running"
          /\ begin_delay' = BeginDelay /\ end_after' = duration
          /\ UNCHANGED <<duration, second, io_stat, happened>>
      BY <1>2 DEF StapBegin
    <2>2. io_stat = {} /\ happened = {} /\ second = 0
      BY <2>1 DEF WindowInv
    <2>3. QED
      BY <1>1, <2>1, <2>2
  <1>3. CASE InodeIo
    <2>1. stap = "running" /\ stap' = "running" /\ Countdowns'
      BY <1>3 DEF InodeIo, WindowInv
    <2>2. begin_delay <= 0 <=> second >= BeginDelay
      BY <2>1, <1>1 DEF WindowInv
    <2>3. Counted'
      BY <1>1, <1>3, <2>1, <2>2 DEF InodeIo, WindowInv
    <2>4. QED
      BY <2>1, <2>3
  <1>4. CASE TimerReports
    <2>1. /\ stap = "running" /\ stap' = "exited" /\ end_after = 0
          /\ io_stat' = io_stat /\ happened' = happened /\ duration' = duration
      BY <1>4 DEF TimerReports
    <2>2. /\ io_stat = {s \in happened : s >= BeginDelay}
          /\ \A s \in happened : s \in Nat /\ s <= second
      BY <1>1, <2>1 DEF WindowInv
    <2>3. CASE duration = 0
      <3>1. second = 0
        BY <1>1, <2>1, <2>3 DEF WindowInv
      <3>2. QED
        BY <2>1, <2>2, <2>3, <3>1
    <2>4. CASE duration > 0
      <3>1. second = BeginDelay + duration + 1
        BY <1>1, <2>1, <2>4 DEF WindowInv
      <3>2. QED
        <4>1. io_stat = happened \cap (BeginDelay..(BeginDelay + duration + 1))
          <5>1. BeginDelay \in Int /\ BeginDelay + duration + 1 \in Int
            BY <1>1
          <5>2. \A s \in happened :
                  s >= BeginDelay <=> s \in BeginDelay..(BeginDelay + duration + 1)
            BY <2>2, <3>1, <5>1
          <5>3. QED
            BY <2>2, <5>2, Zenon
        <4>2. QED
          <5>1. duration # 0
            BY <2>4, <1>1
          <5>2. WindowCounted'
            BY <2>1, <4>1, <5>1
          <5>3. QED
            BY <2>1, <5>2
    <2>5. QED
      BY <1>1, <2>3, <2>4
  <1>5. CASE TimerCounts
    <2>1. /\ stap = "running" /\ stap' = "running" /\ end_after > 0
          /\ second' = second + 1 /\ duration' = duration
          /\ io_stat' = io_stat /\ happened' = happened
          /\ begin_delay' = IF begin_delay > -1 THEN begin_delay - 1 ELSE begin_delay
          /\ end_after' = IF begin_delay > -1 THEN end_after ELSE end_after - 1
      BY <1>5 DEF TimerCounts
    <2>2. Countdowns'
      BY <1>1, <2>1 DEF WindowInv
    <2>3. Counted'
      BY <1>1, <2>1 DEF WindowInv
    <2>4. QED
      BY <2>1, <2>2, <2>3
  <1>6. CASE UNCHANGED stapVars
    BY <1>6 DEF stapVars, WindowInv
  <1>7. QED
    BY <1>2, <1>3, <1>4, <1>5, <1>6
    DEF BusyNext, ReadStdout, ReadStderr, WrapperExits, busyVars, stapVars

\* The report covers exactly the window WindowCounted names, for every delay the
\* wrapper may give and every duration: the two countdowns of probe timer.s(1).
THEOREM BusyWindow == BusySpec => []WindowCounted
  <1>1. WindowInv => WindowCounted
    BY DEF WindowInv
  <1>2. QED
    BY WindowInit, WindowStep, <1>1, PTL DEF BusySpec

-----------------------------------------------------------------------------
(* The lines *)

LEMMA LinesInit == BusyInit => LinesInv
  <1>1. BusyInit => BusyTypeOK
    BY WindowInit DEF WindowInv
  <1>2. QED
    BY <1>1 DEF BusyInit, LinesInv, LinesKept, EndSeen

\* Lines printed while the program runs come after all that are on their way.
LEMMA LinesPrinted ==
  ASSUME LinesInv, stap = "running", stap' # "loading",
         NEW x \in Seq(Passed), Printf(x), UNCHANGED wrapperVars
  PROVE  LinesKept' /\ EndSeen'
  <1> DEFINE sync == <<"SYNC">>
  <1>1. /\ printed' = printed \o x /\ pipe' = pipe \o x /\ shown' = shown
        /\ stdout_open' = stdout_open /\ wrapper' = wrapper
    BY DEF Printf, wrapperVars
  <1>2. /\ pipe \in Seq(Texts) /\ x \in Seq(Texts)
        /\ shown \in Seq(Passed) /\ shown \in Seq(Texts)
        /\ sync \in Seq(Texts) /\ shown \o pipe \in Seq(Texts)
    BY ConcatProperties, SeqMonotonic DEF LinesInv, BusyTypeOK, Texts, Passed
  <1>4. EndSeen'
    BY <1>1 DEF LinesInv, EndSeen
  <1>5. CASE shown = <<>> /\ pipe = printed /\ \E s \in Seq(Passed) : printed = sync \o s
    <2>1. PICK s \in Seq(Passed) : printed = sync \o s
      BY <1>5
    <2>2. s \in Seq(Texts)
      BY SeqMonotonic DEF Texts
    <2>3. printed \o x = sync \o (s \o x)
      <3>1. PICK p \in Seq(Texts) : p = sync
        BY <1>2
      <3>2. x \in Seq(Texts)
        BY <1>2
      <3>3. (p \o s) \o x = p \o (s \o x)
        BY <2>2, <3>2, ConcatAssociative
      <3>4. printed = p \o s
        BY <2>1, <3>1
      <3>5. QED
        BY <3>1, <3>3, <3>4
    <2>4. s \o x \in Seq(Passed)
      BY ConcatProperties
    <2>5. QED
      BY <1>1, <1>4, <1>5, <2>3, <2>4 DEF LinesKept
  <1>6. CASE pipe \in Seq(Passed) /\ printed = sync \o (shown \o pipe)
    <2>1. pipe \o x \in Seq(Passed)
      BY <1>6, ConcatProperties
    <2>2. printed \o x = sync \o ((shown \o pipe) \o x)
      <3>1. PICK p \in Seq(Texts), q \in Seq(Texts) : p = sync /\ q = shown \o pipe
        BY <1>2
      <3>2. x \in Seq(Texts)
        BY <1>2
      <3>3. (p \o q) \o x = p \o (q \o x)
        BY <3>2, ConcatAssociative
      <3>4. printed = p \o q
        BY <1>6, <3>1
      <3>5. QED
        BY <3>1, <3>3, <3>4
    <2>3. (shown \o pipe) \o x = shown \o (pipe \o x)
      <3>1. PICK p \in Seq(Texts), q \in Seq(Texts) : p = shown /\ q = pipe
        BY <1>2
      <3>2. x \in Seq(Texts)
        BY <1>2
      <3>3. (p \o q) \o x = p \o (q \o x)
        BY <3>2, ConcatAssociative
      <3>4. QED
        BY <3>1, <3>3
    <2>4. QED
      BY <1>1, <1>4, <2>1, <2>2, <2>3 DEF LinesKept
  <1>7. QED
    BY <1>5, <1>6 DEF LinesInv, LinesKept

\* readline() takes the first of the lines in the pipe; it is written unless it is the
\* one to act on.
LEMMA LinesRead ==
  ASSUME LinesInv, ReadStdout
  PROVE  LinesKept' /\ EndSeen'
  <1> DEFINE sync == <<"SYNC">>
  <1>1. /\ printed' = printed /\ stap' = stap /\ wrapper' = wrapper
        /\ wrapper = "reading"
    BY DEF ReadStdout, stapVars
  <1>2. pipe \in Seq(Texts) /\ shown \in Seq(Passed)
    BY DEF LinesInv, BusyTypeOK
  <1>3. CASE pipe = <<>>
    <2>1. stdout_open' = FALSE /\ pipe' = pipe /\ shown' = shown
      BY <1>3 DEF ReadStdout
    <2>2. stap = "exited"
      BY <1>3 DEF ReadStdout, StdoutReadable
    <2>3. QED
      BY <1>1, <1>3, <2>1, <2>2 DEF LinesInv, LinesKept, EndSeen
  <1>4. CASE pipe # <<>>
    <2>1. /\ shown' = IF Head(pipe) = "SYNC" THEN shown ELSE Append(shown, Head(pipe))
          /\ pipe' = Tail(pipe) /\ stdout_open' = stdout_open
      BY <1>4 DEF ReadStdout
    <2>2. EndSeen'
      BY <1>1, <1>4, <2>1 DEF LinesInv, EndSeen
    <2>3. CASE /\ stap # "loading" /\ shown = <<>> /\ pipe = printed
               /\ \E s \in Seq(Passed) : printed = sync \o s
      <3>1. PICK s \in Seq(Passed) : pipe = sync \o s
        BY <2>3
      <3>2. Head(pipe) = "SYNC" /\ Tail(pipe) = s
        BY <3>1, HeadOfConcat
      <3>3. shown' = <<>> /\ shown' \o Tail(pipe) = s
        <4>1. <<>> \o s = s
          BY ConcatEmptySeq
        <4>2. QED
          BY <2>1, <2>3, <3>2, <4>1
      <3>4. QED
        BY <1>1, <2>1, <2>2, <2>3, <3>1, <3>2, <3>3 DEF LinesKept
    <2>4. CASE /\ stap # "loading" /\ pipe \in Seq(Passed)
               /\ printed = sync \o (shown \o pipe)
      <3>1. Head(pipe) \in Passed /\ Tail(pipe) \in Seq(Passed)
        BY <1>4, <2>4, HeadTailProperties
      <3>2. shown' = Append(shown, Head(pipe))
        BY <2>1, <3>1 DEF Passed
      <3>3. Append(shown, Head(pipe)) = shown \o <<Head(pipe)>>
        BY <1>2, <3>1, AppendIsConcat
      <3>4. pipe = <<Head(pipe)>> \o Tail(pipe)
        BY <1>4, <2>4, HeadThenTail
      <3>5. (shown \o <<Head(pipe)>>) \o Tail(pipe) = shown \o (<<Head(pipe)>> \o Tail(pipe))
        <4>1. <<Head(pipe)>> \in Seq(Passed)
          BY <3>1
        <4>2. QED
          BY <1>2, <3>1, <4>1, ConcatAssociative
      <3>6. shown' \o Tail(pipe) = shown \o pipe
        BY <3>2, <3>3, <3>4, <3>5
      <3>7. QED
        BY <1>1, <2>1, <2>2, <2>4, <3>1, <3>6 DEF LinesKept
    <2>5. QED
      BY <1>4, <2>3, <2>4 DEF LinesInv, LinesKept
  <1>5. QED
    BY <1>3, <1>4

LEMMA LinesStep == LinesInv /\ [BusyNext]_busyVars => LinesInv'
  <1> SUFFICES ASSUME LinesInv, [BusyNext]_busyVars
               PROVE  LinesKept' /\ EndSeen'
    BY BusyTypes DEF LinesInv
  <1>1. CASE StapBegin
    <2> DEFINE first == <<"SYNC", "Starting">>
    <2>1. /\ stap = "loading" /\ stap' = "running"
          /\ printed' = printed \o first /\ pipe' = pipe \o first
          /\ shown' = shown
          /\ stdout_open' = stdout_open /\ wrapper' = wrapper
      BY <1>1 DEF StapBegin, Printf, wrapperVars
    <2>2. /\ printed = <<>> /\ shown = <<>> /\ pipe = <<>>
      BY <2>1 DEF LinesInv, LinesKept
    <2>3. first \in Seq(Texts) /\ <<"Starting">> \in Seq(Passed)
      BY DEF Texts, Passed
    <2>4. <<>> \o first = first
      BY <2>3, ConcatEmptySeq
    <2>5. first = <<"SYNC">> \o <<"Starting">>
      OBVIOUS
    <2>6. EndSeen'
      BY <2>1 DEF LinesInv, EndSeen
    <2>7. QED
      BY <2>1, <2>2, <2>3, <2>4, <2>5, <2>6 DEF LinesKept
  <1>2. CASE InodeIo
    BY <1>2 DEF InodeIo, LinesInv, LinesKept, EndSeen, wrapperVars
  <1>3. CASE TimerReports
    <2>1. PICK x \in Seq(Passed) : x = Announced \o Reported
      BY PrintedType
    <2>2. stap = "running" /\ stap' = "exited" /\ Printf(x) /\ UNCHANGED wrapperVars
      BY <1>3, <2>1 DEF TimerReports
    <2>3. QED
      BY <2>2, LinesPrinted
  <1>4. CASE TimerCounts
    <2>1. PICK x \in Seq(Passed) : x = Announced
      BY PrintedType
    <2>2. stap = "running" /\ stap' = "running" /\ Printf(x) /\ UNCHANGED wrapperVars
      BY <1>4, <2>1 DEF TimerCounts
    <2>3. QED
      BY <2>2, LinesPrinted
  <1>5. CASE ReadStdout
    BY <1>5, LinesRead
  <1>6. CASE ReadStderr
    BY <1>6 DEF ReadStderr, LinesInv, LinesKept, EndSeen, stapVars
  <1>7. CASE WrapperExits
    BY <1>7 DEF WrapperExits, LinesInv, LinesKept, EndSeen, stapVars
  <1>8. CASE UNCHANGED busyVars
    BY <1>8 DEF busyVars, LinesInv, LinesKept, EndSeen
  <1>9. QED
    BY <1>1, <1>2, <1>3, <1>4, <1>5, <1>6, <1>7, <1>8 DEF BusyNext

\* No line of busyio.stp is lost, doubled or put out of order between printf and
\* sys.stdout.write(), however the script and the wrapper interleave, and none is left
\* when the wrapper exits, even if stderr ended long before.
THEOREM BusyLines == BusySpec => []LinesInOrder
  <1>1. LinesInv => LinesInOrder
    <2> SUFFICES ASSUME LinesInv
                 PROVE  LinesInOrder
      OBVIOUS
    <2>1. \/ shown = <<>> /\ pipe = printed
          \/ <<"SYNC">> \o (shown \o (pipe)) = printed
      BY DEF LinesInv, LinesKept
    <2>2. QED
      BY <2>1 DEF LinesInv, EndSeen, LinesInOrder
  <1>2. QED
    BY LinesInit, LinesStep, <1>1, PTL DEF BusySpec

=============================================================================
