-------------------------- MODULE TestClient_proofs -------------------------
(***************************************************************************)
(* From one script to any number of them: when the text of every script is *)
(* sound on its own, no sequence of sessions, interrupted anywhere, makes  *)
(* the machine run a test other than the one that is named.                *)
(***************************************************************************)
EXTENDS TestClient, TLAPS

ScriptsWellFormed == "none" \notin Scripts /\ \A s \in Scripts : WellFormed(Programs[s])
ScriptsKillApps == \A s \in Scripts : KillsItsApps(Programs[s], Leaves(s))
ScriptsSetFirst == \A s \in Scripts : SetsWhatItNames(Programs[s], Unset(s))
HooksTakenBack == "pm_tests" \in Scripts => TakesHooksBack(Programs["pm_tests"])

\* The script of a session, and its length.
LEMMA ProgramType ==
  ASSUME ScriptsWellFormed, script \in Scripts
  PROVE  /\ script # "none" /\ Program = Programs[script]
         /\ WellFormed(Program) /\ Len(Program) \in Nat
         /\ \A i \in 1..Len(Program) : Program[i] \in ScriptStep
  <1>1. script # "none" /\ Program = Programs[script]
    BY DEF ScriptsWellFormed, Program
  <1>2. WellFormed(Program)
    BY <1>1 DEF ScriptsWellFormed
  <1>3. Program \in Seq(ScriptStep)
    BY <1>2 DEF WellFormed
  <1>4. Len(Program) \in Nat /\ \A i \in 1..Len(Program) : Program[i] \in ScriptStep
    BY <1>3
  <1>5. QED
    BY <1>1, <1>2, <1>4

-----------------------------------------------------------------------------
(* Types *)

LEMMA TypeStart == ScriptsWellFormed /\ ClientInit => ClientTypeOK
  <1> SUFFICES ASSUME ScriptsWellFormed, ClientInit
               PROVE  ClientTypeOK
    OBVIOUS
  <1>1. "(Bad)" \in Values /\ "as found" \in Values
    BY DEF Values
  <1>2. settings \in [Keys -> Values]
    BY <1>1 DEF ClientInit
  <1>3. script = "none" /\ at = 0 /\ sessions = 0 /\ interrupts = 0 /\ apps = {}
    BY DEF ClientInit
  <1>4. sessions \in 0..MaxSessions /\ interrupts \in 0..MaxInterrupts
    BY <1>3, ClientConstants
  <1>5. QED
    BY <1>2, <1>3, <1>4 DEF ClientTypeOK

\* What a step of the script does.
LEMMA StepType ==
  ASSUME ScriptsWellFormed, ClientTypeOK, Running
  PROVE  /\ script \in Scripts /\ at + 1 \in 1..Len(Program) /\ step \in ScriptStep
         /\ step.op = "start" => step.app \in Apps
         /\ step.op = "set" => step.value \in Values
         /\ step.keys # {} => step.op = "set"
  <1>1. script \in Scripts
    BY DEF ClientTypeOK, Running
  <1>2. at + 1 \in 1..Len(Program)
    BY <1>1, ProgramType DEF ClientTypeOK, Running
  <1>3. QED
    BY <1>1, <1>2, ProgramType DEF WellFormed, step

LEMMA TypeStep ==
  ASSUME ScriptsWellFormed, ClientTypeOK, [ClientNext]_clientVars
  PROVE  ClientTypeOK'
  <1>1. ASSUME NEW s \in Scripts, StartScript(s)
        PROVE  ClientTypeOK'
    <2>1. script' = s /\ at' = 0 /\ apps' = apps /\ settings' = settings
          /\ interrupts' = interrupts /\ sessions' = sessions + 1 /\ sessions < MaxSessions
      BY <1>1 DEF StartScript
    <2>2. Program' = Programs[s] /\ Len(Programs[s]) \in Nat
      <3>1. Program' = Programs[s]
        BY <2>1 DEF ScriptsWellFormed, Program
      <3>2. Programs[s] \in Seq(ScriptStep)
        BY DEF ScriptsWellFormed, WellFormed
      <3>3. QED
        BY <3>1, <3>2
    <2>3. QED
      BY <2>1, <2>2, ClientConstants DEF ClientTypeOK
  <1>2. CASE Refuse \/ Finish
    BY <1>2 DEF Refuse, Finish, ClientTypeOK
  <1>3. CASE Interrupt
    BY <1>3, ClientConstants DEF Interrupt, ClientTypeOK
  <1>4. CASE LocalStep \/ SendTag
    <2>1. /\ Running /\ at' = at + 1 /\ script' = script
          /\ sessions' = sessions /\ interrupts' = interrupts
      BY <1>4 DEF LocalStep, SendTag
    <2>2. Program' = Program
      BY <2>1 DEF Program
    <2>3. at' \in Nat /\ at' <= Len(Program')
      BY <2>1, <2>2, StepType DEF ClientTypeOK
    <2>4. apps' \subseteq Apps
      <3>1. step.op = "start" => step.app \in Apps
        BY <2>1, StepType
      <3>2. QED
        BY <1>4, <3>1 DEF LocalStep, SendTag, ClientTypeOK
    <2>5. settings' \in [Keys -> Values]
      <3>1. step.op = "set" => step.value \in Values
        BY <2>1, StepType
      <3>2. QED
        BY <1>4, <3>1 DEF LocalStep, SendTag, ClientTypeOK
    <2>6. QED
      BY <2>1, <2>3, <2>4, <2>5 DEF ClientTypeOK
  <1>5. CASE UNCHANGED clientVars
    BY <1>5 DEF clientVars, ClientTypeOK, Program
  <1>6. QED
    BY <1>1, <1>2, <1>3, <1>4, <1>5 DEF ClientNext

\* The client is always at a step of the script it runs, or between two scripts, and
\* starts and sets nothing the model does not know of.
THEOREM ClientTypeCorrect ==
  ASSUME ScriptsWellFormed
  PROVE  ClientSpec => []ClientTypeOK
  BY TypeStart, TypeStep, PTL DEF ClientSpec

-----------------------------------------------------------------------------
(* Applications *)

\* Application a was started by the script of this session, which has not come to
\* killing it since.
Held(a) ==
  \E i \in 1..at :
    /\ StartsApp(Program, i, a)
    /\ \A j \in i..at : ~(Program[j].op = "kill" /\ Program[j].app = a)

\* An application that runs, if this session's script ever started it, was not killed
\* by it since; until a script is interrupted, it was started by this session's script
\* or is one that some script leaves.
AppsTracked ==
  \A a \in apps :
    /\ (script \in Scripts /\ \E i \in 1..at : StartsApp(Program, i, a)) => Held(a)
    /\ interrupts = 0 =>
         \/ \E s \in Scripts : a \in Leaves(s)
         \/ script \in Scripts /\ Held(a)

AppsInv == ClientTypeOK /\ AppsTracked

\* At a TEST_END, and at its end, a script has killed what it started, but for what it
\* leaves.
LEMMA NoneHeld ==
  ASSUME ScriptsWellFormed, ScriptsKillApps, AppsInv, script # "none",
         at = Len(Program) \/ (at > 0 /\ Program[at].tag = "TEST_END"),
         NEW a \in apps, Held(a)
  PROVE  a \in Leaves(script)
  <1> SUFFICES ASSUME a \notin Leaves(script)
               PROVE  FALSE
    OBVIOUS
  <1>1. PICK i \in 1..at :
          /\ StartsApp(Program, i, a)
          /\ \A j \in i..at : ~(Program[j].op = "kill" /\ Program[j].app = a)
    BY DEF Held
  <1>2. script \in Scripts /\ at \in Nat /\ at <= Len(Program) /\ a \in Apps
    BY DEF AppsInv, ClientTypeOK
  <1>3. PICK n \in Nat : n = Len(Program)
    BY <1>2, ProgramType
  <1>4. PICK p : p = Program /\ n = Len(p) /\ KillsItsApps(p, Leaves(script))
    BY <1>2, <1>3, ProgramType DEF ScriptsKillApps
  <1>5. PICK e \in i..(at + 1) : e \in i..(n + 1) /\ (e \in 1..n => p[e].tag = "TEST_END")
    <2>1. CASE at = n
      BY <1>2, <2>1
    <2>2. CASE at # n
      <3>1. p[at].tag = "TEST_END" /\ at \in i..(at + 1) /\ at \in i..(n + 1)
        BY <1>2, <1>3, <1>4, <2>2
      <3>2. QED
        BY <3>1
    <2>3. QED
      BY <2>1, <2>2
  <1>6. i \in 1..n
    BY <1>2, <1>3
  <1>7. PICK j \in i..(e - 1) : p[j].op = "kill" /\ p[j].app = a
    BY <1>1, <1>2, <1>4, <1>5, <1>6 DEF KillsItsApps
  <1>8. j \in i..at
    BY <1>2, <1>5, <1>7
  <1>9. QED
    BY <1>1, <1>4, <1>7, <1>8

\* A step of the script leaves what was held and not killed held.
LEMMA HeldStep ==
  ASSUME ScriptsWellFormed, AppsInv, Running, at' = at + 1, script' = script,
         NEW a, \/ step.op = "start" /\ step.app = a
                \/ Held(a) /\ ~(step.op = "kill" /\ step.app = a)
  PROVE  Held(a)'
  <1>1. script \in Scripts /\ at \in Nat
    BY StepType DEF AppsInv, ClientTypeOK
  <1>2. PICK p : p = Program /\ p = Program' /\ p[at + 1] = step
    BY DEF Program, step
  <1>3. CASE step.op = "start" /\ step.app = a
    <2>1. at + 1 \in 1..(at + 1) /\ \A j \in (at + 1)..(at + 1) : j = at + 1
      BY <1>1
    <2>2. p[at + 1].op = "start" /\ p[at + 1].app = a
      BY <1>2, <1>3
    <2>3. QED
      BY <1>2, <2>1, <2>2 DEF Held, StartsApp
  <1>4. CASE Held(a) /\ ~(step.op = "kill" /\ step.app = a)
    <2>1. PICK i \in 1..at :
            /\ StartsApp(p, i, a)
            /\ \A j \in i..at : ~(p[j].op = "kill" /\ p[j].app = a)
      BY <1>2, <1>4 DEF Held
    <2>2. i \in 1..(at + 1) /\ \A j \in i..(at + 1) : j \in i..at \/ j = at + 1
      BY <1>1
    <2>3. QED
      BY <1>2, <1>4, <2>1, <2>2 DEF Held
  <1>5. QED
    BY <1>3, <1>4

LEMMA AppsStep ==
  ASSUME ScriptsWellFormed, ScriptsKillApps, AppsInv, [ClientNext]_clientVars
  PROVE  AppsInv'
  <1>1. ClientTypeOK'
    BY TypeStep DEF AppsInv
  <1> SUFFICES AppsTracked'
    BY <1>1 DEF AppsInv
  <1>2. "none" \notin Scripts
    BY DEF ScriptsWellFormed
  <1>3. ASSUME NEW s \in Scripts, StartScript(s)
        PROVE  AppsTracked'
    <2>1. script = "none" /\ at' = 0 /\ apps' = apps /\ interrupts' = interrupts
      BY <1>3 DEF StartScript
    <2>2. \A a \in apps : interrupts = 0 => \E r \in Scripts : a \in Leaves(r)
      BY <1>2, <2>1 DEF AppsInv, AppsTracked
    <2>3. QED
      BY <2>1, <2>2 DEF AppsTracked
  <1>4. CASE Refuse
    <2>1. at = 0 /\ apps' = apps /\ interrupts' = interrupts /\ script' = "none"
      BY <1>4 DEF Refuse
    <2>2. \A a \in apps : ~Held(a)
      BY <2>1 DEF Held
    <2>3. \A a \in apps : interrupts = 0 => \E r \in Scripts : a \in Leaves(r)
      BY <2>2 DEF AppsInv, AppsTracked
    <2>4. QED
      BY <1>2, <2>1, <2>3 DEF AppsTracked
  <1>5. CASE Finish
    <2>1. /\ script # "none" /\ at = Len(Program) /\ script' = "none"
          /\ apps' = apps /\ interrupts' = interrupts
      BY <1>5 DEF Finish
    <2>2. script \in Scripts
      BY <2>1 DEF AppsInv, ClientTypeOK
    <2>3. \A a \in apps : interrupts = 0 => \E r \in Scripts : a \in Leaves(r)
      BY <2>1, <2>2, NoneHeld DEF AppsInv, AppsTracked
    <2>4. QED
      BY <1>2, <2>1, <2>3 DEF AppsTracked
  <1>6. CASE Interrupt
    <2>1. script' = "none" /\ interrupts' = interrupts + 1 /\ interrupts \in Nat
      BY <1>6, ClientConstants DEF Interrupt, AppsInv, ClientTypeOK
    <2>2. QED
      BY <1>2, <2>1 DEF AppsTracked
  <1>7. CASE LocalStep \/ SendTag
    <2>1. Running /\ at' = at + 1 /\ script' = script /\ interrupts' = interrupts
      BY <1>7 DEF LocalStep, SendTag
    <2>2. script \in Scripts /\ at \in Nat
      BY <2>1, StepType DEF AppsInv, ClientTypeOK
    <2>3. PICK p : p = Program /\ p = Program' /\ p[at + 1] = step
      BY <2>1 DEF Program, step
    <2>4. ASSUME NEW a \in apps'
          PROVE  \/ step.op = "start" /\ step.app = a
                 \/ a \in apps /\ ~(step.op = "kill" /\ step.app = a)
      BY <1>7, <2>4 DEF LocalStep, SendTag
    <2>5. ASSUME NEW a \in apps', \E i \in 1..(at + 1) : StartsApp(p, i, a)
          PROVE  Held(a)'
      <3>1. CASE step.op = "start" /\ step.app = a
        BY <2>1, <3>1, HeldStep
      <3>2. CASE a \in apps /\ ~(step.op = "kill" /\ step.app = a)
                   /\ ~(step.op = "start" /\ step.app = a)
        <4>1. PICK i \in 1..(at + 1) : StartsApp(p, i, a)
          BY <2>5
        <4>2. i \in 1..at
          BY <2>2, <2>3, <3>2, <4>1 DEF StartsApp
        <4>3. Held(a)
          BY <2>2, <2>3, <3>2, <4>1, <4>2 DEF AppsInv, AppsTracked
        <4>4. QED
          BY <2>1, <3>2, <4>3, HeldStep
      <3>3. QED
        BY <2>4, <3>1, <3>2
    <2>6. ASSUME NEW a \in apps', interrupts = 0
          PROVE  (\E s \in Scripts : a \in Leaves(s)) \/ Held(a)'
      <3>1. CASE step.op = "start" /\ step.app = a
        BY <2>1, <3>1, HeldStep
      <3>2. CASE a \in apps /\ ~(step.op = "kill" /\ step.app = a)
        <4>1. (\E s \in Scripts : a \in Leaves(s)) \/ Held(a)
          BY <2>6, <3>2 DEF AppsInv, AppsTracked
        <4>2. QED
          BY <2>1, <3>2, <4>1, HeldStep
      <3>3. QED
        BY <2>4, <3>1, <3>2
    <2>7. QED
      BY <2>1, <2>2, <2>3, <2>5, <2>6 DEF AppsTracked
  <1>8. CASE UNCHANGED clientVars
    BY <1>8 DEF clientVars, AppsInv, AppsTracked, Held, Program
  <1>9. QED
    BY <1>3, <1>4, <1>5, <1>6, <1>7, <1>8 DEF ClientNext

\* If every script kills what it starts before it ends a test, but for what it is known
\* to leave, no test of any session ends with an application running that its own
\* script started, whatever scripts were run before it and wherever they were
\* interrupted, and with one of another script only after an interruption.
THEOREM ClientAppsGone ==
  ASSUME ScriptsWellFormed, ScriptsKillApps
  PROVE  ClientSpec => []AppsGone
  <1>1. ClientInit => AppsInv
    BY TypeStart DEF AppsInv, AppsTracked, ClientInit
  <1>2. AppsInv /\ [ClientNext]_clientVars => AppsInv'
    BY AppsStep
  <1>3. AppsInv => AppsGone
    <2> SUFFICES ASSUME AppsInv, script # "none", at > 0, Program[at].tag = "TEST_END",
                        NEW a \in apps \ Leaves(script)
                 PROVE  /\ \A i \in 1..at : ~StartsApp(Program, i, a)
                        /\ interrupts = 0 => \E s \in Scripts : a \in Leaves(s)
      BY DEF AppsGone
    <2>1. script \in Scripts
      BY DEF AppsInv, ClientTypeOK
    <2>2. ~Held(a)
      BY NoneHeld
    <2>3. QED
      BY <2>1, <2>2 DEF AppsInv, AppsTracked
  <1>4. QED
    BY <1>1, <1>2, <1>3, PTL DEF ClientSpec

-----------------------------------------------------------------------------
(* Settings *)

\* What the script of this session set last is what the machine is set to, unless it
\* cannot be set; nothing else is known of the settings, which earlier sessions may
\* have left in any state.
SettingsTracked ==
  script \in Scripts =>
    \A i \in 1..at : \A k \in Keys \ Stuck :
      LastSets(Program, i, at, k) => settings[k] = Program[i].value

SettingsInv == ClientTypeOK /\ SettingsTracked

LEMMA SettingsStep ==
  ASSUME ScriptsWellFormed, SettingsInv, [ClientNext]_clientVars
  PROVE  SettingsInv'
  <1>1. ClientTypeOK'
    BY TypeStep DEF SettingsInv
  <1> SUFFICES SettingsTracked'
    BY <1>1 DEF SettingsInv
  <1>2. ASSUME NEW s \in Scripts, StartScript(s)
        PROVE  SettingsTracked'
    BY <1>2 DEF StartScript, SettingsTracked
  <1>3. CASE Refuse \/ Finish \/ Interrupt
    BY <1>3 DEF Refuse, Finish, Interrupt, SettingsTracked, ScriptsWellFormed
  <1>4. CASE LocalStep \/ SendTag
    <2>1. Running /\ at' = at + 1 /\ script' = script
      BY <1>4 DEF LocalStep, SendTag
    <2>2. /\ script \in Scripts /\ at \in Nat /\ step.keys \subseteq Keys
          /\ step.keys # {} => step.op = "set"
      BY <2>1, StepType DEF SettingsInv, ClientTypeOK, ScriptStep
    <2>3. PICK p : p = Program /\ p = Program' /\ p[at + 1] = step
      BY <2>1 DEF Program, step
    <2>4. \A k \in Keys \ Stuck :
            settings'[k] = IF k \in step.keys THEN step.value ELSE settings[k]
      BY <1>4, <2>2 DEF LocalStep, SendTag
    <2>5. ASSUME NEW i \in 1..(at + 1), NEW k \in Keys \ Stuck, LastSets(p, i, at + 1, k)
          PROVE  settings'[k] = p[i].value
      <3>1. CASE i = at + 1
        BY <2>3, <2>4, <2>5, <3>1 DEF LastSets
      <3>2. CASE i # at + 1
        <4>1. i \in 1..at /\ at + 1 \in (i + 1)..(at + 1)
          BY <2>2, <3>2
        <4>2. k \notin p[at + 1].keys /\ LastSets(p, i, at, k)
          BY <2>2, <2>5, <4>1 DEF LastSets
        <4>3. settings[k] = p[i].value
          BY <2>2, <2>3, <4>1, <4>2 DEF SettingsInv, SettingsTracked
        <4>4. QED
          BY <2>3, <2>4, <4>2, <4>3
      <3>3. QED
        BY <3>1, <3>2
    <2>6. QED
      BY <2>1, <2>3, <2>5 DEF SettingsTracked
  <1>5. CASE UNCHANGED clientVars
    BY <1>5 DEF clientVars, SettingsInv, SettingsTracked, Program
  <1>6. QED
    BY <1>2, <1>3, <1>4, <1>5 DEF ClientNext

LEMMA SettingsStart == ScriptsWellFormed /\ ClientInit => SettingsInv
  <1>1. ClientInit => script = "none"
    BY DEF ClientInit
  <1>2. QED
    BY <1>1, TypeStart DEF SettingsInv, SettingsTracked, ScriptsWellFormed

\* The client is within a run of the script's.
LEMMA MeasuringRun ==
  ASSUME ScriptsWellFormed, ClientTypeOK, NEW n \in Measuring
  PROVE  /\ script \in Scripts /\ Program = Programs[script]
         /\ \E b \in 1..Len(Program) :
              /\ at \in b..Len(Program) /\ n = Program[b].name /\ InRun(Program, b, at)
  <1>1. script \in Scripts
    BY DEF Measuring, ClientTypeOK
  <1>2. PICK b \in 1..at :
          /\ n = Program[b].name /\ Program[b].tag = "TEST_RUN_BEGIN"
          /\ \A e \in b..at : Program[e].tag # "TEST_RUN_END"
    BY DEF Measuring
  <1>3. Program = Programs[script] /\ Len(Program) \in Nat /\ at \in Nat /\ at <= Len(Program)
    BY <1>1, ProgramType DEF ClientTypeOK
  <1>4. b \in 1..Len(Program) /\ at \in b..Len(Program)
    BY <1>3
  <1>5. QED
    BY <1>1, <1>2, <1>3, <1>4 DEF InRun

\* If every script sets what its tests are named after before it measures them, a
\* test is measured under the setting of its name in every session, whatever scripts
\* ran before and wherever they were interrupted.
THEOREM ClientMeasuredAsNamed ==
  ASSUME ScriptsWellFormed, ScriptsSetFirst
  PROVE  ClientSpec => []MeasuredAsNamed
  <1>1. ClientInit => SettingsInv
    BY SettingsStart
  <1>2. SettingsInv /\ [ClientNext]_clientVars => SettingsInv'
    BY SettingsStep
  <1>3. SettingsInv => MeasuredAsNamed
    <2> SUFFICES ASSUME SettingsInv, NEW n \in Measuring, NEW s \in Says,
                        s[1] = n, s[2] \notin Stuck, s[2] \notin Unset(script)
                 PROVE  settings[s[2]] = s[3]
      BY DEF MeasuredAsNamed
    <2>1. ClientTypeOK
      BY DEF SettingsInv
    <2>2. PICK p : p = Program /\ script \in Scripts /\ p = Programs[script]
      BY <2>1, MeasuringRun
    <2>3. PICK b \in 1..Len(p) :
            at \in b..Len(p) /\ n = p[b].name /\ InRun(p, b, at)
      BY <2>1, <2>2, MeasuringRun
    <2>4. PICK i \in 1..at : LastSets(p, i, at, s[2]) /\ p[i].value = s[3]
      BY <2>2, <2>3 DEF ScriptsSetFirst, SetsWhatItNames
    <2>5. s[2] \in Keys
      <3>1. i \in 1..Len(p) /\ p[i] \in ScriptStep
        BY <2>2, <2>3, <2>4, ProgramType
      <3>2. QED
        BY <2>4, <3>1 DEF LastSets, ScriptStep
    <2>6. QED
      BY <2>2, <2>4, <2>5 DEF SettingsInv, SettingsTracked
  <1>4. QED
    BY <1>1, <1>2, <1>3, PTL DEF ClientSpec

\* If pm-tests turns off each hook it turned on, no test of another hook is measured
\* with it, in any session: only what pm-powersave turned on stays on.
THEOREM ClientHooksDisabled ==
  ASSUME ScriptsWellFormed, HooksTakenBack
  PROVE  ClientSpec => []HooksDisabledAfterwards
  <1>1. ClientInit => SettingsInv
    BY SettingsStart
  <1>2. SettingsInv /\ [ClientNext]_clientVars => SettingsInv'
    BY SettingsStep
  <1>3. SettingsInv => HooksDisabledAfterwards
    <2> SUFFICES ASSUME SettingsInv, script = "pm_tests", NEW n \in Measuring,
                        NEW k \in Hooks, settings[k] = "true", <<n, k, "true">> \notin Says,
                        NEW i \in 1..at, k \in Program[i].keys,
                        \A j \in (i + 1)..at : k \notin Program[j].keys
                 PROVE  Program[i] = PmPowersave("true")
      BY DEF HooksDisabledAfterwards
    <2>1. ClientTypeOK
      BY DEF SettingsInv
    <2>2. PICK p : p = Program /\ script \in Scripts /\ p = Programs[script]
      BY <2>1, MeasuringRun
    <2>3. PICK b \in 1..Len(p) :
            at \in b..Len(p) /\ n = p[b].name /\ InRun(p, b, at)
      BY <2>1, <2>2, MeasuringRun
    <2>4. LastSets(p, i, at, k)
      BY <2>2 DEF LastSets
    <2>5. k \in Keys \ Stuck
      BY ClientConstants DEF Keys, Hooks, Tunables, Range
    <2>6. p[i].value = "true"
      BY <2>2, <2>4, <2>5 DEF SettingsInv, SettingsTracked
    <2>7. k \in p[i].keys \cap Hooks
      BY <2>2
    <2>8. TakesHooksBack(p)
      BY <2>2 DEF HooksTakenBack
    <2>9. QED
      BY <2>2, <2>3, <2>4, <2>6, <2>7, <2>8 DEF TakesHooksBack
  <1>4. QED
    BY <1>1, <1>2, <1>3, PTL DEF ClientSpec

=============================================================================
