----------------------------- MODULE TestClient -----------------------------
(***************************************************************************)
(* A client machine on which somebody runs test scripts, one after the     *)
(* other; a script may be interrupted anywhere and another one started.    *)
(***************************************************************************)
EXTENDS ClientScripts, FiniteSets

CONSTANTS
  Scripts,        \* names of the scripts that are run
  Stuck,          \* the powertop tunables that stay bad whatever is asked for
  MaxInterrupts,  \* bound of the model: scripts interrupted
  MaxSessions     \* bound of the model: scripts started

ASSUME ClientConstants ==
  /\ Scripts \subseteq DOMAIN Programs
  /\ Stuck \subseteq Range(Tunables)
  /\ MaxInterrupts \in Nat /\ MaxSessions \in Nat

VARIABLES
  script,      \* the script of this session, "none" between sessions
  at,          \* steps of it done
  sessions,    \* scripts started so far
  interrupts,  \* scripts interrupted so far
  apps,        \* background applications running
  settings     \* settings of the machine, as last changed by a script

clientVars == <<script, at, sessions, interrupts, apps, settings>>

\* What the scripts start in the background, and kill, by the names of processes.
Apps == {"msr-test", "banshee", "firefox", "thunderbird", "thunderbird-bin",
         "glxgears", "rhythmbox", "vlc", "soffice.bin"}

\* What the scripts change.
Keys == Hooks \cup Range(Tunables)
          \cup {"epb", "hdparm", "backlight", "SATA_ALPM_ENABLE", "idle_dim_battery"}

Values == {"as found", "true", "false", "unset", "(Bad)", "(Good)"}
            \cup Range(MsrPolicies) \cup Range(SpinParams) \cup Range(Levels)

Program == IF script = "none" THEN <<>> ELSE Programs[script]
Running == script # "none" /\ at < Len(Program)
step == Program[at + 1]

-----------------------------------------------------------------------------

ClientInit ==
  /\ script = "none"
  /\ at = 0 /\ sessions = 0 /\ interrupts = 0
  /\ apps = {}
  /\ settings = [k \in Keys |-> IF k \in Stuck THEN "(Bad)" ELSE "as found"]

StartScript(s) ==
  /\ script = "none"
  /\ sessions < MaxSessions
  /\ sessions' = sessions + 1
  /\ script' = s /\ at' = 0
  /\ UNCHANGED <<interrupts, apps, settings>>

\* The checks at the top of the script fail: exit before any tag is sent.
Refuse ==
  /\ script \in Refusing /\ at = 0
  /\ script' = "none"
  /\ UNCHANGED <<at, sessions, interrupts, apps, settings>>

\* One step of the script that is not a tag.
LocalStep ==
  /\ Running /\ step.op # "send"
  /\ at' = at + 1
  /\ apps' = CASE step.op = "start" -> apps \cup {step.app}
               [] step.op = "kill" -> apps \ {step.app}
               [] OTHER -> apps
  /\ settings' = [k \in Keys |->
       IF step.op = "set" /\ k \in step.keys \ Stuck THEN step.value ELSE settings[k]]
  /\ UNCHANGED <<script, sessions, interrupts>>

\* sendtag is run; the script does not look at what becomes of the tag.
SendTag ==
  /\ Running /\ step.op = "send"
  /\ at' = at + 1
  /\ UNCHANGED <<script, sessions, interrupts, apps, settings>>

Finish ==
  /\ script # "none" /\ at = Len(Program)
  /\ script' = "none"
  /\ UNCHANGED <<at, sessions, interrupts, apps, settings>>

\* The script is interrupted; what it started in the background goes on, what it
\* set stays set.
Interrupt ==
  /\ Running
  /\ interrupts < MaxInterrupts
  /\ interrupts' = interrupts + 1
  /\ script' = "none"
  /\ UNCHANGED <<at, sessions, apps, settings>>

ClientNext ==
  \/ \E s \in Scripts : StartScript(s)
  \/ Refuse \/ LocalStep \/ SendTag \/ Finish \/ Interrupt

ClientSpec == ClientInit /\ [][ClientNext]_clientVars

-----------------------------------------------------------------------------

ClientTypeOK ==
  /\ script \in Scripts \cup {"none"}
  /\ at \in Nat
  /\ script # "none" => at <= Len(Program)
  /\ sessions \in 0..MaxSessions /\ interrupts \in 0..MaxInterrupts
  /\ apps \subseteq Apps
  /\ settings \in [Keys -> Values]

\* The tags statstool understands.
IsTag(i) == Program[i].op = "send" /\ Program[i].tag # "OTHER"

\* i is the place of the latest of them before step n.
LastTagBefore(i, n) == IsTag(i) /\ \A j \in (i + 1)..(n - 1) : ~IsTag(j)

\* What may come right after a tag in a script statstool can follow.
Follows ==
  [TEST_CLIENT    |-> {"TEST_BEGIN"},
   TEST_BEGIN     |-> {"TEST_RUN_BEGIN", "TEST_END"},
   TEST_RUN_BEGIN |-> {"TEST_RUN_END"},
   TEST_RUN_END   |-> {"TEST_RUN_BEGIN", "TEST_END"},
   TEST_END       |-> {"TEST_CLIENT", "TEST_BEGIN"}]

\* Every script sends its tags in an order that keeps runs within tests, one run
\* open at a time and none open when a test ends, and starts by naming the client.
TagOrder ==
  (script # "none" /\ at > 0 /\ IsTag(at)) =>
    /\ \A i \in 1..(at - 1) :
         LastTagBefore(i, at) => Program[at].tag \in Follows[Program[i].tag]
    /\ (\A i \in 1..(at - 1) : ~IsTag(i)) => Program[at].tag = "TEST_CLIENT"

\* What a script leaves running: the run-apps tests of pm-tests kill thunderbird as
\* "thunderbird-bin" only.
Leaves(s) == IF s = "pm_tests" THEN {Thunderbird} \ {"thunderbird-bin"} ELSE {}

\* The steps of p that start application a.
StartsApp(p, i, a) == p[i].op = "start" /\ p[i].app = a

\* At the end of a test nothing runs any more that the script has started, even if
\* an earlier script was interrupted, and nothing that another script started unless
\* one was interrupted: no test is measured under the load of the one before it.
\* The exception is thunderbird, which pm-tests leaves running where that is the
\* name of its process.
AppsGone ==
  (script # "none" /\ at > 0 /\ Program[at].tag = "TEST_END") =>
    \A a \in apps \ Leaves(script) :
      /\ \A i \in 1..at : ~StartsApp(Program, i, a)
      /\ interrupts = 0 => \E s \in Scripts : a \in Leaves(s)

\* "Default for tests is to wait SETTLE_DURATION before kicking of a new test":
\* the first run of a test, in every script, comes after a settling wait that
\* follows the end of the test before it.
SettledFirst ==
  (script # "none" /\ at > 0 /\ Program[at].tag = "TEST_RUN_BEGIN") =>
    \A i \in 1..(at - 1) :
      (LastTagBefore(i, at) /\ Program[i].tag = "TEST_BEGIN") =>
        \E j \in i..at : Program[j].op = "settle"

\* The tests that are named after a setting: name, setting, value.
Says ==
  {<<MsrName(p), "epb", p>> : p \in Range(MsrPolicies)}
    \cup {<<Name("hdparm", p), "hdparm", p>> : p \in Range(SpinParams)}
    \cup {<<Name("Brightness", l), "backlight", l>> : l \in Range(Levels)}
    \cup {<<Name(t, v), t, v>> : t \in Range(Tunables), v \in {"(Bad)", "(Good)"}}
    \cup UNION {{<<PmName(p[1], v), h, v>> : v \in {"true", "false"}, h \in p[2]} :
                   p \in PmHooks}

\* The names of the tests the client is within a run of: the last run tag the
\* script sent is that run's TEST_RUN_BEGIN.
Measuring ==
  LET p == Program
      Open(b) == /\ p[b].tag = "TEST_RUN_BEGIN"
                 /\ \A e \in b..at : p[e].tag # "TEST_RUN_END"
  IN IF script = "none" THEN {} ELSE {p[b].name : b \in {i \in 1..at : Open(i)}}

\* What a script does not set before it measures: disable-wol's hook is called when
\* the run is about to end, and a brightness cannot be set without max_brightness.
Unset(s) == {"disable_wol"} \cup (IF s = "backlight_none" THEN {"backlight"} ELSE {})

\* A test named after a setting is measured under that setting, from the first
\* moment of its runs to the last, whatever scripts ran before it and wherever
\* they were interrupted.  The exceptions are what Unset says and the powertop
\* tunables that cannot be set, which are measured as "(Good)" all the same after
\* "Ignoring, cannot set to Good".
MeasuredAsNamed ==
  \A n \in Measuring : \A s \in Says :
    (s[1] = n /\ s[2] \notin Stuck \cup Unset(script)) => settings[s[2]] = s[3]

\* "and disable afterwards": in pm-tests no test of one hook is measured with
\* another hook on that an earlier test of a single hook turned on.  What
\* pm-powersave turned on stays on: nothing takes that back.
HooksDisabledAfterwards ==
  script = "pm_tests" =>
    \A n \in Measuring : \A k \in Hooks :
      (settings[k] = "true" /\ <<n, k, "true">> \notin Says) =>
        \A i \in 1..at :
          (k \in Program[i].keys /\ \A j \in (i + 1)..at : k \notin Program[j].keys)
            => Program[i] = PmPowersave("true")

-----------------------------------------------------------------------------
(* What the text of one script says on its own, when it is not interrupted *)

ScriptStep ==
  [op : {"send", "settle", "work", "start", "kill", "set"}, tag : STRING,
   name : [word : STRING, rest : STRING], app : Apps \cup {""}, keys : SUBSET Keys,
   value : Values \cup {""}]

SentTags == {"TEST_CLIENT", "TEST_BEGIN", "TEST_END", "TEST_RUN_BEGIN", "TEST_RUN_END",
             "OTHER"}

\* Only "set" changes settings, and what it sets or starts is named; only "send"
\* sends tags, and tests have names.
WellFormed(p) ==
  /\ p \in Seq(ScriptStep)
  /\ \A i \in 1..Len(p) :
       /\ p[i].tag \in (IF p[i].op = "send" THEN SentTags ELSE {""})
       /\ p[i].tag = "TEST_BEGIN" => p[i].name # Unnamed
       /\ p[i].keys # {} => p[i].op = "set"
       /\ p[i].op = "set" => p[i].value \in Values
       /\ p[i].op = "start" => p[i].app \in Apps

\* A run is ended before the test ends, and before the script does.
EndsItsRuns(p) ==
  \A b \in 1..Len(p) : p[b].tag = "TEST_RUN_BEGIN" =>
    \E r \in b..Len(p) :
      p[r].tag = "TEST_RUN_END" /\ \A e \in b..r : p[e].tag # "TEST_END"

\* The client is named before a test ends.
NamesItsClient(p) ==
  \A e \in 1..Len(p) : p[e].tag = "TEST_END" =>
    \E c \in 1..e : p[c].tag = "TEST_CLIENT"

\* Runs and the ends of tests come within tests, and a test ends before the next one
\* begins, and before the script ends.
BracketsItsTests(p) ==
  \A i \in 1..Len(p) :
    /\ p[i].tag \in {"TEST_RUN_BEGIN", "TEST_END"} =>
         \E b \in 1..(i - 1) :
           p[b].tag = "TEST_BEGIN" /\ \A j \in b..(i - 1) : p[j].tag # "TEST_END"
    /\ p[i].tag = "TEST_BEGIN" =>
         \E e \in (i + 1)..Len(p) :
           p[e].tag = "TEST_END" /\ \A j \in (i + 1)..e : p[j].tag # "TEST_BEGIN"

\* What is started and not among left is killed before the next TEST_END, and before
\* the script ends.
KillsItsApps(p, left) ==
  \A a \in Apps \ left : \A i \in 1..Len(p) : \A e \in i..(Len(p) + 1) :
    (StartsApp(p, i, a) /\ (e \in 1..Len(p) => p[e].tag = "TEST_END")) =>
      \E j \in i..(e - 1) : p[j].op = "kill" /\ p[j].app = a

\* The steps b to e are within the run that begins at b.
InRun(p, b, e) ==
  p[b].tag = "TEST_RUN_BEGIN" /\ \A j \in b..e : p[j].tag # "TEST_RUN_END"

\* i is the last step up to e that changes setting k.
LastSets(p, i, e, k) == k \in p[i].keys /\ \A j \in (i + 1)..e : k \notin p[j].keys

\* Throughout a run of a test named after a setting, but one of the settings in
\* unset, the script itself has set it to that value last.
SetsWhatItNames(p, unset) ==
  \A b \in 1..Len(p) : \A e \in b..Len(p) : InRun(p, b, e) =>
    \A s \in Says : (s[1] = p[b].name /\ s[2] \notin unset) =>
      \E i \in 1..e : LastSets(p, i, e, s[2]) /\ p[i].value = s[3]

\* A hook that is on in the run of a test not named after it was turned on last by
\* pm-powersave.
TakesHooksBack(p) ==
  \A b \in 1..Len(p) : \A e \in b..Len(p) : InRun(p, b, e) =>
    \A i \in 1..e : \A k \in p[i].keys \cap Hooks :
      (LastSets(p, i, e, k) /\ p[i].value = "true"
        /\ <<p[b].name, k, "true">> \notin Says) => p[i] = PmPowersave("true")

=============================================================================
