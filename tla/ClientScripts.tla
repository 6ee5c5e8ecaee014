---------------------------- MODULE ClientScripts ---------------------------
(***************************************************************************)
(* The test scripts a client runs, as the sequences of steps they perform. *)
(*                                                                         *)
(* A step sends a tag to the log host with sendtag, waits for the machine  *)
(* to settle, does the work that is measured, starts or kills an           *)
(* application in the background, or changes settings of the machine.      *)
(* Flushing caches, installing packages and messages to the user are left  *)
(* out.  A test is named by the first word of its name and the rest of it; *)
(* run tags carry it too, where some scripts add a run number or an        *)
(* application's name nothing looks at.                                    *)
(*                                                                         *)
(* A power.d hook of pm-utils called with true or false turns the setting  *)
(* it stands for on or off, and pm-powersave calls all the hooks; both are *)
(* programs outside the repository.                                        *)
(***************************************************************************)
EXTENDS Integers, SequencesExt

CONSTANTS
  Iterations,  \* ITERATIONS_PER_TEST, from the environment or the script
  Thunderbird  \* the name of the process thunderbird runs as, which killall looks for

ASSUME ScriptConstants ==
  Iterations \in Nat /\ Thunderbird \in {"thunderbird", "thunderbird-bin"}

Name(w, r) == [word |-> w, rest |-> r]
Unnamed == Name("", "")

Step(o) == [op |-> o, tag |-> "", name |-> Unnamed, app |-> "", keys |-> {}, value |-> ""]

Send(t, n) == [Step("send") EXCEPT !.tag = t, !.name = n]
Other == Send("OTHER", Unnamed)
Settle == Step("settle")
Work == Step("work")
Start(a) == [Step("start") EXCEPT !.app = a]
Kill(a) == [Step("kill") EXCEPT !.app = a]
Set(ks, v) == [Step("set") EXCEPT !.keys = ks, !.value = v]

\* The power.d hooks the tests know of, and what calls them all.
Hooks == {"95hdparm-apm", "disable_wol", "intel-audio-powersave", "journal-commit",
          "laptop-mode", "pcie_aspm", "readahead", "sata_alpm", "sched-powersave",
          "wireless"}
PmPowersave(v) == Set(Hooks, v)

Client == <<Send("TEST_CLIENT", Unnamed)>>
Quit == <<Other>>

\* The steps s, n times over.
Times(n, s) == FlattenSeq([i \in 1..n |-> s])

\* Mutant: nothing closes the run.
RunNeverEnds(n, work) ==
  <<Send("TEST_RUN_BEGIN", n)>> \o work

\* A measured run: the work between its two tags.
Run(n, work) ==
  <<Send("TEST_RUN_BEGIN", n)>> \o work \o <<Send("TEST_RUN_END", n)>>

\* A test: its runs between its two tags.
Test(n, runs) == <<Send("TEST_BEGIN", n)>> \o runs \o <<Send("TEST_END", n)>>

\* do_test(): the client names itself, then Iterations settled runs; before is the
\* setting made first, after what the script still sends about each run.
do_test(n, before, after) ==
  Client
    \o Test(n, Times(Iterations, before \o <<Settle>> \o Run(n, <<Work>>) \o after))

-----------------------------------------------------------------------------
(* Scripts made of do_test() *)

IdleScript == do_test(Name("idle", ""), <<PmPowersave("true")>>, <<>>) \o Quit

MouseScript ==
  LET irqs == <<Other>>
  IN do_test(Name("Touchpad,", "no movement"), <<>>, irqs)
       \o do_test(Name("Touchpad,", "movement"), <<>>, irqs) \o Quit

MsrName(policy) == Name("MSR_IA32_ENERGY_PERF_BIAS=" \o policy, "")

\* Mutant: the policy is taken from a variable that is never set.
MsrTestUnset(policy) ==
  LET name == MsrName(policy)
  IN Client
       \o <<Send("TEST_BEGIN", name)>>
       \o Times(Iterations, <<Set({"epb"}, ""), Settle, Start("msr-test")>>
                              \o Run(name, <<Work>>) \o <<Kill("msr-test")>>)
       \o <<Send("TEST_END", Name(policy, ""))>>

\* The load runs in the background for as long as the script then sleeps, and has
\* ended by the time the script has slept five seconds more (MsrLoad).  The name
\* sent with TEST_END is the policy alone.
MsrTest(policy) ==
  LET name == MsrName(policy)
  IN Client
       \o <<Send("TEST_BEGIN", name)>>
       \o Times(Iterations, <<Set({"epb"}, policy), Settle, Start("msr-test")>>
                              \o Run(name, <<Work>>) \o <<Kill("msr-test")>>)
       \o <<Send("TEST_END", Name(policy, ""))>>

MsrPolicies == <<"performance", "powersave", "normal">>

MsrScript ==
  FlattenSeq([i \in 1..Len(MsrPolicies) |-> MsrTest(MsrPolicies[i])]) \o Quit

\* Scripts of one test, measured with power saving on.
PowersaveTest(n) == do_test(n, <<PmPowersave("true")>>, <<>>) \o Quit

BonnieScript == PowersaveTest(Name("bonnie++", ""))

TiobenchScript == PowersaveTest(Name("tiobench", ""))

DdReadScript == PowersaveTest(Name("dd", "read 16GB"))

DdWriteScript == PowersaveTest(Name("dd", "write 16GB"))

\* The drive's parameters are set once, before each test.
SpinParams == <<"-B 127 -S 12", "-B 127 -S 24", "-B 127 -S 36", "-B 127 -S 48",
                "-B 127 -S 60", "-B 127 -S 120">>

SpinScript ==
  FlattenSeq([i \in 1..Len(SpinParams) |->
    <<Set({"hdparm"}, SpinParams[i])>>
      \o do_test(Name("hdparm", SpinParams[i]), <<>>, <<Other>>)])
    \o Quit

-----------------------------------------------------------------------------
(* Scripts with a loop of their own *)

\* Without the file max_brightness (max = FALSE) no level is ever set, and level 0
\* is the one there is.
get_levels(levels, max) == IF max THEN levels ELSE SubSeq(levels, 1, 1)

set_level(l, max) == IF max THEN <<Set({"backlight"}, l)>> ELSE <<>>

\* The client names itself once, before the first level.
BacklightScript(all, max) ==
  LET levels == get_levels(all, max)
      Level(i) == Name("Brightness", levels[i])
  IN Client
       \o FlattenSeq([i \in 1..Len(levels) |->
            Test(Level(i), Times(Iterations, set_level(levels[i], max) \o <<Settle>>
                                               \o Run(Level(i), <<Work>>)))])
       \o Quit

\* Mutant: the tunable is left as it is.
PowertopMeasureUnset(t, s) ==
  LET n == Name(t, s)
  IN Test(n, Times(Iterations, <<Settle>> \o Run(n, <<Work>>)))

\* One of the two tests of a tunable.
PowertopMeasure(t, s) ==
  LET n == Name(t, s)
  IN Test(n, Times(Iterations, <<Set({t}, s), Settle>> \o Run(n, <<Work>>)))

\* All tunables are set to bad first.  Each is then toggled, to see whether that is
\* possible, measured both ways and set back, whatever the answer was.  The client
\* names itself once; there is no TEST_QUIT.
PowertopScript(tunables) ==
  <<Set(Range(tunables), "(Bad)")>>
    \o Client
    \o FlattenSeq([i \in 1..Len(tunables) |->
         <<Set({tunables[i]}, "(Good)"), Set({tunables[i]}, "(Bad)")>>
           \o PowertopMeasure(tunables[i], "(Bad)")
           \o PowertopMeasure(tunables[i], "(Good)")
           \o <<Other, Set({tunables[i]}, "(Bad)")>>])

GenericName == Name("Generic", "Applications")

\* killall, by each of the names thunderbird has had.
KillThunderbird == <<Kill("thunderbird-bin"), Kill("thunderbird")>>

\* The applications of generic-apps and of the run-apps tests of pm-tests, killed one
\* by one; killLast kills the last.
UseApps(killLast) ==
  <<Start("banshee"), Work, Start("firefox"), Work, Start(Thunderbird), Work,
    Kill("banshee"), Work, Kill("firefox"), Work>> \o killLast \o <<Work>>

AppsScript ==
  Client
    \o Test(GenericName, Times(Iterations, <<Settle>>
                                 \o Run(GenericName, UseApps(KillThunderbird))))
    \o Quit

\* The x32 scripts measure each application once, and send the memory statistics
\* after its run.
X32Run(work) == Run(GenericName, work) \o <<Other>>

\* Mutant: the machine is not left to settle.
X32Unsettled(runs) == Client \o Test(GenericName, runs) \o Quit

X32Script(runs) == Client \o Test(GenericName, <<Settle>> \o runs) \o Quit

X32DdScript == X32Script(X32Run(<<Work>>))

X32IdleScript == X32Script(X32Run(<<Work>>))

X32GlxgearsScript ==
  X32Script(X32Run(<<Start("glxgears"), Work>>) \o <<Kill("glxgears")>>)

X32Mp3Script ==
  X32Script(X32Run(<<Start("rhythmbox"), Work>>) \o <<Kill("rhythmbox")>>)

X32VlcScript == X32Script(X32Run(<<Start("vlc"), Work>>) \o <<Kill("vlc")>>)

\* Mutant: thunderbird is killed by its older name only.
X32LotsAppsKillsBin ==
  X32Script(X32Run(<<Start("soffice.bin"), Work>>)
              \o X32Run(<<Start("firefox"), Work>>)
              \o X32Run(<<Start(Thunderbird), Work>>)
              \o <<Kill("soffice.bin"), Kill("firefox"), Kill("thunderbird-bin")>>)

\* libreoffice runs as soffice.bin.
X32LotsAppsScript ==
  X32Script(X32Run(<<Start("soffice.bin"), Work>>)
              \o X32Run(<<Start("firefox"), Work>>)
              \o X32Run(<<Start(Thunderbird), Work>>)
              \o <<Kill("soffice.bin"), Kill("firefox")>> \o KillThunderbird)

-----------------------------------------------------------------------------
(* Scripts that run the executables of a directory *)

GenericTestsScript(tests) ==
  FlattenSeq([i \in 1..Len(tests) |-> do_test(Name(tests[i], ""), <<>>, <<>>)]) \o Quit

\* Mutant: the setting is not taken back.
PmHookKept(n, hook, v, work) == <<Set({hook}, v)>> \o Run(n, work)

\* Most inner scripts of pm-tests: a hook is called, the work measured, and the
\* hook called with false.
PmHook(n, hook, v, work) ==
  <<Set({hook}, v)>> \o Run(n, work) \o <<Set({hook}, "false")>>

\* The hook needs a configuration file, which is removed at the end.
PmSata(n, v) ==
  <<Set({"SATA_ALPM_ENABLE"}, "true")>> \o PmHook(n, "sata_alpm", v, <<Work>>)
    \o <<Set({"SATA_ALPM_ENABLE"}, "unset")>>

\* The hook is called at the end of the measured run, and again with false.
PmWol(n, v) ==
  Run(n, <<Work, Set({"disable_wol"}, v)>>) \o <<Set({"disable_wol"}, "false")>>

\* All hooks; nothing is taken back.
PmAll(n, v) == <<PmPowersave(v)>> \o Run(n, <<Work>>)

\* laptop-mode is then called without an argument, and changes nothing.
PmLaptopMake(n, v) ==
  <<PmPowersave(v)>> \o Run(n, <<Work>>) \o <<Set({"laptop-mode"}, "false")>>

\* The name of an inner script: test-wireless-enabled.sh calls run_test true.
PmName(t, v) ==
  Name("test-" \o t \o (IF v = "true" THEN "-enabled.sh" ELSE "-disabled.sh"), "")

\* The run-apps tests kill thunderbird by its older name alone.
PmUseApps == UseApps(<<Kill("thunderbird-bin")>>)

\* What the inner scripts do.
PmTest(t, v, ethtool) ==
  LET n == PmName(t, v)
  IN CASE t = "95hdparm-apm" -> PmHook(n, "95hdparm-apm", v, <<Work>>)
       [] t = "all-idle" \/ t = "all-make" -> PmAll(n, v)
       [] t = "disable-wol" -> IF ethtool THEN PmWol(n, v) ELSE <<>>
       [] t = "intel-audio-powersave" -> PmHook(n, "intel-audio-powersave", v, <<Work>>)
       [] t = "journal-commit" -> PmHook(n, "journal-commit", v, <<Work>>)
       [] t = "journal-commit-run-apps" -> PmHook(n, "journal-commit", v, PmUseApps)
       [] t = "laptop-mode-idle" -> PmHook(n, "laptop-mode", v, <<Work>>)
       [] t = "laptop-mode-make" -> PmLaptopMake(n, v)
       [] t = "pcie-aspm" -> PmHook(n, "pcie_aspm", v, <<Work>>)
       [] t = "readahead" -> PmHook(n, "readahead", v, <<Work>>)
       [] t = "readahead-run-apps" -> PmHook(n, "readahead", v, PmUseApps)
       [] t = "sata-alpm-idle" \/ t = "sata-alpm-make" -> PmSata(n, v)
       [] t = "sched-powersave" -> PmHook(n, "sched-powersave", v, <<Work>>)
       [] t = "wireless" -> PmHook(n, "wireless", v, <<Work>>)

\* In the order in which the shell lists them: each disabled, then enabled.
PmTests == <<"95hdparm-apm", "all-idle", "all-make", "disable-wol",
             "intel-audio-powersave", "journal-commit", "journal-commit-run-apps",
             "laptop-mode-idle", "laptop-mode-make", "pcie-aspm", "readahead",
             "readahead-run-apps", "sata-alpm-idle", "sata-alpm-make",
             "sched-powersave", "wireless">>

\* The hooks the tests are named after.
PmHooks ==
  {<<"95hdparm-apm", {"95hdparm-apm"}>>, <<"all-idle", Hooks>>, <<"all-make", Hooks>>,
   <<"disable-wol", {"disable_wol"}>>,
   <<"intel-audio-powersave", {"intel-audio-powersave"}>>,
   <<"journal-commit", {"journal-commit"}>>,
   <<"journal-commit-run-apps", {"journal-commit"}>>,
   <<"laptop-mode-idle", {"laptop-mode"}>>, <<"laptop-mode-make", {"laptop-mode"}>>,
   <<"pcie-aspm", {"pcie_aspm"}>>, <<"readahead", {"readahead"}>>,
   <<"readahead-run-apps", {"readahead"}>>, <<"sata-alpm-idle", {"sata_alpm"}>>,
   <<"sata-alpm-make", {"sata_alpm"}>>, <<"sched-powersave", {"sched-powersave"}>>,
   <<"wireless", {"wireless"}>>}

\* The run tags are sent by the inner script, which may decide not to measure
\* (disable-wol without ethtool); there is no TEST_QUIT.
PmTestsScript(tests, values, ethtool) ==
  LET One(t, v) == Client \o Test(PmName(t, v),
                     Times(Iterations, <<Settle>> \o PmTest(t, v, ethtool)))
  IN <<Set({"idle_dim_battery"}, "false")>>
       \o FlattenSeq([i \in 1..Len(tests) |->
            FlattenSeq([j \in 1..Len(values) |-> One(tests[i], values[j])])])

-----------------------------------------------------------------------------

Levels == <<"Level 0", "Level 1">>
Tunables == <<"Audio", "SATA">>

\* All of them, over short lists of levels, tunables and generic tests;
\* backlight_none is backlight-dimming on a machine without max_brightness, pm_tests
\* is pm-tests with all its tests, pm with two of them and no ethtool.
Programs ==
  [idle |-> IdleScript, mouse |-> MouseScript, msr |-> MsrScript,
   bonnie |-> BonnieScript, tiobench |-> TiobenchScript,
   dd_read |-> DdReadScript, dd_write |-> DdWriteScript, spin |-> SpinScript,
   backlight |-> BacklightScript(Levels, TRUE),
   backlight_none |-> BacklightScript(Levels, FALSE),
   powertop |-> PowertopScript(Tunables),
   apps |-> AppsScript,
   x32_dd |-> X32DdScript, x32_idle |-> X32IdleScript,
   x32_glxgears |-> X32GlxgearsScript, x32_mp3 |-> X32Mp3Script,
   x32_vlc |-> X32VlcScript, x32_lots |-> X32LotsAppsScript,
   generic |-> GenericTestsScript(<<"test-idle.sh", "test-memset.sh">>),
   pm |-> PmTestsScript(<<"disable-wol", "wireless">>, <<"true">>, FALSE),
   pm_tests |-> PmTestsScript(PmTests, <<"false", "true">>, TRUE)]

\* The scripts that look at the machine first and may exit before any tag.
Refusing == {"msr", "powertop"}

=============================================================================
