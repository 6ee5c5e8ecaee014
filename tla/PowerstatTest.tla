---------------------------- MODULE PowerstatTest ---------------------------
(***************************************************************************)
(* powerstat-measuring/test.sh: run_test() measures, for each of a list of *)
(* stress-ng options, a number of iterations with powerstat, then prints a *)
(* row for each and removes the files.                                     *)
(*                                                                         *)
(* stress-ng is started in the background of a subshell, so $! is empty    *)
(* and wait waits for nothing; it writes its figures to yaml-$I.log when   *)
(* it ends, which may be after powerstat has.  Both are external.          *)
(***************************************************************************)
EXTENDS Integers, FiniteSets

CONSTANTS
  StressTests,   \* calls of run_test
  TESTS          \* iterations of each (5)

ASSUME PowerstatConstants == StressTests \in Nat /\ TESTS \in Nat \ {0}

VARIABLES
  ps_pc,    \* "start", "measure", "rows", "remove" or "end"
  ps_test,  \* the call of run_test
  I,        \* the loop variable
  stress,   \* the stress-ng processes running: test, iteration
  yaml,     \* yaml-$I.log: the test whose figures it holds, 0 if there is none
  rows,     \* the rows printed: test, iteration, test whose figures it shows or 0
  late      \* history: the stress-ng processes that outlasted powerstat

powerstatVars == <<ps_pc, ps_test, I, stress, yaml, rows, late>>

Iters == 1..TESTS

PowerstatInit ==
  /\ ps_pc = "start" /\ ps_test = 1 /\ I = 1
  /\ stress = {} /\ yaml = [i \in Iters |-> 0] /\ rows = {} /\ late = {}

\* stress-ng in the background, powerstat in the foreground.
StartStress ==
  /\ ps_pc = "start"
  /\ stress' = stress \cup {<<ps_test, I>>}
  /\ ps_pc' = "measure"
  /\ UNCHANGED <<ps_test, I, yaml, rows, late>>

\* s was started before r.
Earlier(s, r) == s[1] < r[1] \/ (s[1] = r[1] /\ s[2] < r[2])

\* All run for the same DURATION: they end in the order they were started in.
StressEnds(s) ==
  /\ s \in stress
  /\ \A r \in stress : ~Earlier(r, s)
  /\ stress' = stress \ {s}
  /\ yaml' = [yaml EXCEPT ![s[2]] = s[1]]
  /\ UNCHANGED <<ps_pc, ps_test, I, rows, late>>

\* The next I of a loop, or the first of the loop that follows.
NextI(after) ==
  IF I < TESTS THEN I' = I + 1 /\ ps_pc' = ps_pc ELSE I' = 1 /\ ps_pc' = after

\* powerstat has ended, and wait returns at once.
PowerstatEnds ==
  /\ ps_pc = "measure"
  /\ late' = late \cup (stress \cap {<<ps_test, I>>})
  /\ I' = IF I < TESTS THEN I + 1 ELSE 1
  /\ ps_pc' = IF I < TESTS THEN "start" ELSE "rows"
  /\ UNCHANGED <<ps_test, stress, yaml, rows>>

\* The figures of an iteration; "0.0" if there are none.
PrintRow ==
  /\ ps_pc = "rows"
  /\ rows' = rows \cup {<<ps_test, I, yaml[I]>>}
  /\ NextI("remove")
  /\ UNCHANGED <<ps_test, stress, yaml, late>>

\* Mutant: the last file is left behind.
RemoveFilesButOne ==
  /\ ps_pc = "remove"
  /\ yaml' = IF I < TESTS THEN [yaml EXCEPT ![I] = 0] ELSE yaml
  /\ NextI(IF ps_test < StressTests THEN "start" ELSE "end")
  /\ ps_test' = IF I = TESTS /\ ps_test < StressTests THEN ps_test + 1 ELSE ps_test
  /\ UNCHANGED <<stress, rows, late>>

\* rm yaml-$I.log, which may not be there yet; after the last, the next run_test.
RemoveFiles ==
  /\ ps_pc = "remove"
  /\ yaml' = [yaml EXCEPT ![I] = 0]
  /\ NextI(IF ps_test < StressTests THEN "start" ELSE "end")
  /\ ps_test' = IF I = TESTS /\ ps_test < StressTests THEN ps_test + 1 ELSE ps_test
  /\ UNCHANGED <<stress, rows, late>>

PowerstatNext ==
  \/ StartStress \/ PowerstatEnds \/ PrintRow \/ RemoveFiles
  \/ \E s \in stress : StressEnds(s)

PowerstatSpec == PowerstatInit /\ [][PowerstatNext]_powerstatVars

-----------------------------------------------------------------------------

\* A row shows the figures of its own test and iteration, unless that stress-ng
\* outlasted powerstat.  Then it may show 0.0, or the figures of an earlier test
\* whose stress-ng also did and wrote its file after it had been looked for.
FiguresOwnOrLate ==
  \A r \in rows :
    \/ r[3] = r[1]
    \/ r[3] = 0 /\ <<r[1], r[2]>> \in late
    \/ <<r[1], r[2]>> \in late /\ <<r[3], r[2]>> \in late /\ r[3] < r[1]

=============================================================================
