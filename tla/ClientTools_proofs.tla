------------------------- MODULE ClientTools_proofs -------------------------
(***************************************************************************)
(* What two programs of the client leave behind: the Wake-on-LAN scripts,  *)
(* for every set of interfaces, whatever they support and in whatever      *)
(* order the loops go through them; powerstat-measuring, for every number  *)
(* of tests and of iterations, and however long each stress-ng outlasts    *)
(* its powerstat.                                                          *)
(***************************************************************************)
EXTENDS WakeOnLan, PowerstatTest, TLAPS

-----------------------------------------------------------------------------
(* The modes of the interfaces *)

WolTypeOK ==
  /\ supports \in [Eths -> SUBSET {"p", "g"}]
  /\ found \in [Eths -> WolModes] /\ wol \in [Eths -> WolModes]
  /\ wol_pc \in {"check", "set", "sleep", "restore", "done", "refused", "interrupted"}
  /\ wol_mode \in {"g", "d"}
  /\ support_g \in BOOLEAN
  /\ todo \subseteq Eths

\* An interface is found in a mode it can be put in, or off.
FoundPossible == \A e \in Eths : found[e] \in Accepts(e) \cup {"d"}

\* What eth1 said, once it was asked.  Without its support no mode is changed.
AskedOnce ==
  /\ wol_pc \in {"check", "refused"} => ~support_g
  /\ support_g => Asked \in Eths /\ supports[Asked] = {"g"} /\ saved = found[Asked]
  /\ ~support_g => wol = found

\* How far the loops are.  An interface keeps the mode that is measured only if it
\* can be put in it and has not been reached by the second loop.
LoopsSoFar ==
  \A e \in Eths :
    \/ wol[e] \in {found[e], "d"}
    \/ support_g /\ wol[e] = found[Asked]
    \/ /\ support_g /\ wol[e] = wol_mode /\ wol_mode \in Accepts(e)
       /\ wol_pc \in {"restore", "done"} => e \in todo

\* eth1 is back in its mode when the second loop has been at it.
AskedRestored ==
  /\ (support_g /\ wol_pc \in {"restore", "done"} /\ Asked \notin todo) =>
        wol[Asked] = found[Asked]
  /\ wol_pc = "done" => todo = {}

WolInv == WolTypeOK /\ FoundPossible /\ AskedOnce /\ LoopsSoFar /\ AskedRestored

-----------------------------------------------------------------------------

\* The machine before the script: nothing changed yet.
LEMMA WolStart == WolInit => WolInv
  BY WolConstants
  DEF WolInit, WolInv, WolTypeOK, FoundPossible, AskedOnce, LoopsSoFar, AskedRestored,
      WolModes, Accepts

\* The first loop puts an interface in the mode that is measured, if it takes it.
LEMMA WolSetMode ==
  ASSUME WolInv, NEW e \in Eths, SetMode(e)
  PROVE  WolInv'
  BY DEF WolInv, WolTypeOK, FoundPossible, AskedOnce, LoopsSoFar, AskedRestored,
         SetMode, Ethtool, Accepts, WolModes

\* The second loop gives every interface eth1's mode, if it takes it.  One that
\* refuses g does not take it from the first loop either; one that refuses d
\* takes no mode at all.  eth1 takes its own mode.
LEMMA WolRestore ==
  ASSUME WolInv, NEW e \in Eths, Restore(e)
  PROVE  WolInv'
  <1> USE DEF WolInv, Restore, Ethtool
  <1>1. WolTypeOK'
    BY DEF WolTypeOK, AskedOnce
  <1>2. FoundPossible' /\ AskedOnce'
    BY DEF WolTypeOK, FoundPossible, AskedOnce, Accepts
  <1>3. LoopsSoFar'
    <2> SUFFICES ASSUME NEW f \in Eths
                 PROVE  \/ wol'[f] \in {found[f], "d"}
                        \/ support_g /\ wol'[f] = found[Asked]
                        \/ /\ support_g /\ wol'[f] = wol_mode /\ wol_mode \in Accepts(f)
                           /\ f \in todo'
      BY DEF LoopsSoFar, Accepts
    <2>1. CASE f # e \/ ~support_g
      BY <2>1 DEF WolTypeOK, AskedOnce, LoopsSoFar
    <2>2. CASE f = e /\ support_g /\ saved \in Accepts(e)
      BY <2>2 DEF WolTypeOK, AskedOnce
    <2>3. CASE f = e /\ support_g /\ saved \notin Accepts(e)
      <3>1. saved \in {"g", "d"}
        BY <2>3 DEF AskedOnce, FoundPossible, Accepts
      <3>2. wol_mode \in Accepts(e) => wol_mode = "d"
        BY <2>3, <3>1 DEF WolTypeOK, Accepts
      <3>3. QED
        BY <2>3, <3>2 DEF LoopsSoFar, WolTypeOK
    <2>4. QED
      BY <2>1, <2>2, <2>3
  <1>4. AskedRestored'
    BY DEF AskedRestored, AskedOnce, FoundPossible, Accepts, WolTypeOK
  <1>5. QED
    BY <1>1, <1>2, <1>3, <1>4

\* Every step of the scripts preserves the invariant, and so does an interruption.
LEMMA WolStep == WolInv /\ [WolNext]_wolVars => WolInv'
  <1> SUFFICES ASSUME WolInv, [WolNext]_wolVars
               PROVE  WolInv'
    OBVIOUS
  <1> USE DEF WolInv, WolTypeOK, FoundPossible, AskedOnce, LoopsSoFar, AskedRestored, Accepts
  <1>1. CASE NotRoot
    BY <1>1 DEF NotRoot
  <1>2. CASE CheckAndSave
    BY <1>2 DEF CheckAndSave
  <1>3. CASE Sleep15
    BY <1>3 DEF Sleep15
  <1>4. CASE WakeUp
    BY <1>4 DEF WakeUp
  <1>5. CASE WolDone
    BY <1>5 DEF WolDone
  <1>6. CASE WolInterrupted
    BY <1>6 DEF WolInterrupted
  <1>7. ASSUME NEW e \in Eths, SetMode(e)
        PROVE  WolInv'
    BY <1>7, WolSetMode
  <1>8. ASSUME NEW e \in Eths, Restore(e)
        PROVE  WolInv'
    BY <1>8, WolRestore
  <1>9. CASE UNCHANGED wolVars
    BY <1>9 DEF wolVars
  <1>10. QED
    BY <1>1, <1>2, <1>3, <1>4, <1>5, <1>6, <1>7, <1>8, <1>9 DEF WolNext

\* What the scripts leave behind on eth1 and on the other interfaces, for every
\* set of interfaces: the comments on get_state and "Restore original state".
THEOREM WolLeavesBehind == WolSpec => []WolLeftBehind
  <1>1. WolInv => WolLeftBehind
    BY DEF WolInv, WolTypeOK, AskedOnce, LoopsSoFar, AskedRestored, WolLeftBehind
  <1>2. QED
    BY WolStart, WolStep, <1>1, PTL DEF WolSpec

-----------------------------------------------------------------------------
(* The figures of powerstat *)

PowerstatTypeOK ==
  /\ ps_pc \in {"start", "measure", "rows", "remove", "end"}
  /\ ps_test \in Nat \ {0} /\ I \in Iters
  /\ stress \subseteq (1..ps_test) \X Iters
  /\ yaml \in [Iters -> 0..ps_test]
  /\ rows \subseteq Nat \X Iters \X Nat
  /\ late \subseteq Nat \X Iters

\* A stress-ng that runs is that of the measurement in progress, or outlasted its
\* own.
StressOrLate ==
  \A s \in stress : s \in late \/ (ps_pc = "measure" /\ s = <<ps_test, I>>)

\* A file of an earlier test is there because its stress-ng wrote it after it had
\* been removed.
FilesLate ==
  \A i \in Iters :
    \/ yaml[i] = 0
    \/ <<yaml[i], i>> \in late
    \/ yaml[i] = ps_test /\ ps_pc # "end" /\ (ps_pc = "remove" => i >= I)

\* The iterations of this test that have been measured.
Measured ==
  CASE ps_pc \in {"start", "measure"} -> {i \in Iters : i < I}
    [] ps_pc = "rows" -> Iters
    [] OTHER -> {}

\* The file of an iteration is its own, and nothing that runs will write it.
Own(i) == yaml[i] = ps_test /\ \A s \in stress : s[2] # i

\* An iteration whose stress-ng did not outlast powerstat has its own file.
FilesOwn ==
  /\ \A i \in Measured : <<ps_test, i>> \in late \/ Own(i)
  /\ ps_pc = "measure" => <<ps_test, I>> \in stress \/ Own(I)

PowerstatInv ==
  PowerstatTypeOK /\ StressOrLate /\ FilesLate /\ FilesOwn /\ FiguresOwnOrLate

-----------------------------------------------------------------------------

LEMMA PowerstatStart == PowerstatInit => PowerstatInv
  BY PowerstatConstants
  DEF PowerstatInit, PowerstatInv, PowerstatTypeOK, StressOrLate, FilesLate, FilesOwn,
      Measured, FiguresOwnOrLate, Iters

\* A stress-ng ends.  None of an earlier test is left for the same iteration, or it
\* would have ended before: its file stays its own.
LEMMA PowerstatStressEnds ==
  ASSUME PowerstatInv, NEW s \in stress, StressEnds(s)
  PROVE  PowerstatInv'
  <1> USE DEF PowerstatInv
  <1>1. /\ s[1] \in 1..ps_test /\ s[2] \in Iters /\ s = <<s[1], s[2]>>
        /\ ps_test \in Nat /\ I \in Iters
    BY DEF PowerstatTypeOK
  <1>2. /\ \A r \in stress : ~Earlier(r, s)
        /\ stress' = stress \ {s} /\ yaml' = [yaml EXCEPT ![s[2]] = s[1]]
        /\ UNCHANGED <<ps_pc, ps_test, I, rows, late>>
    BY DEF StressEnds
  <1>3. PowerstatTypeOK'
    BY <1>1, <1>2 DEF PowerstatTypeOK, Iters
  <1>4. StressOrLate' /\ FiguresOwnOrLate'
    BY <1>2 DEF StressOrLate, FiguresOwnOrLate
  <1>5. FilesLate'
    <2>1. yaml'[s[2]] = s[1] /\ \A i \in Iters : i # s[2] => yaml'[i] = yaml[i]
      BY <1>1, <1>2 DEF PowerstatTypeOK
    <2>2. s \in late \/ (ps_pc = "measure" /\ s[1] = ps_test)
      BY <1>1 DEF StressOrLate
    <2>3. QED
      BY <1>1, <1>2, <2>1, <2>2 DEF FilesLate
  <1>6. ASSUME NEW i \in Iters, Own(i)
        PROVE  Own(i)'
    BY <1>1, <1>2, <1>6 DEF Own, PowerstatTypeOK
  <1>7. s = <<ps_test, I>> => Own(I)'
    <2> SUFFICES ASSUME s = <<ps_test, I>>, NEW r \in stress, r # s
                 PROVE  r[2] # I
      BY <1>1, <1>2 DEF Own, PowerstatTypeOK
    <2>1. /\ r[1] \in 1..ps_test /\ r = <<r[1], r[2]>>
          /\ s[1] = ps_test /\ s[2] = I
      BY DEF PowerstatTypeOK
    <2>2. ~(r[1] < ps_test)
      BY <1>2, <2>1 DEF Earlier
    <2>3. QED
      BY <1>1, <2>1, <2>2
  <1>8. FilesOwn'
    <2>1. Measured' = Measured /\ Measured \subseteq Iters
      BY <1>2 DEF Measured
    <2>2. QED
      BY <1>1, <1>2, <1>6, <1>7, <2>1 DEF FilesOwn
  <1>9. QED
    BY <1>3, <1>4, <1>5, <1>8

\* A row is printed: the file looked at is the iteration's own, missing, or was
\* written late by an earlier test.
LEMMA PowerstatPrintRow ==
  ASSUME PowerstatInv, PrintRow
  PROVE  PowerstatInv'
  <1> USE PowerstatConstants DEF PowerstatInv, PowerstatTypeOK, Iters
  <1>1. /\ ps_pc = "rows" /\ ps_pc' \in {"rows", "remove"} /\ I' \in Iters
        /\ ps_pc' = "remove" => I' = 1
        /\ rows' = rows \cup {<<ps_test, I, yaml[I]>>}
        /\ UNCHANGED <<ps_test, stress, yaml, late>>
    BY DEF PrintRow, NextI
  <1>2. PowerstatTypeOK' /\ StressOrLate' /\ FilesLate'
    <2>1. PowerstatTypeOK'
      <3>1. yaml[I] \in 0..ps_test /\ ps_test \in Nat
        OBVIOUS
      <3>2. rows' \subseteq Nat \X Iters \X Nat
        BY <1>1, <3>1
      <3>3. QED
        BY <1>1, <3>2
    <2>2. StressOrLate'
      BY <1>1 DEF StressOrLate
    <2>3. FilesLate'
      BY <1>1 DEF FilesLate
    <2>4. QED
      BY <2>1, <2>2, <2>3
  <1>3. FilesOwn'
    BY <1>1 DEF FilesOwn, Own, Measured
  <1>4. FiguresOwnOrLate'
    <2>1. yaml[I] = ps_test \/ <<ps_test, I>> \in late
      BY <1>1 DEF FilesOwn, Own, Measured
    <2>2. yaml[I] # ps_test /\ yaml[I] # 0 =>
            <<yaml[I], I>> \in late /\ yaml[I] < ps_test
      BY <1>1 DEF FilesLate
    <2> DEFINE r == <<ps_test, I, yaml[I]>>
    <2>3. \/ r[3] = r[1]
          \/ r[3] = 0 /\ <<r[1], r[2]>> \in late
          \/ <<r[1], r[2]>> \in late /\ <<r[3], r[2]>> \in late /\ r[3] < r[1]
      BY <2>1, <2>2
    <2>4. QED
      BY <1>1, <2>3 DEF FiguresOwnOrLate
  <1>5. QED
    BY <1>2, <1>3, <1>4

\* A file is removed.  When the last one is, those still there were written late.
LEMMA PowerstatRemove ==
  ASSUME PowerstatInv, RemoveFiles
  PROVE  PowerstatInv'
  <1> USE PowerstatConstants DEF PowerstatInv
  <1>1. /\ ps_pc = "remove" /\ I \in 1..TESTS /\ TESTS \in Nat
        /\ yaml' = [yaml EXCEPT ![I] = 0]
        /\ I < TESTS => I' = I + 1 /\ ps_pc' = "remove" /\ ps_test' = ps_test
        /\ I = TESTS => /\ I' = 1
                        /\ \/ ps_pc' = "start" /\ ps_test' = ps_test + 1
                           \/ ps_pc' = "end" /\ ps_test' = ps_test
        /\ UNCHANGED <<stress, rows, late>>
    BY DEF RemoveFiles, NextI, PowerstatTypeOK, Iters
  <1>2. ps_test \in Nat \ {0} /\ ps_test' \in Nat \ {0} /\ ps_test <= ps_test'
    BY <1>1 DEF PowerstatTypeOK, Iters
  <1>3. PowerstatTypeOK'
    BY <1>1, <1>2 DEF PowerstatTypeOK, Iters
  <1>4. StressOrLate' /\ FiguresOwnOrLate'
    BY <1>1 DEF StressOrLate, FiguresOwnOrLate
  <1>5. FilesLate'
    <2>1. /\ yaml'[I] = 0
          /\ \A i \in Iters : i # I => yaml'[i] = yaml[i]
      BY <1>1 DEF PowerstatTypeOK, Iters
    <2>2. \A i \in Iters : i < I => yaml[i] = 0 \/ <<yaml[i], i>> \in late
      BY <1>1 DEF FilesLate, Iters
    <2>3. CASE I < TESTS
      BY <1>1, <2>1, <2>3 DEF FilesLate, Iters
    <2>4. CASE I = TESTS
      BY <1>1, <2>1, <2>2, <2>4 DEF FilesLate, Iters
    <2>5. QED
      BY <1>1, <2>3, <2>4
  <1>6. FilesOwn'
    BY <1>1 DEF FilesOwn, Measured, Iters
  <1>7. QED
    BY <1>3, <1>4, <1>5, <1>6

LEMMA PowerstatStep == PowerstatInv /\ [PowerstatNext]_powerstatVars => PowerstatInv'
  <1> SUFFICES ASSUME PowerstatInv, [PowerstatNext]_powerstatVars
               PROVE  PowerstatInv'
    OBVIOUS
  <1> USE PowerstatConstants
  <1>1. CASE StartStress
    <2> USE DEF PowerstatInv
    <2>1. /\ ps_pc = "start" /\ ps_pc' = "measure"
          /\ stress' = stress \cup {<<ps_test, I>>}
          /\ UNCHANGED <<ps_test, I, yaml, rows, late>>
      BY <1>1 DEF StartStress
    <2>2. PowerstatTypeOK' /\ StressOrLate' /\ FilesLate' /\ FiguresOwnOrLate'
      BY <2>1 DEF PowerstatTypeOK, StressOrLate, FilesLate, FiguresOwnOrLate
    <2>3. FilesOwn'
      BY <2>1 DEF FilesOwn, Own, Measured, PowerstatTypeOK, Iters
    <2>4. QED
      BY <2>2, <2>3
  <1>2. CASE PowerstatEnds
    <2> USE DEF PowerstatInv
    <2>1. /\ ps_pc = "measure" /\ late' = late \cup (stress \cap {<<ps_test, I>>})
          /\ I < TESTS => I' = I + 1 /\ ps_pc' = "start"
          /\ ~(I < TESTS) => I' = 1 /\ ps_pc' = "rows"
          /\ UNCHANGED <<ps_test, stress, yaml, rows>>
      BY <1>2 DEF PowerstatEnds
    <2>2. I \in 1..TESTS /\ TESTS \in Nat
      BY DEF PowerstatTypeOK, Iters
    <2>3. PowerstatTypeOK'
      <3>1. late' \subseteq Nat \X Iters
        BY <2>1 DEF PowerstatTypeOK, Iters
      <3>2. I' \in Iters /\ ps_pc' \in {"start", "rows"}
        BY <2>1, <2>2 DEF Iters
      <3>3. QED
        BY <2>1, <3>1, <3>2 DEF PowerstatTypeOK
    <2>4. StressOrLate' /\ FilesLate' /\ FiguresOwnOrLate'
      <3>1. StressOrLate'
        BY <2>1 DEF StressOrLate
      <3>2. FilesLate'
        <4>1. late \subseteq late' /\ ps_pc' # "end" /\ ps_pc' # "remove"
          BY <2>1
        <4>2. QED
          BY <2>1, <4>1 DEF FilesLate
      <3>3. FiguresOwnOrLate'
        BY <2>1 DEF FiguresOwnOrLate
      <3>4. QED
        BY <3>1, <3>2, <3>3
    <2>5. Measured' = Measured \cup {I}
      BY <2>1, <2>2 DEF Measured, Iters
    <2>6. <<ps_test, I>> \in late' \/ Own(I)
      BY <2>1 DEF FilesOwn
    <2>7. \A i \in Measured' : <<ps_test, i>> \in late' \/ Own(i)
      BY <2>1, <2>5, <2>6 DEF FilesOwn
    <2>8. FilesOwn'
      BY <2>1, <2>2, <2>7 DEF FilesOwn, Own
    <2>9. QED
      BY <2>3, <2>4, <2>8
  <1>3. CASE PrintRow
    BY <1>3, PowerstatPrintRow
  <1>4. CASE RemoveFiles
    BY <1>4, PowerstatRemove
  <1>5. ASSUME NEW s \in stress, StressEnds(s)
        PROVE  PowerstatInv'
    BY <1>5, PowerstatStressEnds
  <1>6. CASE UNCHANGED powerstatVars
    BY <1>6 DEF powerstatVars, PowerstatInv, PowerstatTypeOK, StressOrLate, FilesLate,
                FilesOwn, Own, Measured, FiguresOwnOrLate
  <1>7. QED
    BY <1>1, <1>2, <1>3, <1>4, <1>5, <1>6 DEF PowerstatNext

\* Whose figures a row of run_test() shows, for every number of tests and
\* iterations: its own, or, after a stress-ng that outlasted powerstat, none or
\* those an earlier test's wrote late.
THEOREM PowerstatFigures == PowerstatSpec => []FiguresOwnOrLate
  <1>1. PowerstatInv => FiguresOwnOrLate
    BY DEF PowerstatInv
  <1>2. QED
    BY PowerstatStart, PowerstatStep, <1>1, PTL DEF PowerstatSpec

=============================================================================
