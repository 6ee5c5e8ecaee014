------------------------------- MODULE MsrLoad ------------------------------
(***************************************************************************)
(* msr-energy-perf-bias: the load that is measured.  test.sh starts a      *)
(* number of msr-test processes in the background, measures for            *)
(* SLEEP_DURATION seconds, rests and starts the next round; it never waits *)
(* for them.  Each msr-test forks children that keep the processor busy,   *)
(* sleeps SLEEP_DURATION seconds itself, signals its children and exits.   *)
(*                                                                         *)
(* Tick is one unit of time.  The script's two sendtags, the forks of a    *)
(* load and a child that has been told to stop take up to SendTime,        *)
(* ForkTime and Slack units each, so that loads and script drift apart; a  *)
(* process whose sleep is over goes on before the next unit.               *)
(***************************************************************************)
EXTENDS Integers, FiniteSets

CONSTANTS
  Loads,           \* the msr-test processes of a round (8)
  Children,        \* children each of them forks (8)
  Rounds,          \* runs measured
  SleepDuration,   \* SLEEP_DURATION, of the script and of msr-test (60)
  Rest,            \* from the end of a run to the next load (5 + 3 + 15)
  SendTime,        \* how long sendtag may take
  ForkTime,        \* how long a load may take to fork its children
  Slack            \* how long a child may take to notice the signal

ASSUME MsrConstants ==
  /\ Children \in Nat /\ Rounds \in Nat
  /\ SleepDuration \in Nat /\ Rest \in Nat
  /\ SendTime \in Nat /\ ForkTime \in Nat /\ Slack \in Nat
  /\ ForkTime + Slack < Rest

VARIABLES
  msr_pc,   \* the script: "resting", "beginning", "measuring", "ending" or "ended"
  round,    \* the runs begun
  timer,    \* what is left of the script's sleep, or of the time for sendtag
  load,     \* each msr-test: where it is, its loop counter, what is left of its sleep
            \* or of the time for its forks
  child,    \* each child: "none", "running", "told" to stop or "gone"
  slack,    \* what is left of the slack of those told
  leftover, \* children of earlier rounds that were still there when a round began
  failed    \* history: a fork() failed

msrVars == <<msr_pc, round, timer, load, child, slack, leftover, failed>>

Kids == Loads \X (0..(Children - 1))
Busy == {k \in Kids : child[k] \in {"running", "told"}}

MsrInit ==
  /\ msr_pc = "resting" /\ round = 0 /\ timer = 0
  /\ load = [l \in Loads |-> [pc |-> "exited", i |-> 0, left |-> 0]]
  /\ child = [k \in Kids |-> "none"] /\ slack = [k \in Kids |-> 0]
  /\ leftover = 0 /\ failed = FALSE

\* The script starts the loads of a round, and sendtag to send TEST_RUN_BEGIN.
StartLoads ==
  /\ msr_pc = "resting" /\ timer = 0 /\ round < Rounds
  /\ msr_pc' = "beginning" /\ round' = round + 1 /\ timer' = SendTime
  /\ load' = [l \in Loads |-> [pc |-> "forking", i |-> 0, left |-> ForkTime]]
  /\ leftover' = leftover + Cardinality(Busy)
  /\ child' = [k \in Kids |-> "none"]
  /\ UNCHANGED <<slack, failed>>

\* sendtag is done; the script sleeps.
BeginSent ==
  /\ msr_pc = "beginning"
  /\ msr_pc' = "measuring" /\ timer' = SleepDuration
  /\ UNCHANGED <<round, load, child, slack, leftover, failed>>

\* sendtag is started to send TEST_RUN_END.
RunMeasured ==
  /\ msr_pc = "measuring" /\ timer = 0
  /\ msr_pc' = "ending" /\ timer' = SendTime
  /\ UNCHANGED <<round, load, child, slack, leftover, failed>>

\* sendtag is done; the script rests.
EndSent ==
  /\ msr_pc = "ending"
  /\ msr_pc' = "resting" /\ timer' = Rest
  /\ UNCHANGED <<round, load, child, slack, leftover, failed>>

MsrScriptEnds ==
  /\ msr_pc = "resting" /\ timer = 0 /\ round = Rounds
  /\ msr_pc' = "ended"
  /\ UNCHANGED <<round, timer, load, child, slack, leftover, failed>>

\* consume(): the child inherits the handler, which is set before the fork().
consume(l) ==
  /\ load[l].pc = "forking" /\ load[l].i < Children
  /\ child' = [child EXCEPT ![<<l, load[l].i>>] = "running"]
  /\ load' = [load EXCEPT ![l].i = @ + 1]
  /\ UNCHANGED <<msr_pc, round, timer, slack, leftover, failed>>

\* fork() fails: msr-test exits, and nobody will tell the children it has.
consumeFails(l) ==
  /\ load[l].pc = "forking" /\ load[l].i < Children
  /\ load' = [load EXCEPT ![l].pc = "exited"]
  /\ failed' = TRUE
  /\ UNCHANGED <<msr_pc, round, timer, child, slack, leftover>>

\* Mutant: msr-test sleeps only half as long.
SleepLoadHalf(l) ==
  /\ load[l].pc = "forking" /\ load[l].i = Children
  /\ load' = [load EXCEPT ![l] = [pc |-> "sleeping", i |-> 0, left |-> SleepDuration \div 2]]
  /\ UNCHANGED <<msr_pc, round, timer, child, slack, leftover, failed>>

\* sleep(duration), once all children are there.
SleepLoad(l) ==
  /\ load[l].pc = "forking" /\ load[l].i = Children
  /\ load' = [load EXCEPT ![l] = [pc |-> "sleeping", i |-> 0, left |-> SleepDuration]]
  /\ UNCHANGED <<msr_pc, round, timer, child, slack, leftover, failed>>

\* Mutant: the last child is not told.
KillChildAllButOne(l) ==
  /\ load[l].pc = "sleeping" /\ load[l].left = 0 /\ load[l].i < Children
  /\ child' = IF load[l].i = Children - 1 THEN child
              ELSE [child EXCEPT ![<<l, load[l].i>>] = "told"]
  /\ slack' = [slack EXCEPT ![<<l, load[l].i>>] = Slack]
  /\ load' = [load EXCEPT ![l].i = @ + 1]
  /\ UNCHANGED <<msr_pc, round, timer, leftover, failed>>

\* kill(pids[i], SIGUSR1): keep_running is false from now on.
KillChild(l) ==
  /\ load[l].pc = "sleeping" /\ load[l].left = 0 /\ load[l].i < Children
  /\ child' = [child EXCEPT ![<<l, load[l].i>>] = "told"]
  /\ slack' = [slack EXCEPT ![<<l, load[l].i>>] = Slack]
  /\ load' = [load EXCEPT ![l].i = @ + 1]
  /\ UNCHANGED <<msr_pc, round, timer, leftover, failed>>

\* exit(0), without waiting for the children.
LoadExits(l) ==
  /\ load[l].pc = "sleeping" /\ load[l].left = 0 /\ load[l].i = Children
  /\ load' = [load EXCEPT ![l].pc = "exited"]
  /\ UNCHANGED <<msr_pc, round, timer, child, slack, leftover, failed>>

\* The child gets to the test of its loop.
ChildStops(k) ==
  /\ child[k] = "told"
  /\ child' = [child EXCEPT ![k] = "gone"]
  /\ UNCHANGED <<msr_pc, round, timer, load, slack, leftover, failed>>

\* Something is due before the clock moves on.
Due ==
  \/ timer = 0
  \/ \E l \in Loads : load[l].pc # "exited" /\ load[l].left = 0
  \/ \E k \in Kids : child[k] = "told" /\ slack[k] = 0

Tick ==
  /\ msr_pc # "ended" /\ ~Due
  /\ timer' = timer - 1
  /\ load' = [l \in Loads |->
       IF load[l].pc = "exited" THEN load[l] ELSE [load[l] EXCEPT !.left = @ - 1]]
  /\ slack' = [k \in Kids |-> IF child[k] = "told" THEN slack[k] - 1 ELSE slack[k]]
  /\ UNCHANGED <<msr_pc, round, child, leftover, failed>>

MsrStep ==
  \/ StartLoads \/ BeginSent \/ RunMeasured \/ EndSent \/ MsrScriptEnds \/ Tick
  \/ \E l \in Loads : consume(l) \/ SleepLoad(l) \/ KillChild(l) \/ LoadExits(l)
  \/ \E k \in Kids : ChildStops(k)

MsrNext == MsrStep \/ \E l \in Loads : consumeFails(l)

MsrSpec == MsrInit /\ [][MsrNext]_msrVars

-----------------------------------------------------------------------------

\* No round is measured under the load of an earlier one, though nothing waits for
\* that load to end: its children are gone before the next load starts, unless a
\* fork() failed.
NoLoadCarriedOver == ~failed => leftover = 0

\* All children are at work all through a run, but for as long as their forks may take
\* at its start and sendtag, which the loads do not wait for, at its end; unless a
\* fork() failed.  The two sleeps drift apart by no more than that in any round.
LoadedThroughout ==
  (msr_pc = "measuring" /\ timer \in (SendTime + 1)..(SleepDuration - ForkTime - 1)
    /\ ~failed) => \A k \in Kids : child[k] = "running"

\* The script gets through all its runs, and the load it started stops, unless a
\* fork() failed.
LoadStops == <>(msr_pc = "ended" /\ (failed \/ Busy = {}))

=============================================================================
