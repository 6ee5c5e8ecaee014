--------------------------- MODULE MsrLoad_proofs ---------------------------
(***************************************************************************)
(* The load of msr-energy-perf-bias is there all through a run and gone    *)
(* before the next, for every number of loads, children and rounds and all *)
(* durations, though the script never waits for it.                        *)
(***************************************************************************)
EXTENDS MsrLoad, FiniteSetTheorems, TLAPS

Js == 0..(Children - 1)

MsrTypeOK ==
  /\ msr_pc \in {"resting", "beginning", "measuring", "ending", "ended"}
  /\ timer \in Int
  /\ load \in [Loads -> [pc : {"forking", "sleeping", "exited"}, i : 0..Children, left : Int]]
  /\ child \in [Kids -> {"none", "running", "told", "gone"}]
  /\ slack \in [Kids -> Int]
  /\ failed \in BOOLEAN

\* The script, when time e has passed since it started the loads: either sendtag may
\* have taken from none to SendTime of it.
ScriptAt(e) ==
  /\ msr_pc = "beginning" => timer >= 0 /\ e + timer = SendTime
  /\ msr_pc = "measuring" => timer >= 0 /\ e + timer \in SleepDuration..(SleepDuration + SendTime)
  /\ msr_pc = "ending" =>
       timer \in 0..SendTime /\ e + timer >= SleepDuration + SendTime
  /\ msr_pc = "resting" => timer >= 0 /\ e + timer >= SleepDuration + Rest

\* A load that forks has its children up to the loop counter at work.
Forking(l, e) ==
  load[l].pc = "forking" =>
    /\ load[l].left >= 0 /\ e + load[l].left = ForkTime
    /\ \A j \in Js : child[<<l, j>>] = (IF j < load[l].i THEN "running" ELSE "none")

\* A load that sleeps began to within ForkTime.  When its sleep is over its children
\* up to the loop counter have been told.
Sleeping(l, e) ==
  load[l].pc = "sleeping" =>
    /\ load[l].left >= 0
    /\ e + load[l].left \in SleepDuration..(SleepDuration + ForkTime)
    /\ load[l].left # 0 => load[l].i = 0
    /\ \A j \in Js : IF j < load[l].i THEN child[<<l, j>>] \in {"told", "gone"}
                                      ELSE child[<<l, j>>] = "running"

\* A load that has exited has told all its children, after its sleep.
Exited(l, e) ==
  load[l].pc = "exited" => e >= SleepDuration /\ \A j \in Js : child[<<l, j>>] # "running"

\* A child that has been told was so when its load had slept, and has slack left.
SlackLeft(e) ==
  \A k \in Kids : child[k] = "told" =>
    slack[k] >= 0 /\ e + slack[k] <= SleepDuration + ForkTime + Slack

InStepAt(e) ==
  /\ ScriptAt(e)
  /\ \A l \in Loads : Forking(l, e) /\ Sleeping(l, e) /\ Exited(l, e)
  /\ SlackLeft(e)

\* Unless a fork() failed, up to the end of the script.
InStep == \E e \in Nat : InStepAt(e)

MsrInv ==
  /\ MsrTypeOK
  /\ (~failed /\ msr_pc # "ended") => InStep
  /\ NoLoadCarriedOver

-----------------------------------------------------------------------------

LEMMA MsrStart == MsrInit => MsrInv
  <1> SUFFICES ASSUME MsrInit
               PROVE  MsrInv
    OBVIOUS
  <1> USE MsrConstants DEF MsrInit
  <1> DEFINE L == [pc : {"forking", "sleeping", "exited"}, i : 0..Children, left : Int]
  <1>1. MsrTypeOK
    <2>1. load \in [Loads -> L]
      <3>1. [pc |-> "exited", i |-> 0, left |-> 0] \in L
        OBVIOUS
      <3> HIDE DEF L
      <3>2. QED
        BY <3>1
    <2>2. child \in [Kids -> {"none", "running", "told", "gone"}]
      OBVIOUS
    <2>3. slack \in [Kids -> Int]
      OBVIOUS
    <2>4. failed \in BOOLEAN
      BY Zenon
    <2>5. msr_pc \in {"resting", "beginning", "measuring", "ending", "ended"} /\ timer \in Int
      OBVIOUS
    <2>6. QED
      BY <2>1, <2>2, <2>3, <2>4, <2>5, Zenon DEF MsrTypeOK
  <1>2. \A l \in Loads, j \in Js : <<l, j>> \in Kids
    BY DEF Kids, Js
  <1>3. InStepAt(SleepDuration + Rest)
    BY <1>2 DEF InStepAt, ScriptAt, Forking, Sleeping, Exited, SlackLeft
  <1>4. InStep
    <2>1. SleepDuration + Rest \in Nat
      OBVIOUS
    <2>2. QED
      BY <1>3, <2>1 DEF InStep
  <1>5. QED
    BY <1>1, <1>4 DEF MsrInv, NoLoadCarriedOver

\* When the script's rest is over, the load of the round before is gone.
LEMMA GoneAfterRest ==
  ASSUME MsrTypeOK, InStep, msr_pc = "resting", timer = 0
  PROVE  Busy = {}
  <1> USE MsrConstants
  <1>1. PICK e \in Nat : InStepAt(e)
    BY DEF InStep
  <1>2. e >= SleepDuration + Rest
    BY <1>1 DEF InStepAt, ScriptAt
  <1>3. \A l \in Loads : load[l].pc = "exited"
    BY <1>1, <1>2 DEF MsrTypeOK, InStepAt, Forking, Sleeping
  <1>4. \A l \in Loads, j \in Js : child[<<l, j>>] # "running"
    BY <1>1, <1>3 DEF InStepAt, Exited
  <1>5. \A k \in Kids : child[k] # "told"
    BY <1>1, <1>2 DEF MsrTypeOK, InStepAt, SlackLeft
  <1>6. QED
    BY <1>4, <1>5 DEF Busy, Kids, Js

\* A round starts.
LEMMA MsrStartLoads ==
  ASSUME MsrInv, StartLoads
  PROVE  MsrInv'
  <1> USE MsrConstants
  <1>1. /\ msr_pc = "resting" /\ timer = 0 /\ msr_pc' = "beginning" /\ timer' = SendTime
        /\ load' = [l \in Loads |-> [pc |-> "forking", i |-> 0, left |-> ForkTime]]
        /\ leftover' = leftover + Cardinality(Busy)
        /\ child' = [k \in Kids |-> "none"]
        /\ slack' = slack /\ failed' = failed
    BY DEF StartLoads
  <1>2. MsrTypeOK'
    BY <1>1 DEF MsrInv, MsrTypeOK, Kids
  <1>3. InStepAt(0)'
    <2>1. \A l \in Loads, j \in Js : <<l, j>> \in Kids
      BY DEF Kids, Js
    <2>2. QED
      BY <1>1, <2>1 DEF InStepAt, ScriptAt, Forking, Sleeping, Exited, SlackLeft, Kids, Js
  <1>4. NoLoadCarriedOver'
    <2> SUFFICES ASSUME ~failed
                 PROVE  leftover' = 0
      BY <1>1 DEF NoLoadCarriedOver
    <2>1. Busy = {} /\ leftover = 0
      BY <1>1, GoneAfterRest DEF MsrInv, NoLoadCarriedOver
    <2>2. Cardinality(Busy) = 0
      BY <2>1, FS_EmptySet
    <2>3. QED
      BY <1>1, <2>1, <2>2
  <1>5. QED
    BY <1>2, <1>3, <1>4 DEF MsrInv, InStep

\* The clock moves on for all of them: nobody has used up its time.
LEMMA MsrTick ==
  ASSUME MsrInv, Tick
  PROVE  MsrInv'
  <1> USE MsrConstants
  <1>1. /\ msr_pc # "ended" /\ timer # 0 /\ timer' = timer - 1
        /\ \A l \in Loads : load[l].pc # "exited" => load[l].left # 0
        /\ \A k \in Kids : child[k] = "told" => slack[k] # 0
        /\ load' = [l \in Loads |->
             IF load[l].pc = "exited" THEN load[l] ELSE [load[l] EXCEPT !.left = @ - 1]]
        /\ slack' = [k \in Kids |-> IF child[k] = "told" THEN slack[k] - 1 ELSE slack[k]]
        /\ UNCHANGED <<msr_pc, round, child, leftover, failed>>
    BY DEF Tick, Due
  <1>2. MsrTypeOK'
    <2>1. ASSUME NEW l \in Loads
          PROVE  load'[l] \in [pc : {"forking", "sleeping", "exited"}, i : 0..Children, left : Int]
      BY <1>1 DEF MsrInv, MsrTypeOK
    <2>2. ASSUME NEW k \in Kids
          PROVE  slack'[k] \in Int
      BY <1>1 DEF MsrInv, MsrTypeOK
    <2>3. load' \in [Loads -> [pc : {"forking", "sleeping", "exited"}, i : 0..Children, left : Int]]
      BY <1>1, <2>1
    <2>4. slack' \in [Kids -> Int]
      BY <1>1, <2>2
    <2>5. QED
      BY <1>1, <2>3, <2>4 DEF MsrInv, MsrTypeOK, Kids
  <1>3. ASSUME InStep
        PROVE  InStep'
    <2>1. PICK e \in Nat : InStepAt(e)
      BY <1>3 DEF InStep
    <2>2. MsrTypeOK
      BY DEF MsrInv
    <2>3. ScriptAt(e + 1)'
      <3>1. timer \in Int /\ ScriptAt(e) /\ timer # 0 /\ timer' = timer - 1 /\ msr_pc' = msr_pc
        BY <1>1, <2>1, <2>2 DEF MsrTypeOK, InStepAt
      <3>2. (e + 1) + timer' = e + timer
        BY <3>1
      <3>3. QED
        BY <3>1, <3>2 DEF ScriptAt
    <2>4. ASSUME NEW l \in Loads
          PROVE  Forking(l, e + 1)' /\ Sleeping(l, e + 1)' /\ Exited(l, e + 1)'
      <3>1. CASE load[l].pc = "exited"
        BY <1>1, <2>1, <3>1 DEF InStepAt, Forking, Sleeping, Exited
      <3>2. CASE load[l].pc # "exited"
        <4>1. /\ load'[l].pc = load[l].pc /\ load'[l].i = load[l].i
              /\ load'[l].left = load[l].left - 1 /\ load[l].left # 0 /\ load[l].left \in Int
          BY <1>1, <2>2, <3>2 DEF MsrTypeOK
        <4>2. Forking(l, e) /\ Sleeping(l, e) /\ child' = child
          BY <1>1, <2>1 DEF InStepAt
        <4>3. QED
          BY <3>2, <4>1, <4>2 DEF Forking, Sleeping, Exited
      <3>3. QED
        BY <3>1, <3>2
    <2>5. SlackLeft(e + 1)'
      <3> SUFFICES ASSUME NEW k \in Kids, child[k] = "told"
                   PROVE  /\ slack'[k] >= 0
                          /\ (e + 1) + slack'[k] <= SleepDuration + ForkTime + Slack
        BY <1>1 DEF SlackLeft, Kids
      <3>1. slack[k] \in Int /\ slack[k] # 0 /\ slack'[k] = slack[k] - 1
        BY <1>1, <2>2 DEF MsrTypeOK
      <3>2. slack[k] >= 0 /\ e + slack[k] <= SleepDuration + ForkTime + Slack
        BY <2>1 DEF InStepAt, SlackLeft
      <3>3. QED
        BY <3>1, <3>2
    <2>6. InStepAt(e + 1)' /\ e + 1 \in Nat
      BY <2>3, <2>4, <2>5 DEF InStepAt
    <2>7. QED
      BY <2>6 DEF InStep
  <1>4. QED
    BY <1>1, <1>2, <1>3 DEF MsrInv, NoLoadCarriedOver

-----------------------------------------------------------------------------
(* What one load or one child does *)

\* A load l forks its next child.
LEMMA MsrConsume ==
  ASSUME MsrInv, NEW l \in Loads, consume(l)
  PROVE  MsrInv'
  <1> USE MsrConstants
  <1> DEFINE k == <<l, load[l].i>>
  <1>1. /\ load[l].pc = "forking" /\ load[l].i < Children
        /\ child' = [child EXCEPT ![k] = "running"]
        /\ load' = [load EXCEPT ![l].i = @ + 1]
        /\ UNCHANGED <<msr_pc, round, timer, slack, leftover, failed>>
    BY DEF consume
  <1>2. load[l].i \in Js /\ k \in Kids
    BY <1>1 DEF MsrInv, MsrTypeOK, Kids, Js
  <1>3. /\ load'[l].pc = "forking" /\ load'[l].i = load[l].i + 1
        /\ \A m \in Loads : m # l => load'[m] = load[m]
        /\ \A m \in Loads, j \in Js :
             child'[<<m, j>>] = IF m = l /\ j = load[l].i THEN "running" ELSE child[<<m, j>>]
        /\ \A c \in Kids : child'[c] = "told" => child[c] = "told"
    BY <1>1, <1>2 DEF MsrInv, MsrTypeOK, Kids, Js
  <1>4. MsrTypeOK'
    BY <1>1, <1>2 DEF MsrInv, MsrTypeOK, Kids, Js
  <1>5. ASSUME NEW e \in Nat, InStepAt(e)
        PROVE  InStepAt(e)'
    <2>1. ASSUME NEW m \in Loads
          PROVE  Forking(m, e)' /\ Sleeping(m, e)' /\ Exited(m, e)'
      <3>1. Forking(m, e) /\ Sleeping(m, e) /\ Exited(m, e)
        BY <1>5 DEF InStepAt
      <3>2. CASE m # l
        <4>1. load'[m] = load[m] /\ \A j \in Js : child'[<<m, j>>] = child[<<m, j>>]
          BY <1>3, <3>2
        <4>2. QED
          BY <1>1, <3>1, <4>1 DEF Forking, Sleeping, Exited
      <3>3. CASE m = l
        <4>1. \A j \in Js : child'[<<l, j>>] = (IF j < load'[l].i THEN "running" ELSE "none")
          BY <1>1, <1>2, <1>3, <3>1, <3>3 DEF Forking, Js
        <4>2. QED
          BY <1>1, <1>3, <3>1, <3>3, <4>1 DEF Forking, Sleeping, Exited
      <3>4. QED
        BY <3>2, <3>3
    <2>2. ScriptAt(e)' /\ SlackLeft(e)'
      BY <1>1, <1>3, <1>5 DEF InStepAt, ScriptAt, SlackLeft, Kids
    <2>3. QED
      BY <2>1, <2>2 DEF InStepAt
  <1>6. QED
    BY <1>1, <1>4, <1>5 DEF MsrInv, InStep, NoLoadCarriedOver

\* All children are there, and the load goes to sleep: as long as the script will.
LEMMA MsrSleepLoad ==
  ASSUME MsrInv, NEW l \in Loads, SleepLoad(l)
  PROVE  MsrInv'
  <1> USE MsrConstants
  <1>1. /\ load[l].pc = "forking" /\ load[l].i = Children
        /\ load' = [load EXCEPT ![l] = [pc |-> "sleeping", i |-> 0, left |-> SleepDuration]]
        /\ UNCHANGED <<msr_pc, round, timer, child, slack, leftover, failed>>
    BY DEF SleepLoad
  <1>2. MsrTypeOK'
    BY <1>1 DEF MsrInv, MsrTypeOK, Kids
  <1>3. ASSUME NEW e \in Nat, InStepAt(e)
        PROVE  InStepAt(e)'
    <2>1. \A m \in Loads : Forking(m, e)' /\ Sleeping(m, e)' /\ Exited(m, e)'
      BY <1>1, <1>3 DEF MsrInv, MsrTypeOK, InStepAt, Forking, Sleeping, Exited, Js
    <2>2. ScriptAt(e)' /\ SlackLeft(e)'
      BY <1>1, <1>3 DEF InStepAt, ScriptAt, SlackLeft, Kids
    <2>3. QED
      BY <2>1, <2>2 DEF InStepAt
  <1>4. QED
    BY <1>1, <1>2, <1>3 DEF MsrInv, InStep, NoLoadCarriedOver

\* A load whose sleep is over tells its next child, with the script at the end of
\* the run it measured.
LEMMA MsrKillChild ==
  ASSUME MsrInv, NEW l \in Loads, KillChild(l)
  PROVE  MsrInv'
  <1> USE MsrConstants
  <1> DEFINE k == <<l, load[l].i>>
  <1>1. /\ load[l].pc = "sleeping" /\ load[l].left = 0 /\ load[l].i < Children
        /\ child' = [child EXCEPT ![k] = "told"]
        /\ slack' = [slack EXCEPT ![k] = Slack]
        /\ load' = [load EXCEPT ![l].i = @ + 1]
        /\ UNCHANGED <<msr_pc, round, timer, leftover, failed>>
    BY DEF KillChild
  <1>2. load[l].i \in Js /\ k \in Kids
    BY <1>1 DEF MsrInv, MsrTypeOK, Kids, Js
  <1>3. /\ load'[l].pc = "sleeping" /\ load'[l].left = 0 /\ load'[l].i = load[l].i + 1
        /\ \A m \in Loads : m # l => load'[m] = load[m]
        /\ \A m \in Loads, j \in Js :
             child'[<<m, j>>] = IF m = l /\ j = load[l].i THEN "told" ELSE child[<<m, j>>]
        /\ \A c \in Kids : c # k => child'[c] = child[c] /\ slack'[c] = slack[c]
        /\ slack'[k] = Slack
    BY <1>1, <1>2 DEF MsrInv, MsrTypeOK, Kids, Js
  <1>4. MsrTypeOK'
    BY <1>1, <1>2 DEF MsrInv, MsrTypeOK, Kids, Js
  <1>5. ASSUME NEW e \in Nat, InStepAt(e)
        PROVE  InStepAt(e)'
    <2>1. ASSUME NEW m \in Loads
          PROVE  Forking(m, e)' /\ Sleeping(m, e)' /\ Exited(m, e)'
      <3>1. Forking(m, e) /\ Sleeping(m, e) /\ Exited(m, e)
        BY <1>5 DEF InStepAt
      <3>2. CASE m # l
        <4>1. load'[m] = load[m] /\ \A j \in Js : child'[<<m, j>>] = child[<<m, j>>]
          BY <1>3, <3>2
        <4>2. QED
          BY <1>1, <3>1, <4>1 DEF Forking, Sleeping, Exited
      <3>3. CASE m = l
        <4>1. \A j \in Js : IF j < load[l].i THEN child[<<l, j>>] \in {"told", "gone"}
                                             ELSE child[<<l, j>>] = "running"
          BY <1>1, <3>1, <3>3 DEF Sleeping
        <4>2. \A j \in Js : IF j < load'[l].i THEN child'[<<l, j>>] \in {"told", "gone"}
                                              ELSE child'[<<l, j>>] = "running"
          BY <1>2, <1>3, <4>1 DEF Js
        <4>3. e + load'[l].left = e + load[l].left /\ load'[l].left >= 0
          BY <1>1, <1>3
        <4>4. QED
          BY <1>1, <1>3, <3>1, <3>3, <4>2, <4>3 DEF Forking, Sleeping, Exited
      <3>4. QED
        BY <3>2, <3>3
    <2>2. e <= SleepDuration + ForkTime
      BY <1>1, <1>5 DEF InStepAt, Sleeping
    <2>3. SlackLeft(e)'
      BY <1>1, <1>3, <1>5, <2>2 DEF InStepAt, SlackLeft, Kids
    <2>4. ScriptAt(e)'
      BY <1>1, <1>5 DEF InStepAt, ScriptAt
    <2>5. QED
      BY <2>1, <2>3, <2>4 DEF InStepAt
  <1>6. QED
    BY <1>1, <1>4, <1>5 DEF MsrInv, InStep, NoLoadCarriedOver

\* A load exits when it has told all of them.
LEMMA MsrLoadExits ==
  ASSUME MsrInv, NEW l \in Loads, LoadExits(l)
  PROVE  MsrInv'
  <1> USE MsrConstants
  <1>1. /\ load[l].pc = "sleeping" /\ load[l].left = 0 /\ load[l].i = Children
        /\ load' = [load EXCEPT ![l].pc = "exited"]
        /\ UNCHANGED <<msr_pc, round, timer, child, slack, leftover, failed>>
    BY DEF LoadExits
  <1>2. MsrTypeOK'
    BY <1>1 DEF MsrInv, MsrTypeOK, Kids
  <1>3. ASSUME NEW e \in Nat, InStepAt(e)
        PROVE  InStepAt(e)'
    <2>1. \A m \in Loads : Forking(m, e)' /\ Sleeping(m, e)' /\ Exited(m, e)'
      BY <1>1, <1>3 DEF MsrInv, MsrTypeOK, InStepAt, Forking, Sleeping, Exited, Js
    <2>2. ScriptAt(e)' /\ SlackLeft(e)'
      BY <1>1, <1>3 DEF InStepAt, ScriptAt, SlackLeft, Kids
    <2>3. QED
      BY <2>1, <2>2 DEF InStepAt
  <1>4. QED
    BY <1>1, <1>2, <1>3 DEF MsrInv, InStep, NoLoadCarriedOver

\* A child that was told stops.
LEMMA MsrChildStops ==
  ASSUME MsrInv, NEW k \in Kids, ChildStops(k)
  PROVE  MsrInv'
  <1> USE MsrConstants
  <1>1. /\ child[k] = "told" /\ child' = [child EXCEPT ![k] = "gone"]
        /\ UNCHANGED <<msr_pc, round, timer, load, slack, leftover, failed>>
    BY DEF ChildStops
  <1>2. MsrTypeOK'
    BY <1>1 DEF MsrInv, MsrTypeOK, Kids
  <1>3. /\ \A c \in Kids : child'[c] = "told" => child[c] = "told"
        /\ \A m \in Loads, j \in Js :
             \/ child'[<<m, j>>] = child[<<m, j>>]
             \/ child[<<m, j>>] = "told" /\ child'[<<m, j>>] = "gone"
    BY <1>1 DEF MsrInv, MsrTypeOK, Kids, Js
  <1>4. ASSUME NEW e \in Nat, InStepAt(e)
        PROVE  InStepAt(e)'
    <2>1. \A m \in Loads : Forking(m, e)' /\ Sleeping(m, e)' /\ Exited(m, e)'
      BY <1>1, <1>3, <1>4 DEF InStepAt, Forking, Sleeping, Exited
    <2>2. ScriptAt(e)' /\ SlackLeft(e)'
      BY <1>1, <1>3, <1>4 DEF InStepAt, ScriptAt, SlackLeft, Kids
    <2>3. QED
      BY <2>1, <2>2 DEF InStepAt
  <1>5. QED
    BY <1>1, <1>2, <1>4 DEF MsrInv, InStep, NoLoadCarriedOver

-----------------------------------------------------------------------------

LEMMA MsrPreserved == MsrInv /\ [MsrNext]_msrVars => MsrInv'
  <1> SUFFICES ASSUME MsrInv, [MsrNext]_msrVars
               PROVE  MsrInv'
    OBVIOUS
  <1>1. CASE StartLoads
    BY <1>1, MsrStartLoads
  <1>2. CASE BeginSent \/ RunMeasured \/ EndSent
    <2>1. UNCHANGED <<load, child, slack, leftover, failed>>
      BY <1>2 DEF BeginSent, RunMeasured, EndSent
    <2>2. \/ msr_pc = "beginning" /\ msr_pc' = "measuring" /\ timer' = SleepDuration
          \/ msr_pc = "measuring" /\ timer = 0 /\ msr_pc' = "ending" /\ timer' = SendTime
          \/ msr_pc = "ending" /\ msr_pc' = "resting" /\ timer' = Rest
      BY <1>2 DEF BeginSent, RunMeasured, EndSent
    <2>3. MsrTypeOK'
      BY <2>1, <2>2, MsrConstants DEF MsrInv, MsrTypeOK, Kids
    <2>4. ASSUME NEW e \in Nat, InStepAt(e)
          PROVE  InStepAt(e)'
      <3>1. ScriptAt(e)'
        BY <2>2, <2>4, MsrConstants DEF MsrInv, MsrTypeOK, InStepAt, ScriptAt
      <3>2. \A l \in Loads : Forking(l, e)' /\ Sleeping(l, e)' /\ Exited(l, e)'
        BY <2>1, <2>4 DEF InStepAt, Forking, Sleeping, Exited
      <3>3. SlackLeft(e)'
        BY <2>1, <2>4 DEF InStepAt, SlackLeft, Kids
      <3>4. QED
        BY <3>1, <3>2, <3>3 DEF InStepAt
    <2>5. QED
      BY <2>1, <2>2, <2>3, <2>4 DEF MsrInv, InStep, NoLoadCarriedOver
  <1>3. CASE MsrScriptEnds
    BY <1>3 DEF MsrScriptEnds, MsrInv, MsrTypeOK, NoLoadCarriedOver, Kids
  <1>4. CASE Tick
    BY <1>4, MsrTick
  <1>5. ASSUME NEW l \in Loads, consume(l) \/ SleepLoad(l) \/ KillChild(l) \/ LoadExits(l)
        PROVE  MsrInv'
    BY <1>5, MsrConsume, MsrSleepLoad, MsrKillChild, MsrLoadExits
  <1>6. ASSUME NEW k \in Kids, ChildStops(k)
        PROVE  MsrInv'
    BY <1>6, MsrChildStops
  <1>7. ASSUME NEW l \in Loads, consumeFails(l)
        PROVE  MsrInv'
    BY <1>7 DEF consumeFails, MsrInv, MsrTypeOK, NoLoadCarriedOver, Kids
  <1>8. CASE UNCHANGED msrVars
    <2>1. ASSUME NEW e \in Nat, InStepAt(e)
          PROVE  InStepAt(e)'
      <3>1. ScriptAt(e)'
        BY <1>8, <2>1 DEF msrVars, InStepAt, ScriptAt
      <3>2. \A l \in Loads : Forking(l, e)' /\ Sleeping(l, e)' /\ Exited(l, e)'
        BY <1>8, <2>1 DEF msrVars, InStepAt, Forking, Sleeping, Exited
      <3>3. SlackLeft(e)'
        BY <1>8, <2>1 DEF msrVars, InStepAt, SlackLeft, Kids
      <3>4. QED
        BY <3>1, <3>2, <3>3 DEF InStepAt
    <2>2. MsrTypeOK' /\ NoLoadCarriedOver'
      BY <1>8 DEF msrVars, MsrInv, MsrTypeOK, NoLoadCarriedOver, Kids
    <2>3. QED
      BY <1>8, <2>1, <2>2 DEF msrVars, MsrInv, InStep
  <1>9. QED
    BY <1>1, <1>2, <1>3, <1>4, <1>5, <1>6, <1>7, <1>8 DEF MsrNext, MsrStep

LEMMA MsrInvariant == MsrSpec => []MsrInv
  BY MsrStart, MsrPreserved, PTL DEF MsrSpec

\* No run is measured under the load of an earlier one, for all durations that give
\* the load less time for its forks and its children to stop than the script rests.
THEOREM MsrNotCarriedOver == MsrSpec => []NoLoadCarriedOver
  <1>1. MsrInv => NoLoadCarriedOver
    BY DEF MsrInv
  <1>2. QED
    BY MsrInvariant, <1>1, PTL

\* Load and script, which nothing keeps in step, drift apart by no more in any round
\* than the forks and one sendtag take: in between all children are at work.
THEOREM MsrLoadedThroughout == MsrSpec => []LoadedThroughout
  <1>1. MsrInv => LoadedThroughout
    <2> SUFFICES ASSUME MsrInv, msr_pc = "measuring", ~failed, NEW k \in Kids,
                        timer \in (SendTime + 1)..(SleepDuration - ForkTime - 1)
                 PROVE  child[k] = "running"
      BY DEF LoadedThroughout
    <2>1. PICK l \in Loads, j \in Js : k = <<l, j>>
      BY DEF Kids, Js
    <2>2. PICK e \in Nat : InStepAt(e)
      BY DEF MsrInv, InStep
    <2>3. e > ForkTime /\ e < SleepDuration
      BY <2>2, MsrConstants DEF InStepAt, ScriptAt
    <2>4. load[l].pc = "sleeping" /\ load[l].i = 0
      BY <2>2, <2>3, MsrConstants
      DEF MsrInv, MsrTypeOK, InStepAt, Forking, Sleeping, Exited
    <2>5. QED
      BY <2>1, <2>2, <2>4 DEF InStepAt, Sleeping, Js
  <1>2. QED
    BY MsrInvariant, <1>1, PTL

=============================================================================
