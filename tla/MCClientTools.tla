---------------------------- MODULE MCClientTools ---------------------------
(***************************************************************************)
(* Small instances of the programs of the client that are not test         *)
(* scripts; one of them at a time.                                         *)
(***************************************************************************)
EXTENDS WakeOnLan, MsrLoad, BusyIo, PowerstatTest

VARIABLE tool   \* the one that runs

toolVars == <<tool, wolVars, msrVars, busyVars, powerstatVars>>

MCSupportSets == {{}, {"g"}, {"p", "g"}}
OnlyG == {{"g"}}

\* Those that do not run are in one of their initial states.
Init ==
  /\ tool \in {"wake-on-lan", "msr-test", "busyio", "powerstat"}
  /\ WolInit /\ MsrInit /\ BusyInit /\ PowerstatInit
  /\ tool # "wake-on-lan" =>
       /\ wol_mode = "g"
       /\ \A e \in Eths : wol[e] = "d" /\ \A s \in SupportSets : supports[e] \subseteq s
  /\ tool # "busyio" => \A d \in Durations : duration <= d

Next ==
  \/ /\ tool = "wake-on-lan" /\ WolNext
     /\ UNCHANGED <<tool, msrVars, busyVars, powerstatVars>>
  \/ /\ tool = "msr-test" /\ MsrNext
     /\ UNCHANGED <<tool, wolVars, busyVars, powerstatVars>>
  \/ /\ tool = "busyio" /\ BusyNext
     /\ UNCHANGED <<tool, wolVars, msrVars, powerstatVars>>
  \/ /\ tool = "powerstat" /\ PowerstatNext
     /\ UNCHANGED <<tool, wolVars, msrVars, busyVars>>

Spec == Init /\ [][Next]_toolVars

FairSpec ==
  Spec /\ (tool = "msr-test" => WF_msrVars(MsrStep)) /\ (tool = "busyio" => BusyFairness)

\* LoadStops and LinesPassedOn, of the tool that runs.
MsrLoadStops == tool = "msr-test" => LoadStops
BusyLinesPassedOn == tool = "busyio" => LinesPassedOn

=============================================================================
