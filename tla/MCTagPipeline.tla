---------------------------- MODULE MCTagPipeline ---------------------------
(***************************************************************************)
(* Small instances of TagPipeline: one client, short scripts.              *)
(***************************************************************************)
EXTENDS TagPipeline

\* pm_tests is a longer pm.
PipelineScripts == DOMAIN Programs \ {"pm_tests"}
MCHost == [host |-> "h1", arch |-> "amd64"]

\* Every script is sound on its own, which TestClient_proofs builds on.
ASSUME SoundScripts ==
  \A s \in DOMAIN Programs :
    /\ WellFormed(Programs[s]) /\ KillsItsApps(Programs[s], Leaves(s))
    /\ SetsWhatItNames(Programs[s], Unset(s))
    /\ EndsItsRuns(Programs[s]) /\ NamesItsClient(Programs[s])
    /\ BracketsItsTests(Programs[s])
    /\ s = "pm_tests" => TakesHooksBack(Programs[s])

\* Bound of the model: one thing goes wrong, in the network or on the client.  A
\* second script is run when the first was interrupted and both are short.
OneFault ==
  /\ mishaps + interrupts <= 1
  /\ sessions = 2 => interrupts = 1 /\ "backlight" \notin Range(ran)

=============================================================================
