----------------------------- MODULE MCStatstool ----------------------------
(***************************************************************************)
(* Small instances of Statstool: two clients, tests whose names are those  *)
(* of mouse/test.sh (equal first words) and of idle/test.sh.               *)
(***************************************************************************)
EXTENDS Statstool

MCClients == {[host |-> "h1", arch |-> "amd64"], [host |-> "h2", arch |-> "i386"]}
MCOneClient == {[host |-> "h1", arch |-> "amd64"]}
MCNames == {[word |-> "Touchpad,", rest |-> "movement"],
            [word |-> "idle", rest |-> ""]}
MCMouseNames == {[word |-> "Touchpad,", rest |-> "no movement"],
                 [word |-> "Touchpad,", rest |-> "movement"]}
MCSteps == {1}
MCUnsteady == {-1, 2}

\* Bound of the model.  Of two logs, the first is about runs: no names, up to
\* MaxLines lines.  The second, or the only one, is about names: no run tags, up to
\* five lines, after a log that ended before its test did.
RunsThenNames ==
  pc \in {"reading", "eof"} =>
    IF files = 1
    THEN At("TEST_CLIENT") \cup At("TEST_BEGIN") \cup At("OTHER") = {}
    ELSE /\ Len(log) <= 5
         /\ At("TEST_RUN_BEGIN") \cup At("TEST_RUN_END") = {}
         /\ \A i \in 2..Len(log) : log[i].stamp > log[i - 1].stamp
         /\ Len(reports) <= Cardinality(At("TEST_END"))

=============================================================================
