----------------------------- MODULE WakeOnLan ------------------------------
(***************************************************************************)
(* generic-tests/wake-on-lan-test: the two scripts that set Wake-on-LAN on *)
(* all Ethernet interfaces to g or to d (off), sleep, and set it back.     *)
(*                                                                         *)
(* get_state and the test for support ask eth1, whatever interface the     *)
(* loop is at, and bash takes a name for index 0 of an array, so           *)
(* support_g[] and state[] are one cell each.  ethtool is external.        *)
(***************************************************************************)
EXTENDS Integers

CONSTANTS
  Eths,         \* the interfaces ifconfig lists
  SupportSets   \* what an interface may support: sets of modes

\* The interface that is asked.
Asked == "eth1"

WolModes == {"p", "g", "d"}

ASSUME WolConstants == SupportSets \subseteq SUBSET {"p", "g"}

VARIABLES
  supports,   \* what each interface supports
  found,      \* history: the mode each was in before the script
  wol,        \* the mode each is in
  wol_pc,     \* "check", "set", "sleep", "restore", "done", "refused" or "interrupted"
  wol_mode,   \* "g" in test-wake-on-lan-on.sh, "d" in test-wake-on-lan-off.sh
  support_g,  \* its one cell is 1
  saved,      \* state[]'s one cell
  todo        \* the interfaces the loop has not reached

wolVars == <<supports, found, wol, wol_pc, wol_mode, support_g, saved, todo>>

\* The modes an interface can be put in.
Accepts(e) == IF supports[e] = {} THEN {} ELSE supports[e] \cup {"d"}

WolInit ==
  /\ supports \in [Eths -> SupportSets]
  /\ wol \in [Eths -> WolModes] /\ \A e \in Eths : wol[e] \in Accepts(e) \cup {"d"}
  /\ found = wol
  /\ wol_pc = "check" /\ wol_mode \in {"g", "d"}
  /\ support_g = FALSE /\ saved = "" /\ todo = {}

\* $EUID is not 0: exit 1, and the run is measured all the same.
NotRoot ==
  /\ wol_pc = "check"
  /\ wol_pc' = "refused"
  /\ UNCHANGED <<supports, found, wol, wol_mode, support_g, saved, todo>>

\* Support is what eth1 says, and only if it supports g and nothing else.
CheckAndSave ==
  /\ wol_pc = "check"
  /\ support_g' = (Asked \in Eths /\ supports[Asked] = {"g"})
  /\ saved' = IF Asked \in Eths THEN wol[Asked] ELSE ""
  /\ wol_pc' = "set" /\ todo' = Eths
  /\ UNCHANGED <<supports, found, wol, wol_mode>>

\* ethtool -s e wol m, which may be refused.
Ethtool(e, m) ==
  wol' = IF support_g /\ m \in Accepts(e) THEN [wol EXCEPT ![e] = m] ELSE wol

SetMode(e) ==
  /\ wol_pc = "set" /\ e \in todo
  /\ Ethtool(e, wol_mode)
  /\ todo' = todo \ {e}
  /\ UNCHANGED <<supports, found, wol_pc, wol_mode, support_g, saved>>

Sleep15 ==
  /\ wol_pc = "set" /\ todo = {}
  /\ wol_pc' = "sleep"
  /\ UNCHANGED <<supports, found, wol, wol_mode, support_g, saved, todo>>

\* Mutant: what is in force after the sleep is what is restored.
WakeUpSavesLate ==
  /\ wol_pc = "sleep"
  /\ wol_pc' = "restore" /\ todo' = Eths
  /\ saved' = IF Asked \in Eths THEN wol[Asked] ELSE ""
  /\ UNCHANGED <<supports, found, wol, wol_mode, support_g>>

WakeUp ==
  /\ wol_pc = "sleep"
  /\ wol_pc' = "restore" /\ todo' = Eths
  /\ UNCHANGED <<supports, found, wol, wol_mode, support_g, saved>>

Restore(e) ==
  /\ wol_pc = "restore" /\ e \in todo
  /\ Ethtool(e, saved)
  /\ todo' = todo \ {e}
  /\ UNCHANGED <<supports, found, wol_pc, wol_mode, support_g, saved>>

WolDone ==
  /\ wol_pc = "restore" /\ todo = {}
  /\ wol_pc' = "done"
  /\ UNCHANGED <<supports, found, wol, wol_mode, support_g, saved, todo>>

WolInterrupted ==
  /\ wol_pc \in {"set", "sleep", "restore"}
  /\ wol_pc' = "interrupted"
  /\ UNCHANGED <<supports, found, wol, wol_mode, support_g, saved, todo>>

WolNext ==
  \/ NotRoot \/ CheckAndSave \/ Sleep15 \/ WakeUp \/ WolDone \/ WolInterrupted
  \/ \E e \in Eths : SetMode(e) \/ Restore(e)

WolSpec == WolInit /\ [][WolNext]_wolVars

-----------------------------------------------------------------------------

\* A script that was not interrupted leaves eth1 as it found it, and any other
\* interface as it found it, in eth1's mode, or off; an interrupted one may also
\* leave the mode it measures.
WolLeftBehind ==
  /\ (wol_pc = "done" /\ Asked \in Eths) => wol[Asked] = found[Asked]
  /\ \A e \in Eths :
       \/ wol[e] \in {found[e], "d"}
       \/ support_g /\ wol[e] = found[Asked]
       \/ support_g /\ wol_pc # "done" /\ wol[e] = wol_mode

\* "Restore original state": the script leaves every interface as it found it.
OriginalStateRestored == wol_pc = "done" => wol = found

=============================================================================
