--------------------------- MODULE MachineUpgrades ---------------------------
(***************************************************************************)
(* What a series upgrade promises about machines, whatever drives it.      *)
(*                                                                         *)
(* A machine is claimed by the upgrade of one application at a time, is    *)
(* recorded as completed by that application only, and is not claimed      *)
(* again after that.  An application may claim and record several machines *)
(* in one step.                                                            *)
(***************************************************************************)
CONSTANTS Claimers, Machines

VARIABLES claims,   \* [Machines -> SUBSET Claimers]: upgrades of the machine under way
          recorded  \* machines recorded as completed

Init == claims = [m \in Machines |-> {}] /\ recorded = {}

\* The upgrade of the machines in S starts.
Claim(c, S) ==
  /\ \A m \in S : claims[m] = {} /\ m \notin recorded
  /\ claims' = [m \in Machines |-> IF m \in S THEN {c} ELSE claims[m]]
  /\ UNCHANGED recorded

\* It ends and the machines are recorded.
Record(c, S) ==
  /\ \A m \in S : claims[m] = {c}
  /\ claims' = [m \in Machines |-> IF m \in S THEN {} ELSE claims[m]]
  /\ recorded' = recorded \cup S

Next == \E c \in Claimers, S \in SUBSET Machines : Claim(c, S) \/ Record(c, S)

Spec == Init /\ [][Next]_<<claims, recorded>>
=============================================================================
