---------------------------- MODULE RollingUpgrade ----------------------------
(***************************************************************************)
(* What a payload upgrade in rounds promises about the units of a cloud,   *)
(* whatever fails and however often it is started again.                   *)
(*                                                                         *)
(* A unit goes out of service, gets the new payload and comes back, once   *)
(* each and in this order, and no two units of an application are out of   *)
(* service together.  Several units may take a step together.              *)
(***************************************************************************)
CONSTANTS Apps, Units, UnitsOf

VARIABLES down,  \* units that are out of service
          new    \* units that have the new payload

Init == down = {} /\ new = {}

TakeDown(S) ==
  /\ S \cap (down \cup new) = {}
  /\ down' = down \cup S
  /\ \A a \in Apps : \A u, v \in down' \cap UnitsOf[a] : u = v
  /\ UNCHANGED new

Upgrade(S) ==
  /\ S \subseteq down \ new
  /\ new' = new \cup S
  /\ UNCHANGED down

BringUp(S) ==
  /\ S \subseteq down \cap new
  /\ down' = down \ S
  /\ UNCHANGED new

Next == \E S \in SUBSET Units : TakeDown(S) \/ Upgrade(S) \/ BringUp(S)

Spec == Init /\ [][Next]_<<down, new>>
=============================================================================
