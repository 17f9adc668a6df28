----------------------- MODULE MCParallelSeriesUpgrade -----------------------
(***************************************************************************)
(* Deployments on which TLC checks ParallelSeriesUpgrade.                  *)
(***************************************************************************)
EXTENDS ParallelSeriesUpgrade, AppConfig

(* keystone is upgraded all at once on three machines, then glance, which     *)
(* shares the machine of a non-leader with it.  When both have the new series *)
(* mongodb goes unit by unit, followers first, and ceph-osd, which shares a   *)
(* machine with it.                                                           *)
QApps == {"keystone", "glance", "mongodb", "ceph-osd"}
QUnits == {"ks0", "ks1", "ks2", "gl0", "gl1", "mg0", "mg1", "osd0"}
QMachines == {"0", "1", "2", "3", "4", "5"}
QUnitsOf == [a \in QApps |->
  CASE a = "keystone" -> {"ks0", "ks1", "ks2"}
    [] a = "glance" -> {"gl0", "gl1"}
    [] a = "mongodb" -> {"mg0", "mg1"}
    [] a = "ceph-osd" -> {"osd0"}]
QLeader == [a \in QApps |->
  CASE a = "keystone" -> "ks0" [] a = "glance" -> "gl0"
    [] a = "mongodb" -> "mg0" [] a = "ceph-osd" -> "osd0"]
QMachineOf == [u \in QUnits |->
  CASE u = "ks0" -> "0"
    [] u = "ks1" -> "1"
    [] u \in {"ks2", "gl1"} -> "2"
    [] u = "gl0" -> "3"
    [] u \in {"mg0", "osd0"} -> "4"
    [] u = "mg1" -> "5"]
QGroups == <<[serial |-> FALSE, apps |-> {"keystone", "glance"}],
             [serial |-> TRUE, apps |-> {"mongodb", "ceph-osd"}]>>

\* Every application has the name of its charm; glance has no subordinates.
QPauseKinds == [a \in QApps |-> ParallelAppConfig(a).pause
                                  \ (IF a = "glance" THEN {"subordinate"} ELSE {})]
QFollowerFirst == {a \in QApps : ParallelAppConfig(a).secondaryFirst}
QHasOrigin == {a \in QApps : ParallelAppConfig(a).origin # ""}
=============================================================================
