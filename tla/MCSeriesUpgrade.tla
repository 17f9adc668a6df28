--------------------------- MODULE MCSeriesUpgrade ---------------------------
(***************************************************************************)
(* Deployments on which TLC checks SeriesUpgrade.                          *)
(***************************************************************************)
EXTENDS SeriesUpgrade, AppConfig

\* The constants that app_config determines, by the charms of the applications.
WithOrigin(charms) == {a \in DOMAIN charms : SeriesAppConfig(charms[a]).origin # ""}
NonLeadersFirst(charms) == {a \in DOMAIN charms : SeriesAppConfig(charms[a]).secondaryFirst}
Pauses(charms) == [a \in DOMAIN charms |-> SeriesAppConfig(charms[a]).pause]

(* Three groups.  keystone and glance are upgraded concurrently; keystone/1   *)
(* and mongodb/0 sit on a machine that an earlier group upgrades, and both    *)
(* units of glance have machines that no earlier group upgrades.              *)
PApps == {"rabbitmq-server", "keystone", "glance", "mongodb"}
PUnits == {"rmq0", "ks0", "ks1", "gl0", "gl1", "mg0", "mg1"}
PMachines == 0..4
PUnitsOf == [a \in PApps |->
  CASE a = "rabbitmq-server" -> {"rmq0"}
    [] a = "keystone" -> {"ks0", "ks1"}
    [] a = "glance" -> {"gl0", "gl1"}
    [] a = "mongodb" -> {"mg0", "mg1"}]
PLeader == [a \in PApps |->
  CASE a = "rabbitmq-server" -> "rmq0"
    [] a = "keystone" -> "ks0"
    [] a = "glance" -> "gl0"
    [] a = "mongodb" -> "mg0"]
PMachineOf == [u \in PUnits |->
  CASE u \in {"rmq0", "ks1"} -> 0
    [] u = "ks0" -> 1
    [] u \in {"gl0", "mg0"} -> 2
    [] u = "mg1" -> 3
    [] u = "gl1" -> 4]
PGroups == <<{"rabbitmq-server"}, {"keystone", "glance"}, {"mongodb"}>>
PCharmOf == [a \in PApps |-> a]
PHasOrigin == WithOrigin(PCharmOf)
PSecondaryFirst == NonLeadersFirst(PCharmOf)
PPauseKinds == Pauses(PCharmOf)

(* The synchronous driver: applications one after another.  mysql is deployed *)
(* from percona-cluster and shares a machine with keystone.                   *)
SApps == {"mysql", "keystone", "mongodb"}
SUnits == {"my0", "my1", "ks0", "ks1", "mg0", "mg1"}
SMachines == 0..3
SUnitsOf == [a \in SApps |->
  CASE a = "mysql" -> {"my0", "my1"}
    [] a = "keystone" -> {"ks0", "ks1"}
    [] a = "mongodb" -> {"mg0", "mg1"}]
SLeader == [a \in SApps |->
  CASE a = "mysql" -> "my0" [] a = "keystone" -> "ks0" [] a = "mongodb" -> "mg0"]
SMachineOf == [u \in SUnits |->
  CASE u \in {"my0", "ks1"} -> 0
    [] u = "my1" -> 1
    [] u \in {"ks0", "mg1"} -> 2
    [] u = "mg0" -> 3]
SGroups == <<{"mysql"}, {"keystone"}, {"mongodb"}>>
SCharmOf == [a \in SApps |-> IF a = "mysql" THEN "percona-cluster" ELSE a]
SHasOrigin == WithOrigin(SCharmOf)
SSecondaryFirst == NonLeadersFirst(SCharmOf)
SPauseKinds == Pauses(SCharmOf)

(* One group of two single-unit applications on one machine, which the Data   *)
(* Plane group of upgrade_utils.SERVICE_GROUPS allows.                        *)
CApps == {"nova-compute", "ceph-osd"}
CUnits == {"nc0", "osd0"}
CUnitsOf == [a \in CApps |-> IF a = "ceph-osd" THEN {"osd0"} ELSE {"nc0"}]
CLeader == [a \in CApps |-> IF a = "ceph-osd" THEN "osd0" ELSE "nc0"]
CMachineOf == [u \in CUnits |-> 0]
CGroups == <<{"nova-compute", "ceph-osd"}>>
CCharmOf == [a \in CApps |-> a]
CHasOrigin == WithOrigin(CCharmOf)
CSecondaryFirst == NonLeadersFirst(CCharmOf)
CPauseKinds == Pauses(CCharmOf)

=============================================================================
