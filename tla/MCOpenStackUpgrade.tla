-------------------------- MODULE MCOpenStackUpgrade --------------------------
(***************************************************************************)
(* A deployment on which TLC checks OpenStackUpgrade: a clustered keystone *)
(* and glance, then heat with an application that is upgraded all in one.  *)
(***************************************************************************)
EXTENDS OpenStackUpgrade

MCApps == {"keystone", "glance", "heat", "swift"}
MCUnits == {"ks0", "ks1", "gl0", "sw0", "he0", "he1"}
MCUnitsOf == [a \in MCApps |->
  CASE a = "keystone" -> {"ks0", "ks1"}
    [] a = "glance" -> {"gl0"}
    [] a = "swift" -> {"sw0"}
    [] a = "heat" -> {"he0", "he1"}]
MCGroups == <<{"keystone", "glance"}, {"heat", "swift"}>>
=============================================================================
