------------------------- MODULE SeriesUpgradeProofs -------------------------
(***************************************************************************)
(* Proofs about SeriesUpgrade, for every deployment and every grouping.    *)
(***************************************************************************)
EXTENDS SeriesUpgrade, TLAPS

USE DEF At, Running, Goto, NonLeaders, UpgradeSteps, Labels, HookPhases,
        coroutineVars, machineVars, juju, AfterReboot, AfterOrigin, PausePairs, BackInService, LoopOver, AfterGroup, AfterComplete,
        GroupReturned

\* A group is a set of applications, and group numbers are those of the
\* groups get_upgrade_groups returned.
LEMMA GroupType ==
  ASSUME NEW i \in 1..Len(Groups)
  PROVE  Groups[i] \subseteq Apps /\ Len(Groups) \in Nat /\ DOMAIN Groups = 1..Len(Groups)
BY ConfigAssumption

\* The next unit of a coroutine is one of the units it still has to visit.
LEMMA NextUnitsType ==
  ASSUME TypeOK, NEW a \in Apps
  PROVE  NextUnits(a) \subseteq todo[a]
BY DEF TypeOK, NextUnits

\* The unit a coroutine works on and the units it has left are its own, and only
\* the applications of the current group are between their start and their end.
OwnUnits ==
  \A a \in Apps :
    /\ todo[a] \subseteq UnitsOf[a]
    /\ pc[a] \in UpgradeSteps \cup {"skip"} => cur[a] \in UnitsOf[a]
    /\ pc[a] \notin {"waiting", "done"} => group \in 1..Len(Groups) /\ a \in Groups[group]

TypeInv == TypeOK /\ OwnUnits

\* TypeOK alone is not inductive: Reboot and SetSeries need to know that cur[a]
\* is a unit.
LEMMA TypeInvStep == TypeInv /\ [Next]_vars => TypeInv'
<1> SUFFICES ASSUME TypeInv, [Next]_vars PROVE TypeInv'
  OBVIOUS
<1> USE DeploymentAssumption, ConfigAssumption
<1> USE DEF TypeInv, TypeOK, OwnUnits
<1>1. ASSUME NEW a \in Apps, GetStatus(a) PROVE TypeInv'
  BY <1>1 DEF GetStatus
<1>2. ASSUME NEW a \in Apps, PauseNonLeaders(a) PROVE TypeInv'
  BY <1>2 DEF PauseNonLeaders
<1>3. ASSUME NEW a \in Apps, PauseNextNonLeader(a) PROVE TypeInv'
  BY <1>3 DEF PauseNextNonLeader
<1>4. ASSUME NEW a \in Apps, StartUnit(a) PROVE TypeInv'
  BY <1>4, NextUnitsType DEF StartUnit
<1>5. ASSUME NEW a \in Apps, SkipUnit(a) PROVE TypeInv'
  <2>1. PICK u \in UnitsOf[a] : /\ cur' = [cur EXCEPT ![a] = u]
                              /\ todo' = [todo EXCEPT ![a] = @ \ {u}]
    BY <1>5, NextUnitsType DEF SkipUnit
  <2>2. CASE pc' = [pc EXCEPT ![a] = "skip"] /\ UNCHANGED driver
    BY <1>5, <2>1, <2>2 DEF SkipUnit
  <2>3. CASE driver' = "raised" /\ UNCHANGED pc
    BY <1>5, <2>1, <2>3 DEF SkipUnit
  <2> QED
    BY <1>5, <2>2, <2>3 DEF SkipUnit
<1>6. ASSUME NEW a \in Apps, EndSkip(a) PROVE TypeInv'
  BY <1>6 DEF EndSkip
<1>7. ASSUME NEW a \in Apps, EndApp(a) PROVE TypeInv'
  BY <1>7 DEF EndApp
<1>8. ASSUME NEW a \in Apps, DistUpgrade(a) PROVE TypeInv'
  BY <1>8 DEF DistUpgrade
<1>9. ASSUME NEW a \in Apps, Prepare(a) PROVE TypeInv'
  BY <1>9 DEF Prepare
<1>10. ASSUME NEW a \in Apps, ReleaseUpgrade(a) PROVE TypeInv'
  BY <1>10 DEF ReleaseUpgrade
<1>11. ASSUME NEW a \in Apps, ReleaseUpgradeFails(a) PROVE TypeInv'
  BY <1>11 DEF ReleaseUpgradeFails
<1>12. ASSUME NEW a \in Apps, Reboot(a) PROVE TypeInv'
  BY <1>12 DEF Reboot
<1>13. ASSUME NEW a \in Apps, SetOrigin(a) PROVE TypeInv'
  BY <1>13 DEF SetOrigin
<1>14. ASSUME NEW a \in Apps, Complete(a) PROVE TypeInv'
  BY <1>14 DEF Complete
<1>15. ASSUME NEW a \in Apps, Post(a) PROVE TypeInv'
  BY <1>15 DEF Post
<1>16. ASSUME NEW a \in Apps, SetSeries(a) PROVE TypeInv'
  BY <1>16 DEF SetSeries
<1>17. ASSUME NEW a \in Apps, Fail(a) PROVE TypeInv'
  BY <1>17 DEF Fail
<1>18. CASE CompleteCluster
  BY <1>18 DEF CompleteCluster
<1>19. CASE EndGroup
  BY <1>19 DEF EndGroup
<1>20. ASSUME NEW u \in Units, StartHook(u) PROVE TypeInv'
  BY <1>20 DEF StartHook
<1>21. ASSUME NEW u \in Units, FinishHook(u) PROVE TypeInv'
  BY <1>21 DEF FinishHook
<1>22. ASSUME NEW m \in Machines, BootUp(m) PROVE TypeInv'
  BY <1>22 DEF BootUp
<1>23. CASE UNCHANGED vars
  BY <1>23 DEF vars
<1> QED
  BY <1>1, <1>2, <1>3, <1>4, <1>5, <1>6, <1>7, <1>8, <1>9, <1>10, <1>11,
     <1>12, <1>13, <1>14, <1>15, <1>16, <1>17, <1>18, <1>19, <1>20, <1>21, <1>22, <1>23
  DEF Next, Step, Environment, Terminated

\* The type invariant holds when the driver starts.
LEMMA TypeInvInit == Init => TypeInv
BY ConfigAssumption, DeploymentAssumption DEF Init, TypeInv, TypeOK, OwnUnits

\* Every variable keeps its type.
THEOREM TypeCorrect == Spec => []TypeOK
<1>1. TypeInv => TypeOK
  BY DEF TypeInv
<1> QED
  BY <1>1, TypeInvInit, TypeInvStep, PTL DEF Spec

-----------------------------------------------------------------------------
(* One upgrade per machine *)

\* Two applications that upgrade at the same time belong to the same group, so
\* they are on different machines.
LEMMA Exclusive ==
  ASSUME TypeInv, GroupsDisjoint,
         NEW a \in Apps, NEW b \in Apps, a # b, Upgrading(a), Upgrading(b)
  PROVE  MachineOf[cur[a]] # MachineOf[cur[b]]
<1>1. group \in DOMAIN Groups /\ a \in Groups[group] /\ b \in Groups[group]
  BY ConfigAssumption DEF TypeInv, OwnUnits, Upgrading
<1>2. cur[a] \in UnitsOf[a] /\ cur[b] \in UnitsOf[b]
  BY DEF TypeInv, OwnUnits, Upgrading
<1> QED
  BY <1>1, <1>2 DEF GroupsDisjoint

\* A machine is not in completed_machines while it is being upgraded.
NotCompleted == \A a \in Apps : Upgrading(a) => MachineOf[cur[a]] \notin completed

OnceInv == TypeInv /\ NotCompleted

\* Under disjoint placement every step keeps a machine that is being upgraded
\* out of completed_machines: only its own coroutine appends it, in SetSeries.
LEMMA OnceInvStep ==
  ASSUME GroupsDisjoint, OnceInv, [Next]_vars
  PROVE  OnceInv'
<1> USE DEF OnceInv, NotCompleted, Upgrading
<1>0. TypeInv'
  BY TypeInvStep
<1> SUFFICES NotCompleted'
  BY <1>0
<1> USE DEF TypeInv, TypeOK
<1>1. ASSUME NEW a \in Apps, StartUnit(a) PROVE NotCompleted'
  BY <1>1 DEF StartUnit, AlreadyUpgraded
<1>2. ASSUME NEW a \in Apps, SetSeries(a) PROVE NotCompleted'
  <2>1. \A b \in Apps \ {a} : Upgrading(b) => MachineOf[cur[b]] # MachineOf[cur[a]]
    BY <1>2, Exclusive DEF SetSeries
  <2> QED
    BY <1>2, <2>1 DEF SetSeries
<1>3. ASSUME NEW a \in Apps, GetStatus(a) PROVE NotCompleted'
  BY <1>3 DEF GetStatus
<1>4. ASSUME NEW a \in Apps, PauseNonLeaders(a) PROVE NotCompleted'
  BY <1>4 DEF PauseNonLeaders
<1>5. ASSUME NEW a \in Apps, PauseNextNonLeader(a) PROVE NotCompleted'
  BY <1>5 DEF PauseNextNonLeader
<1>6. ASSUME NEW a \in Apps, SkipUnit(a) PROVE NotCompleted'
  BY <1>6 DEF SkipUnit
<1>7. ASSUME NEW a \in Apps, EndSkip(a) PROVE NotCompleted'
  BY <1>7 DEF EndSkip
<1>8. ASSUME NEW a \in Apps, EndApp(a) PROVE NotCompleted'
  BY <1>8 DEF EndApp
<1>9. ASSUME NEW a \in Apps, DistUpgrade(a) PROVE NotCompleted'
  BY <1>9 DEF DistUpgrade
<1>10. ASSUME NEW a \in Apps, Prepare(a) PROVE NotCompleted'
  BY <1>10 DEF Prepare
<1>11. ASSUME NEW a \in Apps, ReleaseUpgrade(a) PROVE NotCompleted'
  BY <1>11 DEF ReleaseUpgrade
<1>12. ASSUME NEW a \in Apps, ReleaseUpgradeFails(a) PROVE NotCompleted'
  BY <1>12 DEF ReleaseUpgradeFails
<1>13. ASSUME NEW a \in Apps, Reboot(a) PROVE NotCompleted'
  BY <1>13 DEF Reboot
<1>14. ASSUME NEW a \in Apps, SetOrigin(a) PROVE NotCompleted'
  BY <1>14 DEF SetOrigin
<1>15. ASSUME NEW a \in Apps, Complete(a) PROVE NotCompleted'
  BY <1>15 DEF Complete
<1>16. ASSUME NEW a \in Apps, Post(a) PROVE NotCompleted'
  BY <1>16 DEF Post
<1>17. ASSUME NEW a \in Apps, Fail(a) PROVE NotCompleted'
  BY <1>17 DEF Fail
<1>18. CASE CompleteCluster \/ EndGroup
  BY <1>18 DEF CompleteCluster, EndGroup
<1>19. CASE Environment
  BY <1>19 DEF Environment, StartHook, FinishHook, BootUp
<1>20. CASE UNCHANGED vars
  BY <1>20 DEF vars
<1> QED
  BY <1>1, <1>2, <1>3, <1>4, <1>5, <1>6, <1>7, <1>8, <1>9, <1>10, <1>11, <1>12, <1>13,
     <1>14, <1>15, <1>16, <1>17, <1>18, <1>19, <1>20 DEF Next, Step, Terminated

\* No coroutine is upgrading when the driver starts.
LEMMA OnceInvInit == Init => OnceInv
BY TypeInvInit DEF OnceInv, NotCompleted, Upgrading, Init

\* Where the applications of each group are placed on different machines, the
\* gap between the test of completed_machines and the append is harmless: no
\* machine is upgraded twice, one after the other or at the same time.
THEOREM MachineUpgradedOnce == GroupsDisjoint /\ Spec => []UpgradedOnce
<1>1. GroupsDisjoint /\ OnceInv => UpgradedOnce
  BY Exclusive DEF OnceInv, NotCompleted, UpgradedOnce
<1>2. GroupsDisjoint /\ OnceInv /\ [Next]_vars => OnceInv'
  BY OnceInvStep
<1>3. GroupsDisjoint => GroupsDisjoint'
  BY DEF GroupsDisjoint
<1> QED
  BY <1>1, <1>2, <1>3, OnceInvInit, PTL DEF Spec

-----------------------------------------------------------------------------
(* What completed_machines records *)

\* How far the machine and the hooks of the unit are at each step of
\* async_series_upgrade.
StageOf(a) ==
  /\ pc[a] \in {"reboot", "set_origin", "complete", "post", "set_series"}
       => series[MachineOf[cur[a]]] # "old"
  /\ pc[a] = "release"
       => hook[cur[a]] \in {"prepare_pending", "prepare_running", "prepared"}
  /\ pc[a] \in {"reboot", "set_origin", "complete"} => hook[cur[a]] = "prepared"
  /\ pc[a] \in {"post", "set_series"}
       => \/ hook[cur[a]] \in {"complete_pending", "complete_running"}
          \/ hook[cur[a]] = "none" /\ MachineOf[cur[a]] \notin down

StageInv == CompletedIsUpgraded /\ \A a \in Apps : StageOf(a)

\* A coroutine at a stage is upgrading its own machine.
LEMMA OthersElsewhere ==
  ASSUME GroupsDisjoint, OnceInv, NEW a \in Apps, Upgrading(a)
  PROVE  /\ cur[a] \in Units /\ MachineOf[cur[a]] \in Machines
         /\ MachineOf[cur[a]] \notin completed
         /\ \A b \in Apps \ {a} : Upgrading(b) =>
              cur[b] \in Units /\ MachineOf[cur[b]] # MachineOf[cur[a]]
BY Exclusive, DeploymentAssumption
DEF OnceInv, NotCompleted, TypeInv, OwnUnits, Upgrading

\* Every step of the asynchronous code keeps each machine as far as its
\* coroutine says it is: upgraded after do-release-upgrade, down only between
\* reboot and the wait that follows it.
LEMMA StageInvStep ==
  ASSUME GroupsDisjoint, IsAsync, OnceInv, StageInv, [Next]_vars
  PROVE  StageInv'
<1> USE DeploymentAssumption
<1> USE DEF StageInv, StageOf, CompletedIsUpgraded, Upgrading, OnceInv, TypeInv, TypeOK
<1>1. ASSUME NEW a \in Apps, GetStatus(a) PROVE StageInv'
  BY <1>1 DEF GetStatus
<1>2. ASSUME NEW a \in Apps, PauseNonLeaders(a) PROVE StageInv'
  BY <1>2 DEF PauseNonLeaders
<1>3. ASSUME NEW a \in Apps, PauseNextNonLeader(a) PROVE StageInv'
  BY <1>3 DEF PauseNextNonLeader
<1>4. ASSUME NEW a \in Apps, StartUnit(a) PROVE StageInv'
  BY <1>4 DEF StartUnit
<1>5. ASSUME NEW a \in Apps, SkipUnit(a) PROVE StageInv'
  BY <1>5 DEF SkipUnit
<1>6. ASSUME NEW a \in Apps, EndSkip(a) PROVE StageInv'
  BY <1>6 DEF EndSkip
<1>7. ASSUME NEW a \in Apps, EndApp(a) PROVE StageInv'
  BY <1>7 DEF EndApp
<1>8. ASSUME NEW a \in Apps, DistUpgrade(a) PROVE StageInv'
  BY <1>8 DEF DistUpgrade
<1>9. ASSUME NEW a \in Apps, Prepare(a) PROVE StageInv'
  BY <1>9, OthersElsewhere DEF Prepare, UnitsOn, Blocked, Active
<1>10. ASSUME NEW a \in Apps, ReleaseUpgrade(a) PROVE StageInv'
  BY <1>10, OthersElsewhere DEF ReleaseUpgrade, UnitsOn, Blocked, Active
<1>11. ASSUME NEW a \in Apps, ReleaseUpgradeFails(a) PROVE StageInv'
  BY <1>11 DEF ReleaseUpgradeFails
<1>12. ASSUME NEW a \in Apps, Reboot(a) PROVE StageInv'
  BY <1>12, OthersElsewhere DEF Reboot, UnitsOn, Blocked, Active
<1>13. ASSUME NEW a \in Apps, SetOrigin(a) PROVE StageInv'
  BY <1>13 DEF SetOrigin
<1>14. ASSUME NEW a \in Apps, Complete(a) PROVE StageInv'
  BY <1>14, OthersElsewhere DEF Complete, UnitsOn, Blocked, Active
<1>15. ASSUME NEW a \in Apps, Post(a) PROVE StageInv'
  BY <1>15 DEF Post
<1>16. ASSUME NEW a \in Apps, SetSeries(a) PROVE StageInv'
  BY <1>16, OthersElsewhere DEF SetSeries, UnitsOn, Blocked, Active
<1>17. ASSUME NEW a \in Apps, Fail(a) PROVE StageInv'
  BY <1>17 DEF Fail
<1>18. CASE CompleteCluster \/ EndGroup
  BY <1>18 DEF CompleteCluster, EndGroup
<1>19. ASSUME NEW u \in Units, StartHook(u) PROVE StageInv'
  BY <1>19, OthersElsewhere DEF StartHook
<1>20. ASSUME NEW u \in Units, FinishHook(u) PROVE StageInv'
  BY <1>20, OthersElsewhere DEF FinishHook
<1>21. ASSUME NEW m \in Machines, BootUp(m) PROVE StageInv'
  BY <1>21 DEF BootUp
<1>22. CASE UNCHANGED vars
  BY <1>22 DEF vars
<1> QED
  BY <1>1, <1>2, <1>3, <1>4, <1>5, <1>6, <1>7, <1>8, <1>9, <1>10, <1>11, <1>12, <1>13,
     <1>14, <1>15, <1>16, <1>17, <1>18, <1>19, <1>20, <1>21, <1>22
  DEF Next, Step, Environment, Terminated

\* In the asynchronous code a machine is recorded as completed only when the new
\* release is installed and the machine is up again.
THEOREM CompletedUpgraded == GroupsDisjoint /\ IsAsync /\ Spec => []CompletedIsUpgraded
<1>1. Init => StageInv
  BY DEF Init, StageInv, StageOf, CompletedIsUpgraded
<1>2. GroupsDisjoint /\ IsAsync /\ OnceInv /\ StageInv /\ [Next]_vars => OnceInv' /\ StageInv'
  BY OnceInvStep, StageInvStep
<1>3. StageInv => CompletedIsUpgraded
  BY DEF StageInv
<1>4. (GroupsDisjoint => GroupsDisjoint') /\ (IsAsync => IsAsync')
  BY DEF GroupsDisjoint
<1> QED
  BY <1>1, <1>2, <1>3, <1>4, OnceInvInit, PTL DEF Spec

-----------------------------------------------------------------------------
(* The coroutines implement MachineUpgrades *)

\* No coroutine starts or ends the upgrade of a machine.
SameUpgrades ==
  /\ \A a \in Apps : Upgrading(a)' <=> Upgrading(a)
  /\ \A a \in Apps : Upgrading(a) => cur'[a] = cur[a]
  /\ completed' = completed

\* A step that starts and ends no upgrade leaves the claims as they are.
LEMMA SameClaims ==
  ASSUME SameUpgrades
  PROVE  UNCHANGED <<ClaimsOn, completed>>
BY DEF SameUpgrades, ClaimsOn

\* Starting a unit whose machine is not completed is a claim.
LEMMA ClaimStep ==
  ASSUME OnceInv, GroupsDisjoint, NEW a \in Apps, StartUnit(a)
  PROVE  Promise!Next
<1> USE DEF OnceInv, TypeInv, TypeOK
<1>1. PICK u \in NextUnits(a) : /\ MachineOf[u] \notin completed
                               /\ cur' = [cur EXCEPT ![a] = u]
  BY DEF StartUnit, AlreadyUpgraded
<1>2. u \in UnitsOf[a] /\ u \in Units /\ MachineOf[u] \in Machines /\ a \in Groups[group]
  BY <1>1, NextUnitsType, DeploymentAssumption DEF OwnUnits, StartUnit
<1> DEFINE m == MachineOf[u]
<1>3. ~Upgrading(a) /\ Upgrading(a)' /\ cur'[a] = u
  BY <1>1 DEF StartUnit, Upgrading
<1>4. \A b \in Apps \ {a} : (Upgrading(b)' <=> Upgrading(b)) /\ cur'[b] = cur[b]
  BY <1>1 DEF StartUnit, Upgrading
<1>5. \A b \in Apps : ~(Upgrading(b) /\ MachineOf[cur[b]] = m)
  <2> SUFFICES ASSUME NEW b \in Apps, Upgrading(b), MachineOf[cur[b]] = m PROVE FALSE
    OBVIOUS
  <2>1. b # a
    BY <1>3
  <2>2. group \in DOMAIN Groups /\ b \in Groups[group] /\ cur[b] \in UnitsOf[b]
    BY ConfigAssumption DEF OwnUnits, Upgrading
  <2> QED
    BY <1>2, <2>1, <2>2 DEF GroupsDisjoint
<1>6. ClaimsOn[m] = {}
  BY <1>2, <1>5 DEF ClaimsOn
<1>7. ClaimsOn' = [n \in Machines |-> IF n \in {m} THEN {a} ELSE ClaimsOn[n]]
  <2>1. \A n \in Machines : ClaimsOn'[n] = IF n = m THEN {a} ELSE ClaimsOn[n]
    BY <1>2, <1>3, <1>4, <1>5 DEF ClaimsOn
  <2> QED
    BY <2>1 DEF ClaimsOn
<1>8. UNCHANGED completed
  BY DEF StartUnit
<1>9. Promise!Claim(a, {m})
  BY <1>1, <1>2, <1>6, <1>7, <1>8 DEF Promise!Claim
<1>10. {m} \in SUBSET Machines
  BY <1>2
<1> QED
  BY <1>9, <1>10 DEF Promise!Next

\* The append to completed_machines records the claim of the coroutine that
\* makes it.
LEMMA RecordStep ==
  ASSUME OnceInv, GroupsDisjoint, NEW a \in Apps, SetSeries(a)
  PROVE  Promise!Next
<1> USE DEF OnceInv, TypeInv, TypeOK
<1> DEFINE m == MachineOf[cur[a]]
<1>1. Upgrading(a) /\ ~Upgrading(a)'
  BY DEF SetSeries, Upgrading
<1>2. cur[a] \in Units /\ m \in Machines
  BY <1>1, OthersElsewhere
<1>3. \A b \in Apps \ {a} : (Upgrading(b)' <=> Upgrading(b)) /\ cur'[b] = cur[b]
  BY DEF SetSeries, Upgrading
<1>4. \A b \in Apps \ {a} : Upgrading(b) => MachineOf[cur[b]] # m
  BY <1>1, OthersElsewhere
<1>5. ClaimsOn[m] = {a}
  BY <1>1, <1>2, <1>4 DEF ClaimsOn
<1>6. ClaimsOn' = [n \in Machines |-> IF n \in {m} THEN {} ELSE ClaimsOn[n]]
  <2>1. \A n \in Machines : ClaimsOn'[n] = IF n = m THEN {} ELSE ClaimsOn[n]
    BY <1>1, <1>2, <1>3, <1>4 DEF ClaimsOn
  <2> QED
    BY <2>1 DEF ClaimsOn
<1>7. completed' = completed \cup {m}
  BY DEF SetSeries
<1>8. Promise!Record(a, {m})
  BY <1>2, <1>5, <1>6, <1>7 DEF Promise!Record
<1>9. {m} \in SUBSET Machines
  BY <1>2
<1> QED
  BY <1>8, <1>9 DEF Promise!Next

\* Where the applications of each group are placed on different machines, the
\* coroutines implement MachineUpgrades: starting a unit claims its machine,
\* the append to completed_machines records it, and no other step of a
\* coroutine, of Juju or of the driver touches a claim.
THEOREM ImplementsMachineUpgrades == GroupsDisjoint /\ Spec => Refinement
<1>1. Init => Promise!Init
  BY DEF Init, Promise!Init, ClaimsOn, Upgrading
<1>2. ASSUME GroupsDisjoint, OnceInv, [Next]_vars
      PROVE  [Promise!Next]_<<ClaimsOn, completed>>
  <2> USE <1>2
  <2> USE DEF OnceInv, TypeInv, TypeOK
  <2>1. ASSUME NEW a \in Apps, StartUnit(a) PROVE Promise!Next
    BY <2>1, ClaimStep
  <2>2. ASSUME NEW a \in Apps, SetSeries(a) PROVE Promise!Next
    BY <2>2, RecordStep
  <2>3. ASSUME NEW a \in Apps, GetStatus(a) PROVE SameUpgrades
    BY <2>3 DEF GetStatus, SameUpgrades, Upgrading
  <2>4. ASSUME NEW a \in Apps, PauseNonLeaders(a) PROVE SameUpgrades
    BY <2>4 DEF PauseNonLeaders, SameUpgrades, Upgrading
  <2>5. ASSUME NEW a \in Apps, PauseNextNonLeader(a) PROVE SameUpgrades
    BY <2>5 DEF PauseNextNonLeader, SameUpgrades, Upgrading
  <2>6. ASSUME NEW a \in Apps, SkipUnit(a) PROVE SameUpgrades
    BY <2>6 DEF SkipUnit, SameUpgrades, Upgrading
  <2>7. ASSUME NEW a \in Apps, EndSkip(a) PROVE SameUpgrades
    BY <2>7 DEF EndSkip, SameUpgrades, Upgrading
  <2>8. ASSUME NEW a \in Apps, EndApp(a) PROVE SameUpgrades
    BY <2>8 DEF EndApp, SameUpgrades, Upgrading
  <2>9. ASSUME NEW a \in Apps, DistUpgrade(a) PROVE SameUpgrades
    BY <2>9 DEF DistUpgrade, SameUpgrades, Upgrading
  <2>10. ASSUME NEW a \in Apps, Prepare(a) PROVE SameUpgrades
    BY <2>10 DEF Prepare, SameUpgrades, Upgrading
  <2>11. ASSUME NEW a \in Apps, ReleaseUpgrade(a) PROVE SameUpgrades
    BY <2>11 DEF ReleaseUpgrade, SameUpgrades, Upgrading
  <2>12. ASSUME NEW a \in Apps, ReleaseUpgradeFails(a) PROVE SameUpgrades
    BY <2>12 DEF ReleaseUpgradeFails, SameUpgrades, Upgrading
  <2>13. ASSUME NEW a \in Apps, Reboot(a) PROVE SameUpgrades
    BY <2>13 DEF Reboot, SameUpgrades, Upgrading
  <2>14. ASSUME NEW a \in Apps, SetOrigin(a) PROVE SameUpgrades
    BY <2>14 DEF SetOrigin, SameUpgrades, Upgrading
  <2>15. ASSUME NEW a \in Apps, Complete(a) PROVE SameUpgrades
    BY <2>15 DEF Complete, SameUpgrades, Upgrading
  <2>16. ASSUME NEW a \in Apps, Post(a) PROVE SameUpgrades
    BY <2>16 DEF Post, SameUpgrades, Upgrading
  <2>17. ASSUME NEW a \in Apps, Fail(a) PROVE SameUpgrades
    BY <2>17 DEF Fail, SameUpgrades, Upgrading
  <2>18. ASSUME CompleteCluster \/ EndGroup PROVE SameUpgrades
    BY <2>18 DEF CompleteCluster, EndGroup, SameUpgrades, Upgrading
  <2>19. ASSUME Environment PROVE SameUpgrades
    BY <2>19 DEF Environment, StartHook, FinishHook, BootUp, SameUpgrades, Upgrading
  <2>20. ASSUME UNCHANGED vars PROVE SameUpgrades
    BY <2>20 DEF vars, SameUpgrades, Upgrading
  <2> QED
    BY SameClaims, <2>1, <2>2, <2>3, <2>4, <2>5, <2>6, <2>7, <2>8, <2>9, <2>10, <2>11,
       <2>12, <2>13, <2>14, <2>15, <2>16, <2>17, <2>18, <2>19, <2>20
    DEF Next, Step, Terminated
<1>3. GroupsDisjoint /\ OnceInv /\ [Next]_vars => OnceInv'
  BY OnceInvStep
<1>4. GroupsDisjoint => GroupsDisjoint'
  BY DEF GroupsDisjoint
<1> QED
  BY <1>1, <1>2, <1>3, <1>4, OnceInvInit, PTL DEF Spec, Refinement, Promise!Spec

-----------------------------------------------------------------------------
(* The order of the units and the groups *)

\* A coroutine goes from one step of (async_)series_upgrade to another, or stops.
Moved(a) ==
  /\ UNCHANGED <<todo, cur, completed>>
  /\ \/ UNCHANGED pc
     \/ /\ pc[a] \in UpgradeSteps
        /\ \E l \in UpgradeSteps : pc' = [pc EXCEPT ![a] = l]

\* What the steps within (async_)series_upgrade may do to the coroutine.
LEMMA StepsWithinUpgrade ==
  ASSUME NEW a \in Apps,
         \/ DistUpgrade(a) \/ Prepare(a) \/ ReleaseUpgrade(a) \/ ReleaseUpgradeFails(a)
         \/ Reboot(a) \/ SetOrigin(a) \/ Complete(a) \/ Post(a) \/ Fail(a)
  PROVE  Moved(a)
<1> USE DEF Moved
<1>1. DistUpgrade(a) => Moved(a)
  BY DEF DistUpgrade
<1>2. Prepare(a) => Moved(a)
  BY DEF Prepare
<1>3. ReleaseUpgrade(a) \/ ReleaseUpgradeFails(a) => Moved(a)
  BY DEF ReleaseUpgrade, ReleaseUpgradeFails
<1>4. Reboot(a) => Moved(a)
  BY DEF Reboot
<1>5. SetOrigin(a) => Moved(a)
  BY DEF SetOrigin
<1>6. Complete(a) => Moved(a)
  BY DEF Complete
<1>7. Post(a) \/ Fail(a) => Moved(a)
  BY DEF Post, Fail
<1> QED
  BY <1>1, <1>2, <1>3, <1>4, <1>5, <1>6, <1>7

\* The driver, Juju and the machines leave the coroutines alone.
LEMMA OtherSteps ==
  CompleteCluster \/ EndGroup \/ Environment \/ UNCHANGED vars
    => UNCHANGED <<pc, todo, cur, completed>>
BY DEF CompleteCluster, EndGroup, Environment, StartHook, FinishHook, BootUp, vars

\* Every unit of an application whose loops have begun is still to be reached, on
\* a completed machine or being upgraded; and the roles are in order.
ProgressOf(a) ==
  /\ pc[a] \notin {"waiting", "pause"} =>
       \A u \in UnitsOf[a] : \/ u \in todo[a] \/ MachineOf[u] \in completed
                             \/ pc[a] \in UpgradeSteps /\ cur[a] = u
  /\ pc[a] = "done" => todo[a] = {}
  /\ pc[a] \in UpgradeSteps =>
       IF a \in SecondaryFirst
         THEN cur[a] = Leader[a] => \A u \in NonLeaders(a) : MachineOf[u] \in completed
         ELSE cur[a] # Leader[a] => MachineOf[Leader[a]] \in completed

ProgressInv == \A a \in Apps : ProgressOf(a)

\* Machines are only added to completed_machines: what the step of another
\* coroutine leaves of ProgressOf.
LEMMA ProgressKept ==
  ASSUME NEW a \in Apps, ProgressOf(a), completed \subseteq completed',
         pc'[a] = pc[a], todo'[a] = todo[a], cur'[a] = cur[a]
  PROVE  ProgressOf(a)'
BY DEF ProgressOf

\* Every step keeps ProgressInv.
LEMMA ProgressStep == TypeInv /\ ProgressInv /\ [Next]_vars => ProgressInv'
<1> SUFFICES ASSUME TypeInv, ProgressInv, [Next]_vars, NEW b \in Apps PROVE ProgressOf(b)'
  BY DEF ProgressInv
<1>0. /\ pc \in [Apps -> Labels] /\ todo \in [Apps -> SUBSET Units]
      /\ cur \in [Apps -> Units \cup {NoUnit}]
      /\ ProgressOf(b)
      /\ Leader[b] \in UnitsOf[b]
  BY DeploymentAssumption DEF TypeInv, TypeOK, ProgressInv
<1>1. ASSUME NEW a \in Apps, GetStatus(a) PROVE ProgressOf(b)'
  BY <1>0, <1>1 DEF GetStatus, ProgressOf
<1>2. ASSUME NEW a \in Apps, PauseNonLeaders(a) PROVE ProgressOf(b)'
  BY <1>0, <1>2 DEF PauseNonLeaders, ProgressOf
<1>3. ASSUME NEW a \in Apps, PauseNextNonLeader(a) PROVE ProgressOf(b)'
  BY <1>0, <1>3 DEF PauseNextNonLeader, ProgressOf
<1>4. ASSUME NEW a \in Apps, StartUnit(a) PROVE ProgressOf(b)'
  <2>1. PICK u \in NextUnits(a) : /\ cur' = [cur EXCEPT ![a] = u]
                                 /\ todo' = [todo EXCEPT ![a] = @ \ {u}]
    BY <1>4 DEF StartUnit
  <2>2. pc[a] = "next" /\ pc' = [pc EXCEPT ![a] = "dist_upgrade"] /\ UNCHANGED completed
    BY <1>4 DEF StartUnit
  <2>3. CASE a # b
    BY <1>0, <2>1, <2>2, <2>3, ProgressKept
  <2>4. CASE a = b
    <3>1. \A v \in UnitsOf[b] : v \in todo[b] \/ MachineOf[v] \in completed
      BY <1>0, <2>2, <2>4 DEF ProgressOf
    <3>2. IF b \in SecondaryFirst
            THEN u = Leader[b] => \A v \in NonLeaders(b) : MachineOf[v] \in completed
            ELSE u # Leader[b] => MachineOf[Leader[b]] \in completed
      BY <1>0, <2>1, <2>4, <3>1 DEF NextUnits
    <3>3. pc'[b] = "dist_upgrade" /\ cur'[b] = u /\ todo'[b] = todo[b] \ {u}
      BY <1>0, <2>1, <2>2, <2>4
    <3> QED
      BY <2>2, <3>1, <3>2, <3>3 DEF ProgressOf
  <2> QED
    BY <2>3, <2>4
<1>5. ASSUME NEW a \in Apps, SkipUnit(a) PROVE ProgressOf(b)'
  <2>1. PICK u \in NextUnits(a) : /\ MachineOf[u] \in completed
                                 /\ cur' = [cur EXCEPT ![a] = u]
                                 /\ todo' = [todo EXCEPT ![a] = @ \ {u}]
    BY <1>5 DEF SkipUnit, AlreadyUpgraded
  <2>2. /\ pc[a] = "next" /\ UNCHANGED completed
        /\ \/ pc' = [pc EXCEPT ![a] = "skip"] \/ UNCHANGED pc
    BY <1>5 DEF SkipUnit
  <2>3. CASE a # b
    BY <1>0, <2>1, <2>2, <2>3, ProgressKept
  <2>4. CASE a = b
    <3>1. \A v \in UnitsOf[b] : v \in todo[b] \/ MachineOf[v] \in completed
      BY <1>0, <2>2, <2>4 DEF ProgressOf
    <3>2. pc'[b] \in {"skip", "next"} /\ todo'[b] = todo[b] \ {u}
      BY <1>0, <2>1, <2>2, <2>4
    <3> QED
      BY <2>1, <2>2, <3>1, <3>2 DEF ProgressOf
  <2> QED
    BY <2>3, <2>4
<1>6. ASSUME NEW a \in Apps, EndSkip(a) PROVE ProgressOf(b)'
  BY <1>0, <1>6 DEF EndSkip, ProgressOf
<1>7. ASSUME NEW a \in Apps, EndApp(a) PROVE ProgressOf(b)'
  BY <1>0, <1>7 DEF EndApp, ProgressOf
<1>8. ASSUME NEW a \in Apps, SetSeries(a) PROVE ProgressOf(b)'
  <2>1. /\ pc[a] = "set_series" /\ pc' = [pc EXCEPT ![a] = "next"] /\ UNCHANGED todo
        /\ cur' = [cur EXCEPT ![a] = NoUnit]
        /\ completed' = completed \cup {MachineOf[cur[a]]}
    BY <1>8 DEF SetSeries
  <2>2. CASE a # b
    BY <1>0, <2>1, <2>2, ProgressKept
  <2>3. CASE a = b
    BY <1>0, <2>1, <2>3 DEF ProgressOf
  <2> QED
    BY <2>2, <2>3
<1>9. ASSUME NEW a \in Apps, Moved(a) PROVE ProgressOf(b)'
  BY <1>0, <1>9 DEF Moved, ProgressOf
<1>10. CASE UNCHANGED <<pc, todo, cur, completed>>
  BY <1>0, <1>10, ProgressKept
<1> QED
  BY <1>1, <1>2, <1>3, <1>4, <1>5, <1>6, <1>7, <1>8, <1>9, <1>10, StepsWithinUpgrade, OtherSteps
     DEF Next, Step, Terminated

\* The coroutines of the groups before this one have returned, and at the end
\* there is no group left.
GroupsInv ==
  /\ \A i \in 1..Len(Groups) : i < group => \A a \in Groups[i] : pc[a] = "done"
  /\ driver = "done" => group = Len(Groups) + 1

\* A coroutine that returned takes no further step, and the driver turns to the
\* next group only when all have returned.
LEMMA GroupsStep == TypeInv /\ GroupsInv /\ [Next]_vars => GroupsInv'
<1> SUFFICES ASSUME TypeInv, GroupsInv, [Next]_vars PROVE GroupsInv'
  OBVIOUS
<1>0. /\ pc \in [Apps -> Labels] /\ group \in 1..(Len(Groups) + 1) /\ Len(Groups) \in Nat
      /\ \A i \in 1..Len(Groups) : Groups[i] \subseteq Apps
  BY ConfigAssumption DEF TypeInv, TypeOK
<1>1. CASE /\ UNCHANGED group /\ (driver' # "done" \/ UNCHANGED driver)
           /\ \A a \in Apps : pc[a] = "done" => pc'[a] = "done"
  BY <1>0, <1>1 DEF GroupsInv
<1>2. ASSUME NEW a \in Apps, Step(a) \/ ReleaseUpgradeFails(a) \/ Fail(a)
      PROVE  /\ UNCHANGED group /\ (driver' # "done" \/ UNCHANGED driver)
             /\ \A b \in Apps : pc[b] = "done" => pc'[b] = "done"
  <2>1. UNCHANGED group /\ (driver' = "raised" \/ UNCHANGED driver)
    BY <1>2 DEF Step, GetStatus, PauseNonLeaders, PauseNextNonLeader, StartUnit, SkipUnit, EndSkip,
                EndApp, DistUpgrade, Prepare, ReleaseUpgrade, ReleaseUpgradeFails, Reboot,
                SetOrigin, Complete, Post, SetSeries, Fail
  <2>2. \/ UNCHANGED pc
        \/ pc[a] # "done" /\ \E l \in Labels : pc' = [pc EXCEPT ![a] = l]
    <3>1. CASE Moved(a)
      BY <3>1 DEF Moved
    <3>2. GetStatus(a) \/ PauseNonLeaders(a) \/ PauseNextNonLeader(a) \/ StartUnit(a)
            => \/ UNCHANGED pc
               \/ pc[a] # "done" /\ \E l \in Labels : pc' = [pc EXCEPT ![a] = l]
      BY DEF GetStatus, PauseNonLeaders, PauseNextNonLeader, StartUnit
    <3>3. SkipUnit(a) \/ EndSkip(a) \/ EndApp(a) \/ SetSeries(a)
            => \/ UNCHANGED pc
               \/ pc[a] # "done" /\ \E l \in Labels : pc' = [pc EXCEPT ![a] = l]
      BY DEF SkipUnit, EndSkip, EndApp, SetSeries
    <3> QED
      BY <1>2, <3>1, <3>2, <3>3, StepsWithinUpgrade DEF Step
  <2> QED
    BY <1>0, <2>1, <2>2
<1>3. CASE EndGroup
  <2>1. /\ group' = group + 1 /\ UNCHANGED pc
        /\ \A a \in Groups[group] : pc[a] = "done"
        /\ driver' = IF group = Len(Groups) THEN "done" ELSE "running"
    BY <1>3 DEF EndGroup
  <2> QED
    BY <1>0, <2>1 DEF GroupsInv
<1>4. CompleteCluster \/ Environment \/ UNCHANGED vars
        => UNCHANGED <<group, pc>> /\ (driver' = "raised" \/ UNCHANGED driver)
  BY DEF CompleteCluster, Environment, StartHook, FinishHook, BootUp, vars
<1> QED
  BY <1>1, <1>2, <1>3, <1>4 DEF Next, Terminated

\* The two invariants of this part, with the type invariant they rest on.
OrderInv == TypeInv /\ ProgressInv /\ GroupsInv

\* They hold in every state.
LEMMA OrderInvariant == Spec => []OrderInv
<1>1. Init => ProgressInv /\ GroupsInv
  BY ConfigAssumption DEF Init, ProgressInv, ProgressOf, GroupsInv
<1> QED
  BY <1>1, TypeInvInit, TypeInvStep, ProgressStep, GroupsStep, PTL DEF Spec, OrderInv

\* In every deployment, however the coroutines interleave, an application upgrades
\* its leader before its non-leaders, or after all of them where app_config says so.
THEOREM RolesInOrder == Spec => []RoleOrder
<1>1. OrderInv => RoleOrder
  BY DEF OrderInv, ProgressInv, ProgressOf, RoleOrder, Upgrading
<1> QED
  BY <1>1, OrderInvariant, PTL

\* When the driver turns to a group, every machine of the groups before it has
\* been upgraded, whichever coroutine did it.
THEOREM GroupsInOrder == Spec => []EarlierGroupsUpgraded
<1>1. ASSUME OrderInv PROVE EarlierGroupsUpgraded
  <2>1. ASSUME NEW i \in 1..Len(Groups), i < group, NEW a \in Groups[i], NEW u \in UnitsOf[a]
        PROVE  MachineOf[u] \in completed
    <3>1. a \in Apps /\ pc[a] = "done"
      BY <1>1, <2>1, GroupType DEF OrderInv, GroupsInv
    <3>2. ProgressOf(a)
      BY <1>1, <3>1 DEF OrderInv, ProgressInv
    <3> QED
      BY <2>1, <3>1, <3>2 DEF ProgressOf
  <2>2. DOMAIN Groups = 1..Len(Groups)
    BY ConfigAssumption
  <2> QED
    BY <2>1, <2>2 DEF EarlierGroupsUpgraded
<1> QED
  BY <1>1, OrderInvariant, PTL

-----------------------------------------------------------------------------
(* Paused non-leaders *)

\* The leader of the application has not been upgraded or skipped yet.
LeaderPending(a) ==
  \/ pc[a] \in {"waiting", "pause"}
  \/ pc[a] = "next" /\ Leader[a] \in todo[a]
  \/ pc[a] \in UpgradeSteps /\ cur[a] = Leader[a]

\* Until then nobody has touched the hooks of a non-leader that has its machine
\* to itself, so what was paused stays paused.
PausedOf(a) ==
  /\ pc[a] = "pause" => todo[a] = NonLeaders(a)
  /\ pc[a] \in UpgradeSteps \cup {"skip"} => Leader[a] \notin todo[a]
  /\ LeaderPending(a) =>
       \A u \in NonLeaders(a) : Shared(u) \/ hook[u] = "none"
  /\ LeaderPending(a) /\ pc[a] \notin {"waiting", "pause"} =>
       \A u \in NonLeaders(a) : Shared(u) \/ {u} \X PauseKinds[a] \subseteq paused

PausedInv == \A a \in Apps \ SecondaryFirst : PausedOf(a)

\* A non-leader alone on its machine keeps its hooks and its pause while its leader
\* is pending: prepare and complete reach the machines under upgrade only, and a
\* hook that ends resumes its own unit.
LEMMA AloneKept ==
  ASSUME TypeInv, [Next]_vars, NEW a \in Apps, NEW u \in NonLeaders(a), ~Shared(u),
         LeaderPending(a), hook[u] = "none"
  PROVE  hook'[u] = "none" /\ \A k : <<u, k>> \in paused => <<u, k>> \in paused'
<1>0. /\ u \in Units /\ u \in UnitsOf[a] /\ u # Leader[a]
      /\ hook \in [Units -> HookPhases]
  BY DeploymentAssumption DEF TypeInv, TypeOK
<1>1. ASSUME NEW b \in Apps, Prepare(b)
      PROVE  hook'[u] = "none" /\ UNCHANGED paused
  <2>1. cur[b] \in UnitsOf[b] /\ cur[b] \in Units
    BY <1>1, DeploymentAssumption DEF Prepare, TypeInv, OwnUnits
  <2>2. MachineOf[u] # MachineOf[cur[b]]
    <3>1. SUFFICES ASSUME MachineOf[cur[b]] = MachineOf[u] PROVE FALSE
      OBVIOUS
    <3>2. cur[b] = u
      BY <1>0, <2>1, <3>1 DEF Shared
    <3>3. b = a
      BY <1>0, <2>1, <3>2, DeploymentAssumption
    <3> QED
      BY <1>0, <1>1, <3>2, <3>3 DEF Prepare, LeaderPending
  <2> QED
    BY <1>0, <1>1, <2>2 DEF Prepare
<1>2. ASSUME NEW b \in Apps, Complete(b)
      PROVE  hook'[u] = "none" /\ UNCHANGED paused
  BY <1>0, <1>2 DEF Complete, UnitsOn
<1>3. ASSUME NEW v \in Units, StartHook(v)
      PROVE  hook'[u] = "none" /\ UNCHANGED paused
  BY <1>0, <1>3 DEF StartHook
<1>4. ASSUME NEW v \in Units, FinishHook(v)
      PROVE  hook'[u] = "none" /\ \A k : <<u, k>> \in paused => <<u, k>> \in paused'
  <2>1. v # u
    BY <1>4 DEF FinishHook
  <2> QED
    BY <1>0, <1>4, <2>1 DEF FinishHook
<1>5. CASE UNCHANGED hook /\ paused \subseteq paused'
  BY <1>5
<1>6. \A b \in Apps : PauseNonLeaders(b) \/ PauseNextNonLeader(b)
                        => UNCHANGED hook /\ paused \subseteq paused'
  BY DEF PauseNonLeaders, PauseNextNonLeader
<1>7. \A b \in Apps : GetStatus(b) \/ StartUnit(b) \/ SkipUnit(b) \/ EndSkip(b) \/ EndApp(b)
                        => UNCHANGED <<hook, paused>>
  BY DEF GetStatus, StartUnit, SkipUnit, EndSkip, EndApp
<1>8. \A b \in Apps : DistUpgrade(b) \/ ReleaseUpgrade(b) \/ ReleaseUpgradeFails(b) \/ Reboot(b)
                          \/ SetOrigin(b) \/ Post(b) \/ SetSeries(b) \/ Fail(b)
                        => UNCHANGED <<hook, paused>>
  BY DEF DistUpgrade, ReleaseUpgrade, ReleaseUpgradeFails, Reboot, SetOrigin, Post, SetSeries, Fail
<1>9. CompleteCluster \/ EndGroup \/ UNCHANGED vars => UNCHANGED <<hook, paused>>
  BY DEF CompleteCluster, EndGroup, vars
<1>10. \A m \in Machines : BootUp(m) => UNCHANGED <<hook, paused>>
  BY DEF BootUp
<1> QED
  BY <1>1, <1>2, <1>3, <1>4, <1>5, <1>6, <1>7, <1>8, <1>9, <1>10
     DEF Next, Step, Environment, Terminated

\* A step that leaves the leader of b pending only if it was, and starts no loop,
\* keeps PausedOf(b).
LEMMA PausedKept ==
  ASSUME TypeInv, [Next]_vars, NEW b \in Apps, PausedOf(b),
         LeaderPending(b)' => LeaderPending(b),
         pc'[b] \notin {"waiting", "pause"} => pc[b] \notin {"waiting", "pause"},
         pc'[b] = "pause" => todo'[b] = NonLeaders(b),
         pc'[b] \in UpgradeSteps \cup {"skip"} => Leader[b] \notin todo'[b]
  PROVE  PausedOf(b)'
<1>1. LeaderPending(b)' => \A u \in NonLeaders(b) : Shared(u)' \/ hook'[u] = "none"
  BY AloneKept DEF PausedOf, Shared
<1>2. ASSUME LeaderPending(b)', pc'[b] \notin {"waiting", "pause"}, NEW u \in NonLeaders(b),
             ~Shared(u)
      PROVE  {u} \X PauseKinds[b] \subseteq paused'
  <2>1. hook[u] = "none" /\ {u} \X PauseKinds[b] \subseteq paused
    BY <1>2 DEF PausedOf
  <2>2. \A k : <<u, k>> \in paused => <<u, k>> \in paused'
    BY <1>2, <2>1, AloneKept
  <2> QED
    BY <2>1, <2>2
<1>3. \A u : Shared(u)' <=> Shared(u)
  BY DEF Shared
<1>4. LeaderPending(b)' /\ pc'[b] \notin {"waiting", "pause"} =>
        \A u \in NonLeaders(b) : Shared(u) \/ {u} \X PauseKinds[b] \subseteq paused'
  BY <1>2
<1> QED
  BY <1>1, <1>3, <1>4 DEF PausedOf

\* Every step keeps PausedInv.
LEMMA PausedStep == TypeInv /\ PausedInv /\ [Next]_vars => PausedInv'
<1> SUFFICES ASSUME TypeInv, PausedInv, [Next]_vars, NEW b \in Apps \ SecondaryFirst
             PROVE  PausedOf(b)'
  BY DEF PausedInv
<1>0. /\ pc \in [Apps -> Labels] /\ todo \in [Apps -> SUBSET Units]
      /\ cur \in [Apps -> Units \cup {NoUnit}]
      /\ PausedOf(b)
  BY DEF TypeInv, TypeOK, PausedInv
<1>1. CASE pc'[b] = pc[b] /\ todo'[b] = todo[b] /\ cur'[b] = cur[b]
  <2>1. LeaderPending(b)' <=> LeaderPending(b)
    BY <1>1 DEF LeaderPending
  <2> QED
    BY <1>0, <1>1, <2>1, PausedKept DEF PausedOf
<1>2. ASSUME GetStatus(b) PROVE PausedOf(b)'
  BY <1>0, <1>2, PausedKept DEF GetStatus, LeaderPending, PausedOf
<1>3. ASSUME PauseNonLeaders(b) PROVE PausedOf(b)'
  <2>1. /\ paused' = paused \cup (NonLeaders(b) \X PauseKinds[b]) /\ pc[b] = "pause"
        /\ pc'[b] = "next" /\ UNCHANGED hook
    BY <1>0, <1>3 DEF PauseNonLeaders, PausedOf
  <2>2. \A u \in NonLeaders(b) : Shared(u) \/ hook[u] = "none"
    BY <1>0, <2>1 DEF PausedOf, LeaderPending
  <2>3. \A u : Shared(u)' <=> Shared(u)
    BY DEF Shared
  <2>4. \A u \in NonLeaders(b) : {u} \X PauseKinds[b] \subseteq paused'
    BY <2>1
  <2> QED
    BY <2>1, <2>2, <2>3, <2>4 DEF PausedOf
<1>4. ASSUME StartUnit(b) PROVE PausedOf(b)'
  <2>1. PICK u \in NextUnits(b) : /\ cur' = [cur EXCEPT ![b] = u]
                                 /\ todo' = [todo EXCEPT ![b] = @ \ {u}]
    BY <1>4 DEF StartUnit
  <2>2. pc[b] = "next" /\ pc'[b] = "dist_upgrade"
    BY <1>0, <1>4 DEF StartUnit
  <2>3. Leader[b] \notin todo[b] \ {u} /\ (u = Leader[b] => Leader[b] \in todo[b])
    BY <2>1 DEF NextUnits
  <2>4. cur'[b] = u /\ todo'[b] = todo[b] \ {u}
    BY <1>0, <2>1
  <2> QED
    BY <1>0, <2>2, <2>3, <2>4, PausedKept DEF LeaderPending
<1>5. ASSUME SkipUnit(b) PROVE PausedOf(b)'
  <2>1. PICK u \in NextUnits(b) : /\ cur' = [cur EXCEPT ![b] = u]
                                 /\ todo' = [todo EXCEPT ![b] = @ \ {u}]
    BY <1>5 DEF SkipUnit
  <2>2. pc[b] = "next" /\ pc'[b] \in {"skip", "next"}
    BY <1>0, <1>5 DEF SkipUnit
  <2>3. Leader[b] \notin todo[b] \ {u}
    BY <2>1 DEF NextUnits
  <2>4. cur'[b] = u /\ todo'[b] = todo[b] \ {u}
    BY <1>0, <2>1
  <2> QED
    BY <1>0, <2>2, <2>3, <2>4, PausedKept DEF LeaderPending
<1>6. ASSUME EndSkip(b) PROVE PausedOf(b)'
  BY <1>0, <1>6, PausedKept DEF EndSkip, LeaderPending, PausedOf
<1>7. ASSUME EndApp(b) PROVE PausedOf(b)'
  BY <1>0, <1>7, PausedKept DEF EndApp, LeaderPending, PausedOf
<1>8. ASSUME SetSeries(b) PROVE PausedOf(b)'
  BY <1>0, <1>8, PausedKept DEF SetSeries, LeaderPending, PausedOf
<1>9. ASSUME Moved(b) PROVE PausedOf(b)'
  BY <1>0, <1>9, PausedKept DEF Moved, LeaderPending, PausedOf
<1>10. ~PauseNextNonLeader(b)
  BY DEF PauseNextNonLeader
<1>11. ASSUME NEW a \in Apps \ {b}, Step(a) \/ ReleaseUpgradeFails(a) \/ Fail(a)
       PROVE  pc'[b] = pc[b] /\ todo'[b] = todo[b] /\ cur'[b] = cur[b]
  <2>1. CASE Moved(a)
    BY <1>0, <2>1 DEF Moved
  <2>2. GetStatus(a) \/ PauseNonLeaders(a) \/ PauseNextNonLeader(a)
          => pc'[b] = pc[b] /\ todo'[b] = todo[b] /\ cur'[b] = cur[b]
    BY <1>0 DEF GetStatus, PauseNonLeaders, PauseNextNonLeader
  <2>3. StartUnit(a) \/ SkipUnit(a)
          => pc'[b] = pc[b] /\ todo'[b] = todo[b] /\ cur'[b] = cur[b]
    BY <1>0 DEF StartUnit, SkipUnit
  <2>4. EndSkip(a) \/ EndApp(a) \/ SetSeries(a)
          => pc'[b] = pc[b] /\ todo'[b] = todo[b] /\ cur'[b] = cur[b]
    BY <1>0 DEF EndSkip, EndApp, SetSeries
  <2> QED
    BY <1>11, <2>1, <2>2, <2>3, <2>4, StepsWithinUpgrade DEF Step
<1>12. ASSUME Step(b) \/ ReleaseUpgradeFails(b) \/ Fail(b) PROVE PausedOf(b)'
  BY <1>2, <1>3, <1>4, <1>5, <1>6, <1>7, <1>8, <1>9, <1>10, <1>12, StepsWithinUpgrade DEF Step
<1> QED
  BY <1>1, <1>11, <1>12, OtherSteps DEF Next, Terminated

\* In every deployment, while an application that upgrades its leader first
\* upgrades it, all its non-leaders with a machine of their own are paused as
\* app_config asks, whatever the other coroutines and the hooks do.
THEOREM NonLeadersPaused == Spec => []PausedWhileLeaderUpgrades
<1>1. Init => PausedInv
  BY DeploymentAssumption DEF Init, PausedInv, PausedOf, LeaderPending
<1>2. PausedInv => PausedWhileLeaderUpgrades
  BY DEF PausedInv, PausedOf, LeaderPending, PausedWhileLeaderUpgrades, Upgrading
<1> QED
  BY <1>1, <1>2, TypeInvInit, TypeInvStep, PausedStep, PTL DEF Spec

-----------------------------------------------------------------------------
(* Resumed units *)

\* The loops of the application have reached the unit, and have it in hand.
Reached(a, u) == pc[a] \notin {"waiting", "pause"} /\ u \notin todo[a]
InHand(a, u) == pc[a] \in UpgradeSteps /\ cur[a] = u

\* The coroutine is past juju upgrade-series complete.
Completing(a) == pc[a] \in {"post", "set_series"} \/ (pc[a] = "set_origin" /\ ~IsAsync)

InService(u) == hook[u] = "none" /\ u \notin {p[1] : p \in paused}

CompleteHook(u) == hook[u] \in {"complete_pending", "complete_running"}

\* A unit alone on its machine is upgraded by its own coroutine only, which
\* leaves it when the hook that resumes it is over.
ResumedOf(a, u) ==
  /\ ~Reached(a, u) \/ InHand(a, u) => MachineOf[u] \notin completed
  /\ InHand(a, u) => Reached(a, u)
  /\ Reached(a, u) /\ ~InHand(a, u) => InService(u)
  /\ InHand(a, u) /\ Completing(a) => CompleteHook(u) \/ InService(u)

ResumedInv == \A a \in Apps : \A u \in UnitsOf[a] : Shared(u) \/ ResumedOf(a, u)

\* What any step may do to a unit that is alone on its machine: only SetSeries of
\* its own coroutine completes the machine, a unit in service is paused or
\* prepared by its own coroutine only, and the end of the complete hook resumes it.
LEMMA AloneStep ==
  ASSUME TypeInv, [Next]_vars, NEW a \in Apps, NEW u \in UnitsOf[a], ~Shared(u)
  PROVE  /\ MachineOf[u] \in completed' =>
              MachineOf[u] \in completed \/ (SetSeries(a) /\ cur[a] = u)
         /\ InService(u) /\ pc[a] # "pause" /\ ~(pc[a] = "prepare" /\ cur[a] = u)
              => InService(u)'
         /\ CompleteHook(u) => CompleteHook(u)' \/ (pc[a] # "pause" => InService(u)')
<1>0. /\ u \in Units /\ hook \in [Units -> HookPhases]
      /\ paused \subseteq Units \X {"primary", "subordinate"}
  BY DeploymentAssumption DEF TypeInv, TypeOK
<1>00. ASSUME NEW b \in Apps, Upgrading(b), MachineOf[cur[b]] = MachineOf[u]
       PROVE  b = a /\ cur[b] = u
  <2>1. cur[b] \in UnitsOf[b] /\ cur[b] \in Units
    BY <1>00, DeploymentAssumption DEF Upgrading, TypeInv, OwnUnits
  <2>2. cur[b] = u
    BY <1>0, <1>00, <2>1 DEF Shared
  <2> QED
    BY <2>1, <2>2, DeploymentAssumption
<1> USE DEF InService, CompleteHook
<1>1. ASSUME NEW b \in Apps, SetSeries(b)
      PROVE  /\ UNCHANGED <<hook, paused>>
             /\ MachineOf[u] \in completed' =>
                  MachineOf[u] \in completed \/ (SetSeries(a) /\ cur[a] = u)
  <2>1. completed' = completed \cup {MachineOf[cur[b]]} /\ UNCHANGED <<hook, paused>> /\ Upgrading(b)
    BY <1>1 DEF SetSeries, Upgrading
  <2> QED
    BY <1>00, <1>1, <2>1
<1>2. ASSUME NEW b \in Apps, Prepare(b)
      PROVE  /\ UNCHANGED <<paused, completed>>
             /\ UNCHANGED hook \/ (hook[u] = "none" /\ cur[a] = u /\ pc[a] = "prepare")
                  \/ hook'[u] = hook[u]
  <2>1. /\ UNCHANGED <<paused, completed>> /\ pc[b] = "prepare" /\ Upgrading(b)
        /\ \/ UNCHANGED hook
           \/ /\ \A v \in UnitsOn(MachineOf[cur[b]]) : hook[v] = "none"
              /\ hook' = [v \in Units |-> IF MachineOf[v] = MachineOf[cur[b]]
                                             THEN "prepare_pending" ELSE hook[v]]
    BY <1>2 DEF Prepare, Upgrading
  <2>2. CASE MachineOf[cur[b]] = MachineOf[u]
    BY <1>0, <1>00, <2>1, <2>2 DEF UnitsOn
  <2>3. CASE MachineOf[cur[b]] # MachineOf[u]
    BY <1>0, <2>1, <2>3
  <2> QED
    BY <2>2, <2>3
<1>3. ASSUME NEW b \in Apps, Complete(b)
      PROVE  /\ UNCHANGED <<paused, completed>>
             /\ hook[u] \in {"none", "complete_pending", "complete_running"} => hook'[u] = hook[u]
  <2>1. /\ UNCHANGED <<paused, completed>>
        /\ \/ UNCHANGED hook
           \/ /\ \A v \in UnitsOn(MachineOf[cur[b]]) : hook[v] = "prepared"
              /\ hook' = [v \in Units |-> IF MachineOf[v] = MachineOf[cur[b]]
                                             THEN "complete_pending" ELSE hook[v]]
    BY <1>3 DEF Complete
  <2> QED
    BY <1>0, <2>1 DEF UnitsOn
<1>4. ASSUME NEW v \in Units, StartHook(v)
      PROVE  /\ UNCHANGED <<paused, completed>> /\ (hook[u] = "none" => hook'[u] = "none")
             /\ CompleteHook(u) => CompleteHook(u)'
  BY <1>0, <1>4 DEF StartHook
<1>5. ASSUME NEW v \in Units, FinishHook(v)
      PROVE  /\ UNCHANGED completed /\ (InService(u) => InService(u)')
             /\ CompleteHook(u) => CompleteHook(u)' \/ InService(u)'
  BY <1>0, <1>5 DEF FinishHook
<1>6. ASSUME NEW b \in Apps, PauseNonLeaders(b) \/ PauseNextNonLeader(b)
      PROVE  /\ UNCHANGED <<hook, completed>>
             /\ pc[a] # "pause" /\ u \notin {p[1] : p \in paused} => u \notin {p[1] : p \in paused'}
  <2>1. /\ UNCHANGED <<hook, completed>> /\ pc[b] = "pause"
        /\ \/ paused' = paused
           \/ \E us \in SUBSET todo[b] : paused' = paused \cup (us \X PauseKinds[b])
    BY <1>6 DEF PauseNonLeaders, PauseNextNonLeader
  <2>2. todo[b] \subseteq UnitsOf[b]
    BY DEF TypeInv, OwnUnits
  <2>3. CASE b = a
    BY <2>1, <2>3
  <2>4. CASE b # a
    <3>1. u \notin todo[b]
      BY <2>2, <2>4, DeploymentAssumption
    <3> QED
      BY <2>1, <3>1
  <2> QED
    BY <2>3, <2>4
<1>7. CASE UNCHANGED <<hook, paused, completed>>
  BY <1>7
<1>8. \A b \in Apps : GetStatus(b) \/ StartUnit(b) \/ SkipUnit(b) \/ EndSkip(b) \/ EndApp(b)
                        => UNCHANGED <<hook, paused, completed>>
  BY DEF GetStatus, StartUnit, SkipUnit, EndSkip, EndApp
<1>9. \A b \in Apps : DistUpgrade(b) \/ ReleaseUpgrade(b) \/ ReleaseUpgradeFails(b) \/ Reboot(b)
                          \/ SetOrigin(b) \/ Post(b) \/ Fail(b)
                        => UNCHANGED <<hook, paused, completed>>
  BY DEF DistUpgrade, ReleaseUpgrade, ReleaseUpgradeFails, Reboot, SetOrigin, Post, Fail
<1>10. CompleteCluster \/ EndGroup \/ UNCHANGED vars => UNCHANGED <<hook, paused, completed>>
  BY DEF CompleteCluster, EndGroup, vars
<1>11. \A m \in Machines : BootUp(m) => UNCHANGED <<hook, paused, completed>>
  BY DEF BootUp
<1> QED
  BY <1>1, <1>2, <1>3, <1>4, <1>5, <1>6, <1>7, <1>8, <1>9, <1>10, <1>11
     DEF Next, Step, Environment, Terminated

\* Every step keeps ResumedInv.
LEMMA ResumedStep == TypeInv /\ ResumedInv /\ [Next]_vars => ResumedInv'
<1> SUFFICES ASSUME TypeInv, ResumedInv, [Next]_vars, NEW a \in Apps, NEW u \in UnitsOf[a],
                    ~Shared(u)
             PROVE  ResumedOf(a, u)'
  BY DEF ResumedInv, Shared
<1>0. /\ pc \in [Apps -> Labels] /\ todo \in [Apps -> SUBSET Units]
      /\ cur \in [Apps -> Units \cup {NoUnit}] /\ u \in Units /\ u # NoUnit
      /\ ResumedOf(a, u)
  BY DeploymentAssumption, ConfigAssumption DEF TypeInv, TypeOK, ResumedInv
<1>1. /\ MachineOf[u] \in completed' =>
           MachineOf[u] \in completed \/ (SetSeries(a) /\ cur[a] = u)
      /\ InService(u) /\ pc[a] # "pause" /\ ~(pc[a] = "prepare" /\ cur[a] = u)
           => InService(u)'
      /\ CompleteHook(u) => CompleteHook(u)' \/ (pc[a] # "pause" => InService(u)')
  BY AloneStep
<1>2. CASE pc'[a] = pc[a] /\ todo'[a] = todo[a] /\ cur'[a] = cur[a]
  <2>1. /\ Reached(a, u)' <=> Reached(a, u)
        /\ InHand(a, u)' <=> InHand(a, u)
        /\ Completing(a)' <=> Completing(a)
    BY <1>2 DEF Reached, InHand, Completing
  <2>2. ~SetSeries(a)
    BY <1>0, <1>2 DEF SetSeries
  <2>3. Reached(a, u) => pc[a] # "pause"
    BY DEF Reached
  <2>4. Completing(a) => pc[a] \notin {"pause", "prepare"}
    BY DEF Completing
  <2>5. pc[a] = "prepare" /\ cur[a] = u => InHand(a, u)
    BY DEF InHand
  <2> QED
    BY <1>0, <1>1, <2>1, <2>2, <2>3, <2>4, <2>5 DEF ResumedOf
<1>3. ASSUME GetStatus(a) PROVE ResumedOf(a, u)'
  BY <1>0, <1>1, <1>3 DEF GetStatus, ResumedOf, Reached, InHand, Completing, SetSeries
<1>4. ASSUME PauseNonLeaders(a) \/ PauseNextNonLeader(a) PROVE ResumedOf(a, u)'
  <2>1. /\ pc[a] = "pause" /\ UNCHANGED completed
        /\ \/ pc'[a] = "pause"
           \/ pc'[a] = "next" /\ todo'[a] = UnitsOf[a]
    BY <1>0, <1>4 DEF PauseNonLeaders, PauseNextNonLeader
  <2> QED
    BY <1>0, <2>1 DEF ResumedOf, Reached, InHand, Completing
<1>5. ASSUME StartUnit(a) PROVE ResumedOf(a, u)'
  <2>1. PICK v \in NextUnits(a) : /\ cur' = [cur EXCEPT ![a] = v]
                                 /\ todo' = [todo EXCEPT ![a] = @ \ {v}]
                                 /\ MachineOf[v] \notin completed
    BY <1>5 DEF StartUnit, AlreadyUpgraded
  <2>2. /\ pc[a] = "next" /\ pc'[a] = "dist_upgrade" /\ UNCHANGED completed
        /\ cur'[a] = v /\ todo'[a] = todo[a] \ {v} /\ v \in todo[a]
    BY <1>0, <1>5, <2>1, NextUnitsType DEF StartUnit, TypeInv
  <2> QED
    BY <1>0, <1>1, <2>1, <2>2 DEF ResumedOf, Reached, InHand, Completing
<1>6. ASSUME SkipUnit(a) PROVE ResumedOf(a, u)'
  <2>1. PICK v \in NextUnits(a) : /\ cur' = [cur EXCEPT ![a] = v]
                                 /\ todo' = [todo EXCEPT ![a] = @ \ {v}]
                                 /\ MachineOf[v] \in completed
    BY <1>6 DEF SkipUnit, AlreadyUpgraded
  <2>2. /\ pc[a] = "next" /\ pc'[a] \in {"skip", "next"} /\ UNCHANGED completed
        /\ todo'[a] = todo[a] \ {v} /\ v \in todo[a]
    BY <1>0, <1>6, <2>1, NextUnitsType DEF SkipUnit, TypeInv
  <2>3. v # u
    BY <1>0, <2>1, <2>2 DEF ResumedOf, Reached
  <2> QED
    BY <1>0, <1>1, <2>2, <2>3 DEF ResumedOf, Reached, InHand, Completing
<1>7. ASSUME EndSkip(a) \/ EndApp(a) PROVE ResumedOf(a, u)'
  <2>1. /\ pc[a] \in {"skip", "next"} /\ pc'[a] \in {"next", "done"}
        /\ UNCHANGED <<todo, completed>>
    BY <1>0, <1>7 DEF EndSkip, EndApp
  <2> QED
    BY <1>0, <1>1, <2>1 DEF ResumedOf, Reached, InHand, Completing
<1>8. ASSUME SetSeries(a) PROVE ResumedOf(a, u)'
  <2>1. /\ pc[a] = "set_series" /\ pc'[a] = "next" /\ UNCHANGED <<todo, hook, paused>>
        /\ cur'[a] = NoUnit /\ Active(cur[a])
    BY <1>0, <1>8 DEF SetSeries
  <2>2. CASE cur[a] = u
    <3>1. InService(u)
      BY <1>0, <2>1, <2>2 DEF ResumedOf, InHand, Completing, CompleteHook, Active
    <3>2. Reached(a, u) /\ InService(u)'
      BY <1>0, <2>1, <2>2, <3>1 DEF ResumedOf, InHand, InService
    <3> QED
      BY <1>0, <2>1, <3>2 DEF ResumedOf, Reached, InHand
  <2>3. CASE cur[a] # u
    BY <1>0, <1>1, <2>1, <2>3 DEF ResumedOf, Reached, InHand
  <2> QED
    BY <2>2, <2>3
<1>9. ASSUME Moved(a), ~(Complete(a) \/ SetOrigin(a) \/ Post(a) \/ Fail(a)), pc'[a] # pc[a],
             DistUpgrade(a) \/ Prepare(a) \/ ReleaseUpgrade(a) \/ ReleaseUpgradeFails(a) \/ Reboot(a)
      PROVE ResumedOf(a, u)'
  <2>1. /\ pc[a] \in {"dist_upgrade", "prepare", "release", "reboot"}
        /\ pc'[a] \in UpgradeSteps /\ ~Completing(a)'
        /\ UNCHANGED <<todo, cur, completed>>
    BY <1>0, <1>9 DEF DistUpgrade, Prepare, ReleaseUpgrade, ReleaseUpgradeFails, Reboot, Completing
  <2> QED
    BY <1>0, <1>1, <2>1 DEF ResumedOf, Reached, InHand
<1>10. ASSUME Complete(a), pc'[a] # pc[a] PROVE ResumedOf(a, u)'
  <2>1. /\ pc[a] = "complete" /\ pc'[a] \in UpgradeSteps /\ UNCHANGED <<todo, cur, completed>>
        /\ hook' = [v \in Units |-> IF MachineOf[v] = MachineOf[cur[a]]
                                       THEN "complete_pending" ELSE hook[v]]
    BY <1>0, <1>10 DEF Complete
  <2>2. cur[a] = u => hook'[u] = "complete_pending"
    BY <1>0, <2>1
  <2> QED
    BY <1>0, <1>1, <2>1, <2>2 DEF ResumedOf, Reached, InHand, CompleteHook
<1>11. ASSUME SetOrigin(a) \/ Post(a) PROVE ResumedOf(a, u)'
  <2>1. /\ pc[a] \in {"set_origin", "post"} /\ pc'[a] \in UpgradeSteps
        /\ UNCHANGED <<todo, cur, completed, hook, paused>>
        /\ Completing(a)' => Completing(a)
    BY <1>0, <1>11 DEF SetOrigin, Post, Completing
  <2>2. (InService(u)' <=> InService(u)) /\ (CompleteHook(u)' <=> CompleteHook(u))
    BY <2>1 DEF InService, CompleteHook
  <2> QED
    BY <1>0, <2>1, <2>2 DEF ResumedOf, Reached, InHand
<1>12. ASSUME Moved(a) PROVE UNCHANGED <<todo, cur>>
  BY <1>12 DEF Moved
<1>13. ASSUME NEW b \in Apps \ {a}, Step(b) \/ ReleaseUpgradeFails(b) \/ Fail(b)
       PROVE  pc'[a] = pc[a] /\ todo'[a] = todo[a] /\ cur'[a] = cur[a]
  <2>1. CASE Moved(b)
    BY <1>0, <2>1 DEF Moved
  <2>2. GetStatus(b) \/ PauseNonLeaders(b) \/ PauseNextNonLeader(b)
          => pc'[a] = pc[a] /\ todo'[a] = todo[a] /\ cur'[a] = cur[a]
    BY <1>0 DEF GetStatus, PauseNonLeaders, PauseNextNonLeader
  <2>3. StartUnit(b) \/ SkipUnit(b)
          => pc'[a] = pc[a] /\ todo'[a] = todo[a] /\ cur'[a] = cur[a]
    BY <1>0 DEF StartUnit, SkipUnit
  <2>4. EndSkip(b) \/ EndApp(b) \/ SetSeries(b)
          => pc'[a] = pc[a] /\ todo'[a] = todo[a] /\ cur'[a] = cur[a]
    BY <1>0 DEF EndSkip, EndApp, SetSeries
  <2> QED
    BY <1>13, <2>1, <2>2, <2>3, <2>4, StepsWithinUpgrade DEF Step
<1>14. ASSUME Step(a) \/ ReleaseUpgradeFails(a) \/ Fail(a) PROVE ResumedOf(a, u)'
  <2>1. Fail(a) => pc'[a] = pc[a]
    BY DEF Fail
  <2> QED
    BY <1>2, <1>3, <1>4, <1>5, <1>6, <1>7, <1>8, <1>9, <1>10, <1>11, <1>12, <1>14, <2>1,
       StepsWithinUpgrade DEF Step
<1> QED
  BY <1>2, <1>13, <1>14, OtherSteps DEF Next, Terminated

\* In every deployment and for both drivers, an application whose coroutine has
\* returned has no unit that is still paused and has its machine to itself.
THEOREM UnitsResumed == Spec => []ResumedWhenDone
<1>1. Init => ResumedInv
  BY DEF Init, ResumedInv, ResumedOf, Reached, InHand, Completing
<1>2. ASSUME TypeInv, ResumedInv, ProgressInv PROVE ResumedWhenDone
  <2> SUFFICES ASSUME NEW a \in Apps, pc[a] = "done", NEW u \in UnitsOf[a], ~Shared(u)
               PROVE  u \notin {p[1] : p \in paused}
    BY DEF ResumedWhenDone
  <2>1. Reached(a, u) /\ ~InHand(a, u)
    BY <1>2 DEF ProgressInv, ProgressOf, Reached, InHand
  <2> QED
    BY <1>2, <2>1 DEF ResumedInv, ResumedOf, InService
<1> QED
  BY <1>1, <1>2, TypeInvInit, TypeInvStep, ResumedStep, OrderInvariant, PTL DEF Spec, OrderInv

=============================================================================
