--------------------------- MODULE OpenStackUpgrade ---------------------------
(***************************************************************************)
(* The payload upgrade of utilities/openstack_upgrade.py: run_upgrade_tests*)
(* walks over the upgrade groups; in each group the applications that are  *)
(* not action-managed are upgraded all in one by a change of their origin, *)
(* the others in rounds of pause, openstack-upgrade and resume, one unit   *)
(* of every application per round.                                         *)
(*                                                                         *)
(* An action that fails on one unit raises after it has run on the others; *)
(* the test may then be started again on the same model.                   *)
(***************************************************************************)
EXTENDS Naturals, Sequences, FiniteSets

CONSTANTS
  Apps, Units,
  UnitsOf,     \* [Apps -> SUBSET Units]
  Groups,      \* sequence of sets of applications (get_upgrade_groups)
  Upgradable,  \* applications with the option action-managed-upgrade
  HA,          \* units that have a hacluster subordinate
  MaxRuns      \* bound: how often the test is started

ASSUME DeploymentAssumption ==
  /\ IsFiniteSet(Units)
  /\ UnitsOf \in [Apps -> SUBSET Units]
  /\ \A a, b \in Apps : a # b => UnitsOf[a] \cap UnitsOf[b] = {}
  /\ Groups \in Seq(SUBSET Apps) /\ Groups # <<>>
  /\ \A i, j \in 1..Len(Groups) : i # j => Groups[i] \cap Groups[j] = {}
  /\ Upgradable \subseteq Apps
  /\ HA \subseteq Units
  /\ MaxRuns \in Nat \ {0}

VARIABLES
  driver,    \* "running", "raised" or "done"
  run,       \* how often the test was started
  group,     \* index of the group
  phase,     \* where run_upgrade_on_apps is
  apps,      \* applications of the running method (all in one, or action-managed)
  actions,   \* action_upgrades
  target,    \* units of this round
  done,      \* units of finished rounds
  source,    \* applications whose origin option has the new source
  managed,   \* applications with action-managed-upgrade set
  paused,    \* paused units
  pausedHA,  \* units whose hacluster subordinate is paused
  upgraded,  \* units that run the new payload
  hook       \* [Units -> "none", "pending" or "running"]: config-changed

testVars == <<driver, run, group, phase, apps, actions, target, done>>
jujuVars == <<source, managed, paused, pausedHA, upgraded, hook>>
vars == <<testVars, jujuVars>>

ActionPhases == {"pause_ha", "pause", "upgrade", "resume", "resume_ha"}
Phases == {"classify", "config_all", "all_in_one", "config_action", "round", "settle"}
            \cup ActionPhases

At(p) == driver = "running" /\ phase = p

\* block_until_all_units_idle: no agent executes a hook.  A hook that has not
\* been started leaves the agent idle.
AllIdle == \A u \in Units : hook[u] # "running"

NeverUpgraded(a) == FALSE

\* is_already_upgraded compares the origin option, not the payload.
IsAlreadyUpgraded(a) == a \in source

-----------------------------------------------------------------------------
Init ==
  /\ driver = "running" /\ run = 1 /\ group = 1 /\ phase = "classify"
  /\ apps = {} /\ actions = {} /\ target = {} /\ done = {}
  /\ source = {} /\ managed = {} /\ paused = {} /\ pausedHA = {} /\ upgraded = {}
  /\ hook = [u \in Units |-> "none"]

\* The loop of run_upgrade_on_apps that sorts the applications of the group.
Classify ==
  LET new == {a \in Groups[group] : ~IsAlreadyUpgraded(a)}
  IN /\ At("classify")
     /\ apps' = new \ Upgradable
     /\ actions' = new \cap Upgradable
     /\ phase' = "config_all"
     /\ UNCHANGED <<driver, run, group, target, done, jujuVars>>

\* set_upgrade_application_config for one application.  The units of an
\* application that is not action-managed upgrade in their config-changed hook.
SetConfigAllInOne(a) ==
  /\ At("config_all")
  /\ a \in apps \ source
  /\ source' = source \cup {a}
  /\ hook' = [u \in Units |-> IF u \in UnitsOf[a] /\ hook[u] = "none"
                                THEN "pending" ELSE hook[u]]
  /\ UNCHANGED <<testVars, managed, paused, pausedHA, upgraded>>

\* run_all_in_one_upgrades waits for the model, then the others are configured.
AllInOneIdle ==
  /\ At("config_all")
  /\ apps \subseteq source
  /\ apps # {} => AllIdle
  /\ apps' = actions
  /\ phase' = "config_action"
  /\ UNCHANGED <<driver, run, group, actions, target, done, jujuVars>>

SetConfigAction(a) ==
  /\ At("config_action")
  /\ a \in apps \ source
  /\ source' = source \cup {a}
  /\ managed' = managed \cup {a}
  /\ UNCHANGED <<testVars, paused, pausedHA, upgraded, hook>>

\* action_upgrade_apps starts; it is not called for an empty list.
StartRounds ==
  /\ At("config_action")
  /\ apps \subseteq source
  /\ done' = {}
  /\ phase' = IF apps = {} THEN "settle" ELSE "round"
  /\ UNCHANGED <<driver, run, group, apps, actions, target, jujuVars>>

AlwaysPending(a) == UnitsOf[a]

\* A round takes the first unit of every application that is not in done.
Pending(a) == UnitsOf[a] \ done

RoundTargets ==
  {t \in SUBSET UNION {Pending(a) : a \in apps} :
     \A a \in apps : Pending(a) # {} => Cardinality(t \cap UnitsOf[a]) = 1}

StartRound ==
  /\ At("round")
  /\ \E a \in apps : Pending(a) # {}
  /\ target' \in RoundTargets
  /\ phase' = "pause_ha"
  /\ UNCHANGED <<driver, run, group, apps, actions, done, jujuVars>>

EndRoundsEarly ==
  /\ At("round")
  /\ \E a \in apps : Pending(a) = {}
  /\ phase' = "settle"
  /\ UNCHANGED <<driver, run, group, apps, actions, target, done, jujuVars>>

EndRounds ==
  /\ At("round")
  /\ \A a \in apps : Pending(a) = {}
  /\ phase' = "settle"
  /\ UNCHANGED <<driver, run, group, apps, actions, target, done, jujuVars>>

\* What the action of the phase does to the units S.
Effect(S) ==
  /\ pausedHA' = IF phase = "pause_ha" THEN pausedHA \cup S
                 ELSE IF phase = "resume_ha" THEN pausedHA \ S ELSE pausedHA
  /\ paused' = IF phase = "pause" THEN paused \cup S
               ELSE IF phase = "resume" THEN paused \ S ELSE paused
  /\ upgraded' = IF phase = "upgrade" THEN upgraded \cup S ELSE upgraded
  /\ UNCHANGED <<source, managed, hook>>

ActionUnits == IF phase \in {"pause_ha", "resume_ha"} THEN target \cap HA ELSE target

\* The order of the steps of a round.
ResumeHAFirst == CASE phase = "pause_ha" -> "pause"
                   [] phase = "pause" -> "upgrade"
                   [] phase = "upgrade" -> "resume_ha"
                   [] phase = "resume_ha" -> "resume"
                   [] phase = "resume" -> "round"
NextPhase == IF phase = "pause_ha" THEN "pause"
             ELSE IF phase = "pause" THEN "upgrade"
             ELSE IF phase = "upgrade" THEN "resume"
             ELSE IF phase = "resume" THEN "resume_ha"
             ELSE "round"

\* pause_units, action_unit_upgrade and resume_units, each after a wait for the
\* model; the round ends with done.extend(target).
RunAction ==
  /\ driver = "running" /\ phase \in ActionPhases
  /\ AllIdle
  /\ Effect(ActionUnits)
  /\ phase' = NextPhase
  /\ done' = IF phase = "resume_ha" THEN done \cup target ELSE done
  /\ UNCHANGED <<driver, run, group, apps, actions, target>>

\* raise_on_failure: the action fails on some of the units.
RunActionFails ==
  /\ driver = "running" /\ phase \in ActionPhases
  /\ AllIdle
  /\ \E S \in SUBSET ActionUnits : S # ActionUnits /\ Effect(S)
  /\ driver' = "raised"
  /\ UNCHANGED <<run, group, phase, apps, actions, target, done>>

AfterGroup == IF group = Len(Groups) THEN "done" ELSE "running"

\* The end of action_upgrade_apps, and the next group.  Nothing is awaited when
\* it was not called.  (mysql-innodb-cluster is on UPGRADE_EXCLUDE_LIST, so the
\* wait for its R/W unit is never reached from run_upgrade_tests.)
EndGroup ==
  /\ At("settle")
  /\ apps # {} => AllIdle
  /\ group' = group + 1
  /\ driver' = AfterGroup
  /\ phase' = "classify"
  /\ UNCHANGED <<run, apps, actions, target, done, jujuVars>>

\* A call times out or is refused.
Fail ==
  /\ driver = "running"
  /\ driver' = "raised"
  /\ UNCHANGED <<run, group, phase, apps, actions, target, done, jujuVars>>

Rerun ==
  /\ driver = "raised"
  /\ run < MaxRuns
  /\ driver' = "running" /\ run' = run + 1 /\ group' = 1 /\ phase' = "classify"
  /\ apps' = {} /\ actions' = {} /\ target' = {} /\ done' = {}
  /\ UNCHANGED jujuVars

-----------------------------------------------------------------------------
(* Juju and the charms *)

StartHook(u) ==
  /\ hook[u] = "pending"
  /\ hook' = [hook EXCEPT ![u] = "running"]
  /\ UNCHANGED <<testVars, source, managed, paused, pausedHA, upgraded>>

FinishHook(u) ==
  /\ hook[u] = "running"
  /\ hook' = [hook EXCEPT ![u] = "none"]
  /\ upgraded' = upgraded \cup {u}
  /\ UNCHANGED <<testVars, source, managed, paused, pausedHA>>

Terminated ==
  /\ driver = "done" \/ (driver = "raised" /\ run = MaxRuns)
  /\ UNCHANGED vars

TestStep ==
  \/ Classify \/ AllInOneIdle \/ StartRounds \/ StartRound \/ EndRounds
  \/ RunAction \/ EndGroup
  \/ \E a \in Apps : SetConfigAllInOne(a) \/ SetConfigAction(a)

Next ==
  \/ TestStep \/ RunActionFails \/ Fail \/ Rerun
  \/ \E u \in Units : StartHook(u) \/ FinishHook(u)
  \/ Terminated

Spec == Init /\ [][Next]_vars

\* The test goes on while no call fails and agents run their hooks.  Nothing is
\* assumed of failures, nor of a restart.
FairSpec ==
  /\ Spec
  /\ WF_vars(TestStep)
  /\ \A u \in Units : WF_vars(StartHook(u)) /\ WF_vars(FinishHook(u))

-----------------------------------------------------------------------------
(* Properties *)

\* Every variable keeps its type.
TypeOK ==
  /\ driver \in {"running", "raised", "done"}
  /\ run \in 1..MaxRuns /\ group \in 1..(Len(Groups) + 1)
  /\ driver = "running" => group \in 1..Len(Groups)
  /\ phase \in Phases
  /\ apps \subseteq Apps /\ actions \subseteq Apps
  /\ target \subseteq Units /\ done \subseteq Units
  /\ source \subseteq Apps /\ managed \subseteq Apps
  /\ paused \subseteq Units /\ pausedHA \subseteq Units /\ upgraded \subseteq Units
  /\ hook \in [Units -> {"none", "pending", "running"}]

\* At most one unit of an application is paused at any time, also after a failed
\* action and in a later start of the test: the rest of the application serves.
OneUnitDownPerApp ==
  \A a \in Apps : Cardinality(paused \cap UnitsOf[a]) <= 1

\* A unit is paused only while its hacluster subordinate is: steps 2, 3, 5 and 6
\* of action_upgrade_apps, with every failure between them.
PausedUnderHA == paused \cap HA \subseteq pausedHA

\* The application is upgraded: in rounds, or by a config-changed hook, which may still
\* be on its way.
Finished(a) ==
  IF a \in Upgradable THEN UnitsOf[a] \subseteq upgraded \ paused
  ELSE \A u \in UnitsOf[a] : u \in upgraded \/ hook[u] # "none"

\* A test that passes at its first start has upgraded every application of every
\* group, and the units it paused are back in service.  A later start may pass without,
\* since it takes an application for upgraded whose origin a failed start has set.
UpgradedWhenDone ==
  driver = "done" /\ run = 1 => \A i \in 1..Len(Groups) : \A a \in Groups[i] : Finished(a)

\* The units that are upgraded in rounds.
RoundUnits == UNION {UnitsOf[a] : a \in Upgradable}

Promise == INSTANCE RollingUpgrade WITH down <- paused, new <- upgraded \cap RoundUnits

\* The rounds implement RollingUpgrade: every unit of an action-managed application is
\* paused, upgraded and resumed at most once and in this order, one unit of an
\* application at a time.  No unit that was upgraded is paused again and none comes
\* back on the old payload, although a start that failed leaves some in between.
Refinement == Promise!Spec

\* Every start of the test comes to an end.
Termination == []<>(driver # "running")
=============================================================================
