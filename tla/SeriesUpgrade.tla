---------------------------- MODULE SeriesUpgrade ----------------------------
(***************************************************************************)
(* The series upgrade of a deployed Juju model, as driven by               *)
(* charm_tests/series_upgrade/tests.py with the functions of               *)
(* utilities/series_upgrade.py.                                            *)
(*                                                                         *)
(* The driver walks over groups of applications.  Within one group every   *)
(* application is upgraded by a coroutine of its own; all coroutines run   *)
(* on one event loop and share the list completed_machines.  A coroutine   *)
(* takes one step between two of its awaits, so one action of this module  *)
(* is what runs between two awaits.  The synchronous driver                *)
(* (SeriesUpgradeTest) is the instance in which every group holds one      *)
(* application and IsAsync is FALSE: its order of steps differs, it waits  *)
(* for the whole model where the asynchronous code waits for one unit, and *)
(* it does not notice a failed do-release-upgrade.                         *)
(***************************************************************************)
EXTENDS Naturals, Sequences, FiniteSets

CONSTANTS
  Apps,            \* applications of the model, by name
  Units,           \* their units
  Machines,        \* the machines the units are placed on
  UnitsOf,         \* [Apps -> SUBSET Units]
  Leader,          \* [Apps -> Units]: the unit with the "leader" flag
  MachineOf,       \* [Units -> Machines]
  Groups,          \* sequence of sets of applications (upgrade_groups)
  HasOrigin,       \* applications whose app_config has an 'origin'
  SecondaryFirst,  \* applications upgraded by *_series_upgrade_non_leaders_first
  PauseKinds,      \* [Apps -> SUBSET {"primary", "subordinate"}]: the pause_non_leader_
                   \* flags, for what exists and has a pause action
  CharmOf,         \* the charm each application is deployed from
  IsAsync,         \* app_config(charm_name, is_async)
  NoUnit

ASSUME DeploymentAssumption ==
  /\ UnitsOf \in [Apps -> SUBSET Units]
  /\ Leader \in [Apps -> Units]
  /\ MachineOf \in [Units -> Machines]
  /\ \A a \in Apps : Leader[a] \in UnitsOf[a]
  /\ \A a, b \in Apps : a # b => UnitsOf[a] \cap UnitsOf[b] = {}

ASSUME ConfigAssumption ==
  /\ Groups \in Seq(SUBSET Apps) /\ Groups # <<>>
  /\ \A i, j \in 1..Len(Groups) : i # j => Groups[i] \cap Groups[j] = {}
  /\ HasOrigin \subseteq Apps
  /\ SecondaryFirst \subseteq Apps
  /\ PauseKinds \in [Apps -> SUBSET {"primary", "subordinate"}]
  /\ IsAsync \in BOOLEAN
  /\ NoUnit \notin Units

VARIABLES
  driver,      \* "running", "raised" (an exception ended the test) or "done"
  group,       \* index of the group being upgraded
  pc,          \* [Apps -> the await the coroutine of the application is at]
  todo,        \* [Apps -> units the loops of the coroutine have not reached]
  cur,         \* [Apps -> unit being upgraded or skipped, or NoUnit]
  completed,   \* completed_machines, shared by all coroutines
  hook,        \* [Units -> phase of the unit's series-upgrade hooks]
  series,      \* [Machines -> "old", "installed" (not rebooted) or "new"]
  down,        \* machines that are rebooting
  paused,      \* pairs <<unit, kind>> that the pause action was run on
  appSeries,   \* applications on which juju set-series was run
  originSet,   \* applications on which set_origin was called
  clusterDone  \* applications on which complete-cluster-series-upgrade ran

coroutineVars == <<pc, todo, cur>>
machineVars   == <<hook, series, down>>
juju          == <<paused, appSeries, originSet, clusterDone>>
vars == <<driver, group, pc, todo, cur, completed, hook, series, down,
          paused, appSeries, originSet, clusterDone>>

-----------------------------------------------------------------------------
(* Helpers *)

NonLeaders(a) == UnitsOf[a] \ {Leader[a]}

UnitsOn(m) == {u \in Units : MachineOf[u] = m}

HookPhases == {"none", "prepare_pending", "prepare_running", "prepared",
               "complete_pending", "complete_running"}

\* The steps of (async_)series_upgrade; an application at one of them is
\* upgrading the machine of cur[a].
UpgradeSteps == {"dist_upgrade", "prepare", "release", "reboot",
                 "set_origin", "complete", "post", "set_series"}

Labels == UpgradeSteps \cup {"waiting", "pause", "next", "skip", "done"}

\* What wait_for_unit_idle sees: the agent is executing no hook.  A hook that
\* is pending but not started yet leaves the agent idle.
UnitIdle(u) == hook[u] \notin {"prepare_running", "complete_running"}

\* block_until_all_units_idle.
AllIdle == \A u \in Units : UnitIdle(u)

\* wait_for_unit_idle in the asynchronous code, the whole model otherwise.
Idle(u) == IF IsAsync THEN UnitIdle(u) ELSE AllIdle

\* Workload status "blocked": set by the pre-series-upgrade hook and left by
\* the end of the post-series-upgrade hook.  A reboot does not change it.
Blocked(u) == hook[u] \in {"prepared", "complete_pending", "complete_running"}

\* Workload status "active": a paused unit reports "maintenance" instead.
Active(u) == hook[u] \in {"none", "prepare_pending", "prepare_running"}
               /\ <<u, "primary">> \notin paused

Running(a) == driver = "running" /\ a \in Groups[group]

\* The coroutine of a is at label l, working on cur[a].
At(a, l) == Running(a) /\ pc[a] = l

Goto(a, l) == pc' = [pc EXCEPT ![a] = l]

AfterReboot(a) == IF IsAsync /\ a \in HasOrigin THEN "set_origin" ELSE "complete"
NeverComplete == "post"
AfterOrigin == IF IsAsync THEN "complete" ELSE "post"
AfterComplete(a) == IF ~IsAsync /\ a \in HasOrigin THEN "set_origin" ELSE "post"

-----------------------------------------------------------------------------
Init ==
  /\ driver = "running"
  /\ group = 1
  /\ pc = [a \in Apps |-> "waiting"]
  /\ todo = [a \in Apps |-> {}]
  /\ cur = [a \in Apps |-> NoUnit]
  /\ completed = {}
  /\ hook = [u \in Units |-> "none"]
  /\ series = [m \in Machines |-> "old"]
  /\ down = {}
  /\ paused = {}
  /\ appSeries = {}
  /\ originSet = {}
  /\ clusterDone = {}

(* The application coroutine *)

\* The coroutine awaits the status and splits the units into the leader and
\* the others, which are to be paused.
GetStatus(a) ==
  /\ At(a, "waiting")
  /\ Goto(a, "pause")
  /\ todo' = [todo EXCEPT ![a] = NonLeaders(a)]
  /\ UNCHANGED <<driver, group, cur, completed, machineVars, juju>>

\* What the pause of the units us is run on.
PrimaryOnly(a, us) == us \X (PauseKinds[a] \ {"subordinate"})
PausePairs(a, us) == us \X PauseKinds[a]

\* The loop that pauses the non-leaders.  pause_helper blocks the event loop,
\* so no other coroutine runs before the loop is over.
PauseNonLeaders(a) ==
  /\ At(a, "pause")
  /\ ~(IsAsync /\ a \in SecondaryFirst)
  /\ paused' = paused \cup PausePairs(a, todo[a])
  /\ todo' = [todo EXCEPT ![a] = UnitsOf[a]]
  /\ Goto(a, "next")
  /\ UNCHANGED <<driver, group, cur, completed, machineVars,
                 appSeries, originSet, clusterDone>>

\* The same loop of async_series_upgrade_non_leaders_first, which awaits the
\* pause action of each unit.
PauseNextNonLeader(a) ==
  /\ At(a, "pause")
  /\ IsAsync /\ a \in SecondaryFirst
  /\ \/ /\ todo[a] = {}
        /\ todo' = [todo EXCEPT ![a] = UnitsOf[a]]
        /\ Goto(a, "next")
        /\ UNCHANGED paused
     \/ \E u \in todo[a] :
          /\ paused' = paused \cup PausePairs(a, {u})
          /\ todo' = [todo EXCEPT ![a] = @ \ {u}]
          /\ UNCHANGED pc
  /\ UNCHANGED <<driver, group, cur, completed, machineVars,
                 appSeries, originSet, clusterDone>>

AnyUnit(a) == todo[a]

\* The unit the loops take next: the leader first, or last.  The order among
\* the non-leaders is that of the status dictionary, which is arbitrary.
NextUnits(a) ==
  LET others == todo[a] \ {Leader[a]}
  IN IF a \in SecondaryFirst
       THEN IF others # {} THEN others ELSE todo[a]
       ELSE IF Leader[a] \in todo[a] THEN {Leader[a]} ELSE todo[a]

NeverUpgraded(m) == FALSE
AlreadyUpgraded(m) == m \in completed

\* "if machine not in completed_machines": the upgrade of the unit's machine
\* starts in the step that makes the test.
StartUnit(a) ==
  /\ At(a, "next")
  /\ \E u \in NextUnits(a) :
       /\ ~AlreadyUpgraded(MachineOf[u])
       /\ cur' = [cur EXCEPT ![a] = u]
       /\ todo' = [todo EXCEPT ![a] = @ \ {u}]
  /\ Goto(a, "dist_upgrade")
  /\ UNCHANGED <<driver, group, completed, machineVars, juju>>

\* The else branch: the machine was upgraded already.  The origin is set all
\* the same, except by the functions that upgrade the non-leaders first.  Where
\* there is no origin option, set_application_config is called for the option
\* None, which Juju refuses.
SkipUnit(a) ==
  /\ At(a, "next")
  /\ \E u \in NextUnits(a) :
       /\ AlreadyUpgraded(MachineOf[u])
       /\ cur' = [cur EXCEPT ![a] = u]
       /\ todo' = [todo EXCEPT ![a] = @ \ {u}]
  /\ IF a \in SecondaryFirst
       THEN Goto(a, "skip") /\ UNCHANGED <<driver, originSet>>
       ELSE /\ originSet' = originSet \cup {a}
            /\ IF a \in HasOrigin
                 THEN Goto(a, "skip") /\ UNCHANGED driver
                 ELSE driver' = "raised" /\ UNCHANGED pc
  /\ UNCHANGED <<group, completed, machineVars, paused, appSeries, clusterDone>>

\* The unit awaited after a skip is the loop variable unit.  When the leader is
\* skipped that is still the last non-leader of the loop that paused them.
AwaitedAfterSkip(a) ==
  IF cur[a] = Leader[a] /\ NonLeaders(a) # {} THEN NonLeaders(a) ELSE {cur[a]}

\* The wait at the end of the else branch, then the next round of the loop.
EndSkip(a) ==
  /\ At(a, "skip")
  /\ IF a \in SecondaryFirst THEN AllIdle
                            ELSE \E u \in AwaitedAfterSkip(a) : Idle(u)
  /\ Goto(a, "next")
  /\ cur' = [cur EXCEPT ![a] = NoUnit]
  /\ UNCHANGED <<driver, group, todo, completed, machineVars, juju>>

LeaderOver(a) == Leader[a] \notin todo[a]
LoopOver(a) == todo[a] = {}

\* The loops have reached every unit, and the coroutine returns.
EndApp(a) ==
  /\ At(a, "next")
  /\ LoopOver(a)
  /\ Goto(a, "done")
  /\ UNCHANGED <<driver, group, todo, cur, completed, machineVars, juju>>

-----------------------------------------------------------------------------
(* (async_)series_upgrade of one unit *)

\* set_dpkg_non_interactive_on_unit, then apt dist-upgrade, whose own reboot
\* is over when it returns.
DistUpgrade(a) ==
  /\ At(a, "dist_upgrade")
  /\ Goto(a, "prepare")
  /\ UNCHANGED <<driver, group, todo, cur, completed, machineVars, juju>>

\* juju upgrade-series <machine> prepare: refused while the machine is locked
\* by an upgrade or when it runs the new series already.
Prepare(a) ==
  LET m == MachineOf[cur[a]]
  IN /\ At(a, "prepare")
     /\ Idle(cur[a])
     /\ IF (\A u \in UnitsOn(m) : hook[u] = "none") /\ series[m] = "old"
          THEN /\ hook' = [u \in Units |-> IF MachineOf[u] = m
                                             THEN "prepare_pending" ELSE hook[u]]
               /\ Goto(a, "release")
               /\ UNCHANGED driver
          ELSE driver' = "raised" /\ UNCHANGED <<hook, pc>>
     /\ UNCHANGED <<group, todo, cur, completed, series, down, juju>>

\* wrap_do_release_upgrade, once the unit is blocked and idle.
ReleaseUpgrade(a) ==
  LET m == MachineOf[cur[a]]
  IN /\ At(a, "release")
     /\ Blocked(cur[a]) /\ Idle(cur[a])
     /\ series' = [series EXCEPT ![m] = "installed"]
     /\ Goto(a, "reboot")
     /\ UNCHANGED <<driver, group, todo, cur, completed, hook, down, juju>>

\* do-release-upgrade exits non-zero: async_do_release_upgrade raises, while
\* run_via_ssh of the synchronous code logs the error and carries on.
ReleaseUpgradeFails(a) ==
  /\ At(a, "release")
  /\ Blocked(cur[a]) /\ Idle(cur[a])
  /\ IF IsAsync THEN driver' = "raised" /\ UNCHANGED pc
                ELSE Goto(a, "reboot") /\ UNCHANGED driver
  /\ UNCHANGED <<group, todo, cur, completed, machineVars, juju>>

\* The reboot command runs over ssh; its errors are only logged, so it may
\* also have had no effect.
Reboot(a) ==
  /\ At(a, "reboot")
  /\ \/ down' = down \cup {MachineOf[cur[a]]}
     \/ UNCHANGED down
  /\ Goto(a, AfterReboot(a))
  /\ UNCHANGED <<driver, group, todo, cur, completed, hook, series, juju>>

\* set_origin on the application.  It follows the wait for "blocked" in the
\* asynchronous code and the wait for the whole model in the synchronous one.
SetOrigin(a) ==
  /\ At(a, "set_origin")
  /\ IF IsAsync THEN Blocked(cur[a]) ELSE AllIdle
  /\ originSet' = originSet \cup {a}
  /\ Goto(a, AfterOrigin)
  /\ UNCHANGED <<driver, group, todo, cur, completed, machineVars,
                 paused, appSeries, clusterDone>>

\* juju upgrade-series <machine> complete: refused unless all units of the
\* machine have run their pre-series-upgrade hook.
Complete(a) ==
  LET m == MachineOf[cur[a]]
  IN /\ At(a, "complete")
     /\ Blocked(cur[a]) /\ Idle(cur[a])
     /\ IF \A u \in UnitsOn(m) : hook[u] = "prepared"
          THEN /\ hook' = [u \in Units |-> IF MachineOf[u] = m
                                             THEN "complete_pending" ELSE hook[u]]
               /\ Goto(a, AfterComplete(a))
               /\ UNCHANGED driver
          ELSE driver' = "raised" /\ UNCHANGED <<hook, pc>>
     /\ UNCHANGED <<group, todo, cur, completed, series, down, juju>>

\* run_post_upgrade_functions.
Post(a) ==
  /\ At(a, "post")
  /\ Idle(cur[a])
  /\ Goto(a, "set_series")
  /\ UNCHANGED <<driver, group, todo, cur, completed, machineVars, juju>>

\* The last two waits of (async_)series_upgrade.
IdleOnly(u) == Idle(u)
BackInService(u) == Active(u) /\ Idle(u)

\* set_series once the unit is active and idle again; the caller then appends
\* the machine to completed_machines before it awaits anything.
SetSeries(a) ==
  /\ At(a, "set_series")
  /\ BackInService(cur[a])
  /\ appSeries' = appSeries \cup {a}
  /\ completed' = completed \cup {MachineOf[cur[a]]}
  /\ cur' = [cur EXCEPT ![a] = NoUnit]
  /\ Goto(a, "next")
  /\ UNCHANGED <<driver, group, todo, machineVars, paused, originSet, clusterDone>>

\* Any awaited call may time out or fail (ModelTimeout, CalledProcessError).
\* gather passes the first exception on, run_until_complete raises it and the
\* event loop stops, so no coroutine takes another step.
Fail(a) ==
  /\ Running(a)
  /\ pc[a] # "done"
  /\ driver' = "raised"
  /\ UNCHANGED <<group, coroutineVars, completed, machineVars, juju>>

-----------------------------------------------------------------------------
(* Juju and the machines *)

\* The agent of a unit starts the hook it was asked for.
StartHook(u) ==
  /\ MachineOf[u] \notin down
  /\ \/ /\ hook[u] = "prepare_pending"
        /\ hook' = [hook EXCEPT ![u] = "prepare_running"]
     \/ /\ hook[u] = "complete_pending"
        /\ hook' = [hook EXCEPT ![u] = "complete_running"]
  /\ UNCHANGED <<driver, group, coroutineVars, completed, series, down, juju>>

\* The hook ends.  post-series-upgrade resumes the services of the unit.
FinishHook(u) ==
  /\ MachineOf[u] \notin down
  /\ \/ /\ hook[u] = "prepare_running"
        /\ hook' = [hook EXCEPT ![u] = "prepared"]
        /\ UNCHANGED paused
     \/ /\ hook[u] = "complete_running"
        /\ hook' = [hook EXCEPT ![u] = "none"]
        /\ paused' = {p \in paused : p[1] # u}
  /\ UNCHANGED <<driver, group, coroutineVars, completed, series, down,
                 appSeries, originSet, clusterDone>>

\* A rebooting machine comes up, on the new series if that is installed.
BootUp(m) ==
  /\ m \in down
  /\ down' = down \ {m}
  /\ series' = [series EXCEPT ![m] = IF @ = "installed" THEN "new" ELSE @]
  /\ UNCHANGED <<driver, group, coroutineVars, completed, hook, juju>>

-----------------------------------------------------------------------------
(* The driver *)

TargetsByName(g) ==
  ({"rabbitmq-server"} \cap g)
    \cup (IF "percona-cluster" \in g THEN {"mysql"} ELSE {})

\* The applications complete-cluster-series-upgrade is run on after a group.
\* The parallel driver looks for the names "rabbitmq-server" and
\* "percona-cluster" in the group and runs the latter on "mysql"; the
\* synchronous driver looks at the charm of the application.
ClusterTargets(g) ==
  IF IsAsync
    THEN TargetsByName(g)
    ELSE {a \in g : CharmOf[a] \in {"rabbitmq-server", "percona-cluster"}}

\* gather, or the loop of the synchronous driver, is over.
GroupReturned ==
  /\ driver = "running"
  /\ group \in DOMAIN Groups
  /\ \A a \in Groups[group] : pc[a] = "done"

\* All coroutines of the group have returned: complete-cluster-series-upgrade is
\* run on the leader of the clustered applications.  An application that is not
\* in the model makes run_action_on_leader raise.
CompleteCluster ==
  LET targets == ClusterTargets(Groups[group])
  IN /\ GroupReturned
     /\ ~(targets \subseteq clusterDone)
     /\ IF targets \subseteq Apps
          THEN clusterDone' = clusterDone \cup targets /\ UNCHANGED driver
          ELSE driver' = "raised" /\ UNCHANGED clusterDone
     /\ UNCHANGED <<group, coroutineVars, completed, machineVars,
                    paused, appSeries, originSet>>

AfterGroup == IF group = Len(Groups) THEN "done" ELSE "running"

\* The driver turns to the next group, after an action once the model is idle.
EndGroup ==
  LET targets == ClusterTargets(Groups[group])
  IN /\ GroupReturned
     /\ targets \subseteq clusterDone
     /\ targets # {} => AllIdle
     /\ group' = group + 1
     /\ driver' = AfterGroup
     /\ UNCHANGED <<coroutineVars, completed, machineVars, juju>>

\* The steps a coroutine takes when no call it makes fails.
Step(a) ==
  \/ GetStatus(a) \/ PauseNonLeaders(a) \/ PauseNextNonLeader(a)
  \/ StartUnit(a) \/ SkipUnit(a) \/ EndSkip(a) \/ EndApp(a)
  \/ DistUpgrade(a) \/ Prepare(a) \/ ReleaseUpgrade(a) \/ Reboot(a)
  \/ SetOrigin(a) \/ Complete(a) \/ Post(a) \/ SetSeries(a)

Environment ==
  \/ \E u \in Units : StartHook(u) \/ FinishHook(u)
  \/ \E m \in Machines : BootUp(m)

\* The test is over; the model lives on.
Terminated == driver # "running" /\ UNCHANGED vars

Next ==
  \/ \E a \in Apps : Step(a) \/ ReleaseUpgradeFails(a) \/ Fail(a)
  \/ CompleteCluster \/ EndGroup
  \/ Environment
  \/ Terminated

Spec == Init /\ [][Next]_vars

\* The event loop runs every coroutine that is ready, agents run the hooks
\* they are asked to run and machines come back from a reboot.  Nothing is
\* assumed about failures.
Fairness ==
  /\ \A a \in Apps : WF_vars(Step(a))
  /\ WF_vars(CompleteCluster) /\ WF_vars(EndGroup)
  /\ \A u \in Units : WF_vars(StartHook(u)) /\ WF_vars(FinishHook(u))
  /\ \A m \in Machines : WF_vars(BootUp(m))

FairSpec == Spec /\ Fairness

-----------------------------------------------------------------------------
(* Properties *)

\* Every variable keeps its type.
TypeOK ==
  /\ driver \in {"running", "raised", "done"}
  /\ group \in 1..(Len(Groups) + 1)
  /\ driver = "running" => group \in 1..Len(Groups)
  /\ pc \in [Apps -> Labels]
  /\ todo \in [Apps -> SUBSET Units]
  /\ cur \in [Apps -> Units \cup {NoUnit}]
  /\ completed \subseteq Machines
  /\ hook \in [Units -> HookPhases]
  /\ series \in [Machines -> {"old", "installed", "new"}]
  /\ down \subseteq Machines
  /\ paused \subseteq Units \X {"primary", "subordinate"}
  /\ appSeries \subseteq Apps
  /\ originSet \subseteq Apps
  /\ clusterDone \subseteq Apps

Upgrading(a) == pc[a] \in UpgradeSteps

\* Applications of one group are placed on different machines.
GroupsDisjoint ==
  \A i \in DOMAIN Groups : \A a, b \in Groups[i] :
    a # b => \A u \in UnitsOf[a], v \in UnitsOf[b] : MachineOf[u] # MachineOf[v]

\* A machine is upgraded by one coroutine at a time and never again once it is
\* in completed_machines: the test of completed_machines and the append are
\* many awaits apart, so only the placement of a group's applications can
\* keep two coroutines off one machine.
UpgradedOnce ==
  \A a \in Apps : Upgrading(a) =>
    /\ MachineOf[cur[a]] \notin completed
    /\ \A b \in Apps \ {a} : Upgrading(b) => MachineOf[cur[b]] # MachineOf[cur[a]]

\* completed_machines lists only machines that have the new release installed
\* and are up again, although the wait for "blocked" after the reboot sees the
\* status from before it and so does not wait for the machine.
CompletedIsUpgraded ==
  \A m \in completed : series[m] # "old" /\ m \notin down

\* The machine of a unit also hosts another unit.
Shared(u) == \E v \in Units \ {u} : MachineOf[v] = MachineOf[u]

\* While the leader of an application that upgrades its leader first is being
\* upgraded, every non-leader is paused as app_config asks.  A unit on a shared
\* machine is excepted: the coroutine that upgraded the machine waited for its
\* own unit only, and the post-series-upgrade hook of this one may still be
\* about to resume it.
PausedWhileLeaderUpgrades ==
  \A a \in Apps \ SecondaryFirst :
    Upgrading(a) /\ cur[a] = Leader[a] =>
      \A u \in NonLeaders(a) : Shared(u) \/ {u} \X PauseKinds[a] \subseteq paused

\* The leader is upgraded before the non-leaders, or after all of them in the
\* applications that upgrade the non-leaders first.
RoleOrder ==
  \A a \in Apps : Upgrading(a) =>
    IF a \in SecondaryFirst
      THEN cur[a] = Leader[a] => \A u \in NonLeaders(a) : MachineOf[u] \in completed
      ELSE cur[a] # Leader[a] => MachineOf[Leader[a]] \in completed

\* When the driver turns to a group, all machines of the groups before it are
\* in completed_machines, whichever application upgraded them.
EarlierGroupsUpgraded ==
  \A i \in DOMAIN Groups : i < group =>
    \A a \in Groups[i] : \A u \in UnitsOf[a] : MachineOf[u] \in completed

\* When the coroutine of an application has returned no unit it paused is left
\* paused: nothing in the code resumes a unit, so it must have waited for the end
\* of the post-series-upgrade hook that does.  A unit on a shared machine is
\* excepted: the machine may have been upgraded before the unit was paused, and
\* its hook is then over already.
ResumedWhenDone ==
  \A a \in Apps : pc[a] = "done" =>
    \A u \in UnitsOf[a] : Shared(u) \/ u \notin {p[1] : p \in paused}

\* The test ends: no coroutine waits for a status that its machine never
\* reaches, and coroutines do not wait for each other.
Termination == <>(driver # "running")

\* The applications that are upgrading each machine.
ClaimsOn == [m \in Machines |-> {a \in Apps : Upgrading(a) /\ MachineOf[cur[a]] = m}]

Promise == INSTANCE MachineUpgrades
             WITH Claimers <- Apps, claims <- ClaimsOn, recorded <- completed

\* The coroutines implement MachineUpgrades: every machine is claimed by one
\* application, upgraded, and recorded by that application.
Refinement == Promise!Spec
=============================================================================
