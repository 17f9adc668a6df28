------------------------ MODULE ParallelSeriesUpgrade ------------------------
(***************************************************************************)
(* The series upgrade of charm_tests/series_upgrade/parallel_tests.py with *)
(* the functions of utilities/parallel_series_upgrade.py.                  *)
(*                                                                         *)
(* The driver walks over groups.  In a serial group the machines of an     *)
(* application are upgraded one by one, in a parallel group all at once by *)
(* tasks under asyncio.gather.  Both functions are called through          *)
(* sync_wrapper, so the applications of a group are upgraded one after     *)
(* another.  A test that raised may be started again on the same model: it *)
(* finds the machines as they are and an empty completed_machines.         *)
(***************************************************************************)
EXTENDS Naturals, Sequences, FiniteSets

CONSTANTS
  Apps, Units, Machines,
  UnitsOf,         \* [Apps -> SUBSET Units]
  Leader,          \* [Apps -> Units]
  MachineOf,       \* [Units -> Machines]
  Groups,          \* sequence of [serial: BOOLEAN, apps: SUBSET Apps]
  FollowerFirst,   \* applications with 'follower_first' in app_config
  PauseKinds,      \* [Apps -> SUBSET {"primary", "subordinate"}]
  HasOrigin,       \* applications with an 'origin' that async_set_origin finds
  MaxRuns,         \* bound: how often the test is started
  NoApp

ASSUME DeploymentAssumption ==
  /\ UnitsOf \in [Apps -> SUBSET Units]
  /\ Leader \in [Apps -> Units]
  /\ MachineOf \in [Units -> Machines]
  /\ \A a \in Apps : Leader[a] \in UnitsOf[a]
  /\ Groups \in Seq([serial : BOOLEAN, apps : SUBSET Apps]) /\ Groups # <<>>
  /\ \A i, j \in 1..Len(Groups) : i # j => Groups[i].apps \cap Groups[j].apps = {}
  /\ FollowerFirst \subseteq Apps
  /\ PauseKinds \in [Apps -> SUBSET {"primary", "subordinate"}]
  /\ HasOrigin \subseteq Apps
  /\ MaxRuns \in Nat \ {0}
  /\ NoApp \notin Apps

VARIABLES
  driver,     \* "running", "raised" or "done"
  run,        \* how often the test was started
  group,      \* index of the group
  left,       \* applications of the group not handled yet
  known,      \* applications that had the new series in the status read at the start
  wrapped,    \* a result was passed to wrap_coroutine_with_sem for this group
  skipped,    \* applications skipped because they have the new series
  app,        \* the application being upgraded, or NoApp
  phase,      \* where its upgrade function is
  todo,       \* its units that async_serial_series_upgrade has not reached
  machines,   \* the list machines: what is being upgraded
  task,       \* [Machines -> step of series_upgrade_machine]
  completed,  \* completed_machines
  lock,       \* [Machines -> BOOLEAN]: juju's upgrade-series lock
  series,     \* [Machines -> "old", "installed" or "new"]
  confdef,    \* machines with the file /etc/apt/apt.conf.d/local
  paused,     \* pairs <<unit, kind>>
  appSeries,  \* applications on which set-series was run
  originSet   \* applications whose origin was set

driverVars  == <<driver, run, group, left, known, wrapped, skipped>>
appVars     == <<app, phase, todo, machines, completed>>
machineVars == <<lock, series, confdef>>
vars == <<driverVars, appVars, task, machineVars, paused, appSeries, originSet>>

NonLeaders(a) == UnitsOf[a] \ {Leader[a]}

MachinesOf(us) == {MachineOf[u] : u \in us}

Serial == Groups[group].serial

TaskSteps == {"confdef", "dist_upgrade", "release", "unconfdef", "reboot", "complete",
              "set_origin", "post"}
Phases == {"idle", "pause", "prepare_leader", "prepare_others", "upgrade",
           "set_series", "serial", "post_application"}

At(p) == driver = "running" /\ phase = p

Active(m) == task[m] \in TaskSteps

-----------------------------------------------------------------------------
Init ==
  /\ driver = "running" /\ run = 1 /\ group = 1
  /\ left = Groups[1].apps
  /\ known = {} /\ wrapped = FALSE /\ skipped = {}
  /\ app = NoApp /\ phase = "idle" /\ todo = {} /\ machines = {}
  /\ task = [m \in Machines |-> "none"]
  /\ completed = {}
  /\ lock = [m \in Machines |-> FALSE]
  /\ series = [m \in Machines |-> "old"]
  /\ confdef = {} /\ paused = {} /\ appSeries = {} /\ originSet = {}

(* The driver *)

\* "already has series": decided on the status read when the test started.
SkipApp(a) ==
  /\ At("idle")
  /\ a \in left \cap known
  /\ left' = left \ {a}
  /\ skipped' = skipped \cup {a}
  /\ UNCHANGED <<driver, run, group, known, wrapped, appVars, task,
                 machineVars, paused, appSeries, originSet>>

\* The upgrade function is called; the list machines of the parallel one is
\* computed from the status and completed_machines before anything is awaited.
StartApp(a) ==
  /\ At("idle")
  /\ a \in left \ known
  /\ left' = left \ {a}
  /\ app' = a
  /\ phase' = "pause"
  /\ machines' = IF Serial THEN {} ELSE MachinesOf(NonLeaders(a)) \ completed
  /\ todo' = IF Serial THEN UnitsOf[a] ELSE {}
  /\ UNCHANGED <<driver, run, group, known, wrapped, skipped,
                 completed, task, machineVars, paused, appSeries, originSet>>

\* run_post_application_upgrade_functions, then the wrapped call returns None.
EndApp ==
  /\ At("post_application")
  /\ app' = NoApp
  /\ phase' = "idle"
  /\ wrapped' = TRUE
  /\ UNCHANGED <<driver, run, group, left, known, skipped,
                 todo, machines, completed, task, machineVars, paused, appSeries, originSet>>

\* wrap_coroutine_with_sem awaits what the wrapped call returned, and None
\* cannot be awaited: gather raises TypeError unless nothing was wrapped.
EndGroup ==
  /\ At("idle")
  /\ left = {}
  /\ IF wrapped
       THEN driver' = "raised" /\ UNCHANGED <<group, left>>
       ELSE /\ group' = group + 1
            /\ driver' = IF group = Len(Groups) THEN "done" ELSE "running"
            /\ left' = IF group = Len(Groups) THEN {} ELSE Groups[group + 1].apps
  /\ UNCHANGED <<run, known, wrapped, skipped, appVars, task, machineVars,
                 paused, appSeries, originSet>>

\* The test is started again on the same model.
Rerun ==
  /\ driver = "raised"
  /\ run < MaxRuns
  /\ driver' = "running" /\ run' = run + 1 /\ group' = 1
  /\ left' = Groups[1].apps
  /\ known' = appSeries /\ wrapped' = FALSE /\ skipped' = {}
  /\ app' = NoApp /\ phase' = "idle" /\ todo' = {} /\ machines' = {}
  /\ task' = [m \in Machines |-> "none"]
  /\ completed' = {}
  /\ UNCHANGED <<machineVars, paused, appSeries, originSet>>

-----------------------------------------------------------------------------
(* Both upgrade functions *)

\* maybe_pause_things.
Pause ==
  /\ At("pause")
  /\ paused' = paused \cup (NonLeaders(app) \X PauseKinds[app])
  /\ phase' = IF Serial THEN "set_series" ELSE "prepare_leader"
  /\ UNCHANGED <<driverVars, app, todo, machines, completed, task,
                 machineVars, appSeries, originSet>>

\* juju upgrade-series <m> prepare returns once the hooks of the machine have
\* run.  It is refused for a machine that is locked or has the new series.
Preparable(m) == ~lock[m] /\ series[m] = "old"

PrepareCall(m) ==
  /\ IF Preparable(m)
       THEN lock' = [lock EXCEPT ![m] = TRUE] /\ UNCHANGED driver
       ELSE driver' = "raised" /\ UNCHANGED lock

-----------------------------------------------------------------------------
(* async_parallel_series_upgrade *)

\* The machine of the leader is prepared first, whether completed or not.
PrepareLeader ==
  /\ At("prepare_leader")
  /\ PrepareCall(MachineOf[Leader[app]])
  /\ phase' = "prepare_others"
  /\ UNCHANGED <<run, group, left, known, wrapped, skipped, app, todo,
                 machines, completed, task, series, confdef, paused, appSeries, originSet>>

\* The others under gather, in any order.
PrepareOther(m) ==
  /\ At("prepare_others")
  /\ m \in machines
  /\ task[m] = "none"
  /\ PrepareCall(m)
  /\ task' = [task EXCEPT ![m] = "prepared"]
  /\ UNCHANGED <<run, group, left, known, wrapped, skipped, app, phase,
                 todo, machines, completed, series, confdef, paused, appSeries, originSet>>

\* The machine of the leader, unless it is completed.
LeaderMachine == {MachineOf[Leader[app]]} \ completed

NotAwaited == TRUE
LeaderAwaited == \A m \in machines \cup LeaderMachine : task[m] = "prepared"
AllPrepared == \A m \in machines : task[m] = "prepared"

\* gather returned: the machine of the leader joins, unless completed, and one
\* task per machine is started.
StartTasks ==
  /\ At("prepare_others")
  /\ AllPrepared
  /\ machines' = machines \cup LeaderMachine
  /\ task' = [m \in Machines |-> IF m \in machines' THEN "confdef" ELSE task[m]]
  /\ phase' = "upgrade"
  /\ UNCHANGED <<driverVars, app, todo, completed, machineVars, paused, appSeries, originSet>>

SomeTaskDone == TRUE
TasksDone == \A m \in machines : task[m] = "done"

OnlyFollowers == machines \ {MachineOf[Leader[app]]}
FinishedMachines == machines

\* All tasks returned: the machines are recorded and the series is set.
EndTasks ==
  /\ At("upgrade")
  /\ TasksDone
  /\ completed' = completed \cup FinishedMachines
  /\ appSeries' = appSeries \cup {app}
  /\ machines' = {}
  /\ task' = [m \in Machines |-> "none"]
  /\ phase' = "post_application"
  /\ UNCHANGED <<driverVars, app, todo, machineVars, paused, originSet>>

-----------------------------------------------------------------------------
(* async_serial_series_upgrade *)

\* The series is set before the first machine is upgraded.
SetSeriesFirst ==
  /\ At("set_series")
  /\ appSeries' = appSeries \cup {app}
  /\ phase' = "serial"
  /\ UNCHANGED <<driverVars, app, todo, machines, completed, task,
                 machineVars, paused, originSet>>

NextUnits ==
  LET others == todo \ {Leader[app]}
  IN IF app \in FollowerFirst
       THEN IF others # {} THEN others ELSE todo
       ELSE IF Leader[app] \in todo THEN {Leader[app]} ELSE todo

Unawaited == TRUE
PreviousDone == machines = {}

\* Prepare the machine of the next unit and start to upgrade it.
SerialStart ==
  /\ At("serial")
  /\ PreviousDone
  /\ \E u \in NextUnits :
       LET m == MachineOf[u]
       IN /\ m \notin completed
          /\ todo' = todo \ {u}
          /\ PrepareCall(m)
          /\ machines' = {m}
          /\ task' = [task EXCEPT ![m] = IF Preparable(m) THEN "confdef" ELSE @]
  /\ UNCHANGED <<run, group, left, known, wrapped, skipped, app, phase,
                 completed, series, confdef, paused, appSeries, originSet>>

SerialSkip ==
  /\ At("serial")
  /\ PreviousDone
  /\ \E u \in NextUnits : MachineOf[u] \in completed /\ todo' = todo \ {u}
  /\ UNCHANGED <<driverVars, app, phase, machines, completed, task,
                 machineVars, paused, appSeries, originSet>>

\* series_upgrade_machine returned: the machine is recorded.
SerialRecord ==
  /\ At("serial")
  /\ machines # {}
  /\ TasksDone
  /\ completed' = completed \cup machines
  /\ machines' = {}
  /\ task' = [m \in Machines |-> "none"]
  /\ UNCHANGED <<driverVars, app, phase, todo, machineVars, paused, appSeries, originSet>>

SerialEnd ==
  /\ At("serial")
  /\ PreviousDone
  /\ todo = {}
  /\ phase' = "post_application"
  /\ UNCHANGED <<driverVars, app, todo, machines, completed, task,
                 machineVars, paused, appSeries, originSet>>

-----------------------------------------------------------------------------
(* series_upgrade_machine.  When one task under gather raises, gather raises *)
(* but does not cancel the others: they go on as long as the loop runs.      *)

TaskStep(m, from, to) ==
  /\ task[m] = from
  /\ driver \in {"running", "raised"}
  /\ task' = [task EXCEPT ![m] = to]
  /\ UNCHANGED <<driverVars, appVars, appSeries>>

AddConfdef(m) ==
  /\ TaskStep(m, "confdef", "dist_upgrade")
  /\ confdef' = confdef \cup {m}
  /\ UNCHANGED <<lock, series, paused, originSet>>

DistUpgrade(m) ==
  /\ TaskStep(m, "dist_upgrade", "release")
  /\ UNCHANGED <<machineVars, paused, originSet>>

ReleaseUpgrade(m) ==
  /\ TaskStep(m, "release", "unconfdef")
  /\ series' = [series EXCEPT ![m] = "installed"]
  /\ UNCHANGED <<lock, confdef, paused, originSet>>

RemoveConfdef(m) ==
  /\ TaskStep(m, "unconfdef", "reboot")
  /\ confdef' = confdef \ {m}
  /\ UNCHANGED <<lock, series, paused, originSet>>

\* An error of the reboot command is only logged.
Reboot(m) ==
  /\ TaskStep(m, "reboot", "complete")
  /\ \/ series' = [series EXCEPT ![m] = "new"]
     \/ UNCHANGED series
  /\ UNCHANGED <<lock, confdef, paused, originSet>>

\* complete returns once the post-series-upgrade hooks have run, which resume
\* the units.
Complete(m) ==
  /\ TaskStep(m, "complete", "set_origin")
  /\ lock' = [lock EXCEPT ![m] = FALSE]
  /\ paused' = {p \in paused : MachineOf[p[1]] # m}
  /\ UNCHANGED <<series, confdef, originSet>>

SetOrigin(m) ==
  /\ TaskStep(m, "set_origin", "post")
  /\ originSet' = originSet \cup ({app} \cap HasOrigin)
  /\ UNCHANGED <<machineVars, paused>>

\* run_post_upgrade_functions.
Post(m) ==
  /\ TaskStep(m, "post", "done")
  /\ UNCHANGED <<machineVars, paused, originSet>>

\* A call of the task raises: the task is lost, and gather raises.
TaskFails(m) ==
  /\ Active(m)
  /\ task' = [task EXCEPT ![m] = "failed"]
  /\ driver' = "raised"
  /\ UNCHANGED <<run, group, left, known, wrapped, skipped, appVars,
                 machineVars, paused, appSeries, originSet>>

\* Any other awaited call raises.
Fail ==
  /\ driver = "running"
  /\ driver' = "raised"
  /\ UNCHANGED <<run, group, left, known, wrapped, skipped, appVars, task,
                 machineVars, paused, appSeries, originSet>>

Terminated ==
  /\ driver = "done" \/ (driver = "raised" /\ run = MaxRuns)
  /\ UNCHANGED vars

DriverStep == (\E a \in Apps : SkipApp(a) \/ StartApp(a)) \/ EndApp \/ EndGroup

AppStep ==
  \/ Pause \/ PrepareLeader \/ StartTasks \/ EndTasks
  \/ \E m \in Machines : PrepareOther(m)
  \/ SetSeriesFirst \/ SerialStart \/ SerialSkip \/ SerialRecord \/ SerialEnd

MachineStep(m) ==
  \/ AddConfdef(m) \/ DistUpgrade(m) \/ ReleaseUpgrade(m)
  \/ RemoveConfdef(m) \/ Reboot(m) \/ Complete(m)
  \/ SetOrigin(m) \/ Post(m)

Next ==
  \/ DriverStep \/ AppStep
  \/ \E m \in Machines : MachineStep(m) \/ TaskFails(m)
  \/ Fail \/ Rerun \/ Terminated

Spec == Init /\ [][Next]_vars

\* The event loop runs whatever is ready while the test runs.  Nothing is
\* assumed of failures, nor of a restart.
Fairness ==
  /\ WF_vars(DriverStep) /\ WF_vars(AppStep)
  /\ \A m \in Machines : WF_vars(driver = "running" /\ MachineStep(m))

FairSpec == Spec /\ Fairness

-----------------------------------------------------------------------------
(* Properties *)

\* Every variable keeps its type.
TypeOK ==
  /\ driver \in {"running", "raised", "done"} /\ run \in 1..MaxRuns
  /\ group \in 1..(Len(Groups) + 1)
  /\ left \subseteq Apps /\ known \subseteq Apps /\ skipped \subseteq Apps
  /\ wrapped \in BOOLEAN
  /\ app \in Apps \cup {NoApp} /\ phase \in Phases
  /\ todo \subseteq Units /\ machines \subseteq Machines /\ completed \subseteq Machines
  /\ task \in [Machines -> TaskSteps \cup {"none", "prepared", "done", "failed"}]
  /\ lock \in [Machines -> BOOLEAN]
  /\ series \in [Machines -> {"old", "installed", "new"}]
  /\ confdef \subseteq Machines
  /\ paused \subseteq Units \X {"primary", "subordinate"}
  /\ appSeries \subseteq Apps /\ originSet \subseteq Apps

\* A machine is worked on only under juju's lock, although the lock is taken by
\* other calls of the upgrade function than the tasks that rely on it.
UpgradedUnderLock ==
  \A m \in Machines : Active(m) /\ task[m] \notin {"set_origin", "post"} => lock[m]

\* "Going to upgrade ... unit by unit": async_serial_series_upgrade has one machine
\* of the application's units in work at a time, and either the leader's first or,
\* with follower_first, the leader's after those of all others, also on machines
\* that units share and after a start that stopped halfway.  It is a promise about
\* one application: the driver's semaphore would admit several of them.
UnitByUnit ==
  At("serial") =>
    LET own == MachinesOf(UnitsOf[app])
        followers == MachinesOf(NonLeaders(app))
        first == MachineOf[Leader[app]]
    IN \A m \in own : Active(m) =>
         /\ \A n \in own : Active(n) => n = m
         /\ IF app \in FollowerFirst
              THEN m = first => m \in followers \/ followers \subseteq completed
              ELSE first \in completed \cup {m}

\* An application of a group that goes all at once, skipped by a later start of
\* the test because it has the new series, has been upgraded on all its machines:
\* parallel_series_upgrade sets the series last.  serial_series_upgrade sets it
\* first, so nothing of the kind holds in the other groups.
SkippedIsUpgraded ==
  \A i \in DOMAIN Groups : ~Groups[i].serial =>
    \A a \in skipped \cap Groups[i].apps : \A u \in UnitsOf[a] :
      series[MachineOf[u]] # "old"

\* Every start of the test comes to an end.
Termination == []<>(driver # "running")

\* The applications that are upgrading each machine.
ClaimsOn == [m \in Machines |-> IF m \in machines /\ phase \in {"upgrade", "serial"}
                                  THEN {app} ELSE {}]

Promise == INSTANCE MachineUpgrades
             WITH Claimers <- Apps, claims <- ClaimsOn, recorded <- completed

\* Every start of the test implements MachineUpgrades.
Refinement ==
  Promise!Init /\ [][run' # run \/ Promise!Next]_<<ClaimsOn, completed>>
=============================================================================
