---------------------- MODULE ParallelSeriesUpgradeProofs ----------------------
(***************************************************************************)
(* Proofs about ParallelSeriesUpgrade, for every deployment, every         *)
(* division into groups and every number of starts of the test.            *)
(***************************************************************************)
EXTENDS ParallelSeriesUpgrade, TLAPS

USE DEF driverVars, appVars, machineVars

-----------------------------------------------------------------------------
(* Types *)

Drivers == {"running", "raised", "done"}
Tasks == TaskSteps \cup {"none", "prepared", "done", "failed"}

\* TypeOK in parts, with what is needed of group and app while the test runs.
SetsOK ==
  /\ driver \in Drivers /\ run \in 1..MaxRuns
  /\ group \in 1..(Len(Groups) + 1)
  /\ driver = "running" => group \in 1..Len(Groups)
  /\ left \subseteq Apps /\ known \subseteq Apps /\ skipped \subseteq Apps
  /\ app \in Apps \cup {NoApp} /\ phase \in Phases
  /\ phase # "idle" => app \in Apps
  /\ todo \subseteq Units /\ machines \subseteq Machines /\ completed \subseteq Machines
  /\ confdef \subseteq Machines
  /\ appSeries \subseteq Apps /\ originSet \subseteq Apps

TaskOK == task \in [Machines -> Tasks]
SeriesOK == series \in [Machines -> {"old", "installed", "new"}]
LockOK == lock \in [Machines -> BOOLEAN] /\ wrapped \in BOOLEAN
PausedOK == paused \subseteq Units \X {"primary", "subordinate"}

\* The elements of a sequence over a set are in it.
LEMMA SeqElements ==
  ASSUME NEW S, NEW s \in Seq(S)
  PROVE  \A i \in 1..Len(s) : s[i] \in S
OBVIOUS

\* Groups has a last element, and its elements have sets of applications.
LEMMA GroupsFacts ==
  /\ Len(Groups) \in Nat \ {0}
  /\ \A i \in 1..Len(Groups) : Groups[i].apps \subseteq Apps
<1>1. Groups \in Seq([serial : BOOLEAN, apps : SUBSET Apps]) /\ Groups # <<>>
  BY DeploymentAssumption
<1>2. Len(Groups) \in Nat \ {0}
  BY <1>1
<1>3. \A i \in 1..Len(Groups) : Groups[i] \in [serial : BOOLEAN, apps : SUBSET Apps]
  BY <1>1, SeqElements
<1> QED
  BY <1>2, <1>3

\* The units of an application are on machines.
LEMMA PlacementFacts ==
  /\ \A u \in Units : MachineOf[u] \in Machines
  /\ \A a \in Apps : /\ UnitsOf[a] \subseteq Units
                     /\ Leader[a] \in Units
                     /\ MachinesOf(NonLeaders(a)) \subseteq Machines
BY DeploymentAssumption DEF MachinesOf, NonLeaders

\* The unit that async_serial_series_upgrade takes next is one it has not reached.
LEMMA NextUnitsAreTodo == NextUnits \subseteq todo
BY DEF NextUnits

\* Every step keeps the types of the driver's and the application's variables.
LEMMA SetsStep == SetsOK /\ [Next]_vars => SetsOK'
<1> SUFFICES ASSUME SetsOK, [Next]_vars PROVE SetsOK'
  OBVIOUS
<1> USE DEF SetsOK, Drivers, At
<1>1. ASSUME NEW a \in Apps, SkipApp(a) PROVE SetsOK'
  BY <1>1 DEF SkipApp
<1>2. ASSUME NEW a \in Apps, StartApp(a) PROVE SetsOK'
  <2>1. machines' \subseteq Machines /\ todo' \subseteq Units
    BY <1>2, PlacementFacts DEF StartApp
  <2> QED
    BY <1>2, <2>1 DEF StartApp, Phases
<1>3. CASE EndApp
  BY <1>3 DEF EndApp, Phases
<1>4. CASE EndGroup
  <2>1. CASE wrapped
    BY <1>4, <2>1 DEF EndGroup
  <2>2. CASE ~wrapped
    BY <1>4, <2>2, GroupsFacts DEF EndGroup
  <2> QED
    BY <2>1, <2>2
<1>5. CASE Pause
  BY <1>5 DEF Pause, Phases
<1>6. CASE PrepareLeader
  BY <1>6 DEF PrepareLeader, PrepareCall, Phases
<1>7. ASSUME NEW m \in Machines, PrepareOther(m) PROVE SetsOK'
  BY <1>7 DEF PrepareOther, PrepareCall
<1>8. CASE StartTasks
  <2>1. machines' \subseteq Machines
    BY <1>8, PlacementFacts DEF StartTasks, LeaderMachine
  <2> QED
    BY <1>8, <2>1 DEF StartTasks, Phases
<1>9. CASE EndTasks
  BY <1>9 DEF EndTasks, Phases, FinishedMachines
<1>10. CASE SetSeriesFirst
  BY <1>10 DEF SetSeriesFirst, Phases
<1>11. CASE SerialStart
  <2>1. PICK u \in NextUnits :
           /\ todo' = todo \ {u} /\ PrepareCall(MachineOf[u]) /\ machines' = {MachineOf[u]}
    BY <1>11 DEF SerialStart
  <2>2. MachineOf[u] \in Machines
    BY NextUnitsAreTodo, PlacementFacts
  <2> QED
    BY <1>11, <2>1, <2>2 DEF SerialStart, PrepareCall
<1>12. CASE SerialSkip
  BY <1>12 DEF SerialSkip
<1>13. CASE SerialRecord
  BY <1>13 DEF SerialRecord
<1>14. CASE SerialEnd
  BY <1>14 DEF SerialEnd, Phases
<1>15. ASSUME NEW m \in Machines, MachineStep(m) PROVE SetsOK'
  <2>1. UNCHANGED <<driverVars, appVars, appSeries>>
    BY <1>15 DEF MachineStep, TaskStep, AddConfdef, DistUpgrade, ReleaseUpgrade,
                 RemoveConfdef, Reboot, Complete, SetOrigin, Post
  <2>2. confdef' \subseteq Machines
    BY <1>15 DEF MachineStep, AddConfdef, DistUpgrade, ReleaseUpgrade,
                 RemoveConfdef, Reboot, Complete, SetOrigin, Post
  <2>3. originSet' \subseteq Apps
    BY <1>15, DeploymentAssumption
       DEF MachineStep, AddConfdef, DistUpgrade, ReleaseUpgrade,
           RemoveConfdef, Reboot, Complete, SetOrigin, Post
  <2> QED
    BY <2>1, <2>2, <2>3
<1>16. ASSUME NEW m \in Machines, TaskFails(m) PROVE SetsOK'
  BY <1>16 DEF TaskFails
<1>17. CASE Fail
  BY <1>17 DEF Fail
<1>18. CASE Rerun
  BY <1>18, GroupsFacts, DeploymentAssumption DEF Rerun, Phases
<1>19. CASE UNCHANGED vars
  BY <1>19 DEF vars
<1> QED
  BY <1>1, <1>2, <1>3, <1>4, <1>5, <1>6, <1>7, <1>8, <1>9, <1>10, <1>11, <1>12, <1>13,
     <1>14, <1>15, <1>16, <1>17, <1>18, <1>19 DEF Next, DriverStep, AppStep, Terminated

\* What a step of series_upgrade_machine may do: it moves its own task on.
LEMMA MachineStepTask ==
  ASSUME NEW m \in Machines, MachineStep(m)
  PROVE  /\ UNCHANGED <<driverVars, appVars, appSeries>>
         /\ \E t \in TaskSteps \cup {"done"} : task' = [task EXCEPT ![m] = t]
         /\ task[m] \in TaskSteps
BY DEF MachineStep, TaskStep, TaskSteps, AddConfdef, DistUpgrade, ReleaseUpgrade,
       RemoveConfdef, Reboot, Complete, SetOrigin, Post

\* Every task is at one of its steps.
LEMMA TaskTypeStep == TaskOK /\ [Next]_vars => TaskOK'
<1> SUFFICES ASSUME TaskOK, [Next]_vars PROVE TaskOK'
  OBVIOUS
<1> USE DEF TaskOK
<1>1. {"none", "confdef", "prepared", "failed"} \subseteq Tasks
  BY DEF Tasks, TaskSteps
<1>2. ASSUME NEW m \in Machines, PrepareOther(m) PROVE TaskOK'
  BY <1>1, <1>2 DEF PrepareOther
<1>3. CASE StartTasks
  BY <1>1, <1>3 DEF StartTasks
<1>4. CASE EndTasks
  BY <1>1, <1>4 DEF EndTasks
<1>5. CASE SerialStart
  BY <1>1, <1>5 DEF SerialStart
<1>6. CASE SerialRecord
  BY <1>1, <1>6 DEF SerialRecord
<1>7. ASSUME NEW m \in Machines, MachineStep(m) PROVE TaskOK'
  BY <1>7, MachineStepTask DEF Tasks
<1>8. ASSUME NEW m \in Machines, TaskFails(m) PROVE TaskOK'
  BY <1>1, <1>8 DEF TaskFails
<1>9. CASE Rerun
  BY <1>1, <1>9 DEF Rerun
<1>10. CASE UNCHANGED task
  BY <1>10
<1>11. \A a \in Apps : SkipApp(a) \/ StartApp(a) => UNCHANGED task
  BY DEF SkipApp, StartApp
<1>12. EndApp \/ EndGroup \/ Pause \/ PrepareLeader \/ SetSeriesFirst \/ SerialSkip
         \/ SerialEnd \/ Fail \/ UNCHANGED vars => UNCHANGED task
  BY DEF EndApp, EndGroup, Pause, PrepareLeader, SetSeriesFirst, SerialSkip, SerialEnd,
         Fail, vars
<1> QED
  BY <1>2, <1>3, <1>4, <1>5, <1>6, <1>7, <1>8, <1>9, <1>10, <1>11, <1>12
     DEF Next, DriverStep, AppStep, Terminated

\* The series of a machine is changed by its own task only.
LEMMA SeriesUnchanged ==
  ASSUME [Next]_vars
  PROVE  \/ UNCHANGED series
         \/ \E m \in Machines : ReleaseUpgrade(m) \/ Reboot(m)
<1>1. \A a \in Apps : SkipApp(a) \/ StartApp(a) => UNCHANGED series
  BY DEF SkipApp, StartApp
<1>2. EndApp \/ EndGroup \/ Pause \/ PrepareLeader \/ StartTasks \/ EndTasks
        => UNCHANGED series
  BY DEF EndApp, EndGroup, Pause, PrepareLeader, StartTasks, EndTasks
<1>3. SetSeriesFirst \/ SerialStart \/ SerialSkip \/ SerialRecord \/ SerialEnd
        => UNCHANGED series
  BY DEF SetSeriesFirst, SerialStart, SerialSkip, SerialRecord, SerialEnd
<1>4. Fail \/ Rerun \/ UNCHANGED vars => UNCHANGED series
  BY DEF Fail, Rerun, vars
<1>5. \A m \in Machines : PrepareOther(m) \/ TaskFails(m) => UNCHANGED series
  BY DEF PrepareOther, TaskFails
<1>6. \A m \in Machines : AddConfdef(m) \/ DistUpgrade(m) \/ RemoveConfdef(m) \/ Complete(m)
                              \/ SetOrigin(m) \/ Post(m)
                            => UNCHANGED series
  BY DEF AddConfdef, DistUpgrade, RemoveConfdef, Complete, SetOrigin, Post
<1> QED
  BY <1>1, <1>2, <1>3, <1>4, <1>5, <1>6
     DEF Next, DriverStep, AppStep, MachineStep, Terminated

\* Every machine has one of the three series.
LEMMA SeriesTypeStep == SeriesOK /\ [Next]_vars => SeriesOK'
BY SeriesUnchanged DEF SeriesOK, ReleaseUpgrade, Reboot

\* juju's lock is taken by prepare and given back by complete.
LEMMA LockUnchanged ==
  ASSUME [Next]_vars
  PROVE  \/ UNCHANGED lock
         \/ \E m \in Machines : Complete(m)
         \/ PrepareLeader \/ SerialStart \/ \E m \in Machines : PrepareOther(m)
<1>1. \A a \in Apps : SkipApp(a) \/ StartApp(a) => UNCHANGED lock
  BY DEF SkipApp, StartApp
<1>2. EndApp \/ EndGroup \/ Pause \/ StartTasks \/ EndTasks => UNCHANGED lock
  BY DEF EndApp, EndGroup, Pause, StartTasks, EndTasks
<1>3. SetSeriesFirst \/ SerialSkip \/ SerialRecord \/ SerialEnd => UNCHANGED lock
  BY DEF SetSeriesFirst, SerialSkip, SerialRecord, SerialEnd
<1>4. Fail \/ Rerun \/ UNCHANGED vars => UNCHANGED lock
  BY DEF Fail, Rerun, vars
<1>5. \A m \in Machines : TaskFails(m) => UNCHANGED lock
  BY DEF TaskFails
<1>6. \A m \in Machines : AddConfdef(m) \/ DistUpgrade(m) \/ ReleaseUpgrade(m)
                              \/ RemoveConfdef(m) \/ Reboot(m) \/ SetOrigin(m) \/ Post(m)
                            => UNCHANGED lock
  BY DEF AddConfdef, DistUpgrade, ReleaseUpgrade, RemoveConfdef, Reboot, SetOrigin, Post
<1> QED
  BY <1>1, <1>2, <1>3, <1>4, <1>5, <1>6
     DEF Next, DriverStep, AppStep, MachineStep, Terminated

\* The lock of a machine and the flag of the group are truth values.
LEMMA LockTypeStep == LockOK /\ [Next]_vars => LockOK'
<1> SUFFICES ASSUME LockOK, [Next]_vars PROVE LockOK'
  OBVIOUS
<1>1. lock' \in [Machines -> BOOLEAN]
  BY LockUnchanged DEF LockOK, Complete, PrepareLeader, SerialStart, PrepareOther, PrepareCall
<1>2. wrapped' \in BOOLEAN
  <2>1. EndApp \/ Rerun => wrapped' \in BOOLEAN
    BY DEF EndApp, Rerun
  <2>2. \A a \in Apps : SkipApp(a) \/ StartApp(a) => UNCHANGED wrapped
    BY DEF SkipApp, StartApp
  <2>3. EndGroup \/ Pause \/ PrepareLeader \/ StartTasks \/ EndTasks \/ SetSeriesFirst
          \/ SerialStart \/ SerialSkip \/ SerialRecord \/ SerialEnd \/ Fail \/ UNCHANGED vars
          => UNCHANGED wrapped
    BY DEF EndGroup, Pause, PrepareLeader, StartTasks, EndTasks, SetSeriesFirst, SerialStart,
           SerialSkip, SerialRecord, SerialEnd, Fail, vars
  <2>4. \A m \in Machines : PrepareOther(m) \/ MachineStep(m) \/ TaskFails(m)
                              => UNCHANGED wrapped
    BY MachineStepTask DEF PrepareOther, TaskFails
  <2> QED
    BY <2>1, <2>2, <2>3, <2>4 DEF LockOK, Next, DriverStep, AppStep, Terminated
<1> QED
  BY <1>1, <1>2 DEF LockOK

\* Pause adds units with kinds, the post-series-upgrade hooks take some away.
LEMMA PausedTypeStep == SetsOK /\ PausedOK /\ [Next]_vars => PausedOK'
<1> SUFFICES ASSUME SetsOK, PausedOK, [Next]_vars PROVE PausedOK'
  OBVIOUS
<1>1. CASE Pause
  <2>1. app \in Apps
    BY <1>1 DEF SetsOK, Pause, At
  <2>2. NonLeaders(app) \subseteq Units /\ PauseKinds[app] \subseteq {"primary", "subordinate"}
    BY <2>1, PlacementFacts, DeploymentAssumption DEF NonLeaders
  <2> QED
    BY <1>1, <2>2 DEF Pause, PausedOK
<1>2. ASSUME NEW m \in Machines, Complete(m) PROVE PausedOK'
  BY <1>2 DEF Complete, PausedOK
<1>3. CASE UNCHANGED paused
  BY <1>3 DEF PausedOK
<1>4. \A a \in Apps : SkipApp(a) \/ StartApp(a) => UNCHANGED paused
  BY DEF SkipApp, StartApp
<1>5. EndApp \/ EndGroup \/ PrepareLeader \/ StartTasks \/ EndTasks \/ SetSeriesFirst
        \/ SerialStart \/ SerialSkip \/ SerialRecord \/ SerialEnd
        \/ Fail \/ Rerun \/ UNCHANGED vars => UNCHANGED paused
  BY DEF EndApp, EndGroup, PrepareLeader, StartTasks, EndTasks, SetSeriesFirst, SerialStart,
         SerialSkip, SerialRecord, SerialEnd, Fail, Rerun, vars
<1>6. \A m \in Machines : PrepareOther(m) \/ TaskFails(m) => UNCHANGED paused
  BY DEF PrepareOther, TaskFails
<1>7. \A m \in Machines : AddConfdef(m) \/ DistUpgrade(m) \/ ReleaseUpgrade(m)
                              \/ RemoveConfdef(m) \/ Reboot(m) \/ SetOrigin(m) \/ Post(m)
                            => UNCHANGED paused
  BY DEF AddConfdef, DistUpgrade, ReleaseUpgrade, RemoveConfdef, Reboot, SetOrigin, Post
<1> QED
  BY <1>1, <1>2, <1>3, <1>4, <1>5, <1>6, <1>7
     DEF Next, DriverStep, AppStep, MachineStep, Terminated

\* All parts of the type invariant.
Types == SetsOK /\ TaskOK /\ SeriesOK /\ LockOK /\ PausedOK

\* They hold at the start.
LEMMA TypesInit == Init => Types
<1> SUFFICES ASSUME Init PROVE Types
  OBVIOUS
<1>1. SetsOK
  BY GroupsFacts, DeploymentAssumption DEF Init, SetsOK, Drivers, Phases
<1>2. TaskOK /\ SeriesOK /\ PausedOK
  BY DEF Init, TaskOK, SeriesOK, PausedOK, Tasks
<1>3. LockOK
  BY DEF Init, LockOK
<1> QED
  BY <1>1, <1>2, <1>3 DEF Types

\* Every variable keeps its type, whatever raises and however often the test is
\* started again.
THEOREM TypeCorrect == Spec => []TypeOK
<1>1. Types /\ [Next]_vars => Types'
  BY SetsStep, TaskTypeStep, SeriesTypeStep, LockTypeStep, PausedTypeStep DEF Types
<1>2. Types => TypeOK
  BY DEF Types, SetsOK, TaskOK, SeriesOK, LockOK, PausedOK, TypeOK, Drivers, Tasks
<1> QED
  BY <1>1, <1>2, TypesInit, PTL DEF Spec

-----------------------------------------------------------------------------
(* The inductive invariant *)

\* What is being upgraded belongs to the group, and to its kind.
GroupInv ==
  driver = "running" =>
    /\ left \subseteq Groups[group].apps
    /\ phase # "idle" => app \in Groups[group].apps
    /\ phase \in {"prepare_leader", "prepare_others", "upgrade"} => ~Serial
    /\ phase \in {"set_series", "serial"} => Serial

\* Which machines have tasks, and where these are, in every phase of the upgrade
\* functions: while the test runs no task is left over from an earlier call.
WorkInv ==
  driver = "running" =>
    /\ \A m \in Machines \ machines : task[m] = "none"
    /\ phase \in {"idle", "set_series", "post_application"} => machines = {}
    /\ phase = "pause" /\ Serial => machines = {}
    /\ phase \in {"pause", "prepare_leader"} => \A m \in Machines : task[m] = "none"
    /\ phase = "prepare_others" => \A m \in Machines : task[m] \in {"none", "prepared"}
    /\ phase \in {"pause", "prepare_leader", "prepare_others"} => machines \cap completed = {}
    /\ phase = "serial" => \A m, n \in machines : m = n

\* The steps of series_upgrade_machine up to the end of juju upgrade-series.
LockedSteps == TaskSteps \ {"set_origin", "post"}

\* Prepared machines stay locked until their own task completes them.
LockInv ==
  /\ \A m \in Machines : task[m] \in LockedSteps => lock[m]
  /\ driver = "running" => \A m \in Machines : task[m] = "prepared" => lock[m]
  /\ At("prepare_others") => lock[MachineOf[Leader[app]]]

\* The steps after do-release-upgrade.
ReleasedSteps == {"unconfdef", "reboot", "complete", "set_origin", "post", "done"}

\* A machine that was completed, or whose task is past do-release-upgrade, has
\* another series than before.
ReleasedInv ==
  /\ \A m \in Machines : task[m] \in ReleasedSteps => series[m] # "old"
  /\ \A m \in completed : series[m] # "old"

\* The machines of an application that goes all at once are in the list machines
\* or were completed before; that of the leader joins with the tasks.
CoverInv ==
  driver = "running" =>
    /\ phase \in {"pause", "prepare_leader", "prepare_others"} /\ ~Serial =>
         MachinesOf(NonLeaders(app)) \subseteq machines \cup completed
    /\ phase = "upgrade" => MachinesOf(UnitsOf[app]) \subseteq machines \cup completed

\* What async_serial_series_upgrade has reached of the application is completed or
\* in work, and the leader is the first or the last it reaches.
SerialInv ==
  driver = "running" =>
    /\ phase \in {"pause", "set_series"} /\ Serial => todo = UnitsOf[app]
    /\ phase = "serial" =>
         /\ todo \subseteq UnitsOf[app]
         /\ \A u \in UnitsOf[app] \ todo : MachineOf[u] \in completed \cup machines
         /\ machines \subseteq MachinesOf(UnitsOf[app] \ todo)
         /\ app \in FollowerFirst => Leader[app] \in todo \/ todo = {}
         /\ app \notin FollowerFirst => Leader[app] \notin todo \/ todo = UnitsOf[app]

\* What has the new series in a group that goes all at once is upgraded.
AppSeriesInv ==
  /\ known \subseteq appSeries /\ skipped \subseteq appSeries
  /\ \A i \in 1..Len(Groups) : ~Groups[i].serial =>
       \A a \in appSeries \cap Groups[i].apps : \A u \in UnitsOf[a] :
         series[MachineOf[u]] # "old"

\* The driver takes applications from the group it is at, and the upgrade function
\* is chosen by the group.
LEMMA GroupStep == SetsOK /\ GroupInv /\ [Next]_vars => GroupInv'
<1> SUFFICES ASSUME SetsOK, GroupInv, [Next]_vars PROVE GroupInv'
  OBVIOUS
<1> USE DEF GroupInv, Serial, At
<1>1. ASSUME NEW a \in Apps, SkipApp(a) PROVE GroupInv'
  BY <1>1 DEF SkipApp
<1>2. ASSUME NEW a \in Apps, StartApp(a) PROVE GroupInv'
  BY <1>2 DEF StartApp
<1>3. CASE EndApp
  BY <1>3 DEF EndApp
<1>4. CASE EndGroup
  BY <1>4 DEF EndGroup, SetsOK
<1>5. CASE Pause
  BY <1>5 DEF Pause
<1>6. CASE PrepareLeader
  BY <1>6 DEF PrepareLeader, PrepareCall
<1>7. ASSUME NEW m \in Machines, PrepareOther(m) PROVE GroupInv'
  BY <1>7 DEF PrepareOther, PrepareCall
<1>8. CASE StartTasks
  BY <1>8 DEF StartTasks
<1>9. CASE EndTasks
  BY <1>9 DEF EndTasks
<1>10. CASE SetSeriesFirst
  BY <1>10 DEF SetSeriesFirst
<1>11. CASE SerialStart
  BY <1>11 DEF SerialStart, PrepareCall
<1>12. CASE SerialSkip
  BY <1>12 DEF SerialSkip
<1>13. CASE SerialRecord
  BY <1>13 DEF SerialRecord
<1>14. CASE SerialEnd
  BY <1>14 DEF SerialEnd
<1>15. ASSUME NEW m \in Machines, MachineStep(m) PROVE GroupInv'
  BY <1>15, MachineStepTask
<1>16. ASSUME NEW m \in Machines, TaskFails(m) PROVE GroupInv'
  BY <1>16 DEF TaskFails
<1>17. CASE Fail
  BY <1>17 DEF Fail
<1>18. CASE Rerun
  BY <1>18 DEF Rerun
<1>19. CASE UNCHANGED vars
  BY <1>19 DEF vars
<1> QED
  BY <1>1, <1>2, <1>3, <1>4, <1>5, <1>6, <1>7, <1>8, <1>9, <1>10, <1>11, <1>12, <1>13,
     <1>14, <1>15, <1>16, <1>17, <1>18, <1>19 DEF Next, DriverStep, AppStep, Terminated

\* Every upgrade function starts without tasks and returns without them.
LEMMA WorkStep ==
  SetsOK /\ TaskOK /\ GroupInv /\ WorkInv /\ [Next]_vars => WorkInv'
<1> SUFFICES ASSUME SetsOK, TaskOK, GroupInv, WorkInv, [Next]_vars PROVE WorkInv'
  OBVIOUS
<1> USE DEF WorkInv, At
<1>1. ASSUME NEW a \in Apps, SkipApp(a) PROVE WorkInv'
  BY <1>1 DEF SkipApp
<1>2. ASSUME NEW a \in Apps, StartApp(a) PROVE WorkInv'
  BY <1>2 DEF StartApp, Serial
<1>3. CASE EndApp
  BY <1>3 DEF EndApp
<1>4. CASE EndGroup
  BY <1>4 DEF EndGroup
<1>5. CASE Pause
  BY <1>5 DEF Pause, Serial
<1>6. CASE PrepareLeader
  BY <1>6 DEF PrepareLeader, PrepareCall
<1>7. ASSUME NEW m \in Machines, PrepareOther(m) PROVE WorkInv'
  BY <1>7 DEF PrepareOther, PrepareCall, TaskOK
<1>8. CASE StartTasks
  BY <1>8 DEF StartTasks
<1>9. CASE EndTasks
  BY <1>9 DEF EndTasks
<1>10. CASE SetSeriesFirst
  BY <1>10 DEF SetSeriesFirst
<1>11. CASE SerialStart
  BY <1>11 DEF SerialStart, PrepareCall, PreviousDone, TaskOK
<1>12. CASE SerialSkip
  BY <1>12 DEF SerialSkip
<1>13. CASE SerialRecord
  BY <1>13 DEF SerialRecord
<1>14. CASE SerialEnd
  BY <1>14 DEF SerialEnd, PreviousDone
<1>15. ASSUME NEW m \in Machines, MachineStep(m) PROVE WorkInv'
  <2>1. /\ UNCHANGED <<driver, group, phase, machines, completed>>
        /\ \E t \in TaskSteps \cup {"done"} : task' = [task EXCEPT ![m] = t]
        /\ task[m] \notin {"none", "prepared"}
    BY <1>15, MachineStepTask DEF TaskSteps
  <2>2. CASE driver = "running"
    <3>1. m \in machines /\ phase \notin {"pause", "prepare_leader", "prepare_others"}
      BY <2>1, <2>2
    <3> QED
      BY <2>1, <2>2, <3>1 DEF TaskOK, Serial
  <2>3. CASE driver # "running"
    BY <2>1, <2>3
  <2> QED
    BY <2>2, <2>3
<1>16. ASSUME NEW m \in Machines, TaskFails(m) PROVE WorkInv'
  BY <1>16 DEF TaskFails
<1>17. CASE Fail
  BY <1>17 DEF Fail
<1>18. CASE Rerun
  BY <1>18 DEF Rerun
<1>19. CASE UNCHANGED vars
  BY <1>19 DEF vars, Serial
<1> QED
  BY <1>1, <1>2, <1>3, <1>4, <1>5, <1>6, <1>7, <1>8, <1>9, <1>10, <1>11, <1>12, <1>13,
     <1>14, <1>15, <1>16, <1>17, <1>18, <1>19 DEF Next, DriverStep, AppStep, Terminated

\* A step that keeps the locks and starts no task that needs one keeps LockInv.
LEMMA LockKept ==
  ASSUME LockInv, UNCHANGED lock, driver' = "running" => driver = "running",
         \A m \in Machines : task'[m] \in LockedSteps => task[m] \in LockedSteps,
         driver' = "running" =>
           \A m \in Machines : task'[m] = "prepared" => task[m] = "prepared",
         phase' = "prepare_others" => UNCHANGED <<phase, app>>
  PROVE  LockInv'
BY DEF LockInv, At

\* prepare locks a machine before its task needs the lock, for the leader's too,
\* and only the machine's own task gives it back.
LEMMA LockStep ==
  Types /\ WorkInv /\ LockInv /\ [Next]_vars => LockInv'
<1> SUFFICES ASSUME Types, WorkInv, LockInv, [Next]_vars PROVE LockInv'
  OBVIOUS
<1>0. /\ task \in [Machines -> Tasks] /\ lock \in [Machines -> BOOLEAN]
      /\ phase # "idle" => app \in Apps
  BY DEF Types, TaskOK, LockOK, SetsOK
<1>1. CASE PrepareLeader
  <2>1. MachineOf[Leader[app]] \in Machines
    BY <1>0, <1>1, PlacementFacts DEF PrepareLeader, At
  <2>2. \A m \in Machines : task[m] = "none"
    BY <1>1 DEF PrepareLeader, At, WorkInv
  <2>3. UNCHANGED <<task, app>>
    BY <1>1 DEF PrepareLeader
  <2>4. driver' = "running" => lock'[MachineOf[Leader[app]]]
    BY <1>0, <1>1, <2>1 DEF PrepareLeader, PrepareCall
  <2> QED
    BY <2>2, <2>3, <2>4 DEF LockInv, At, LockedSteps, TaskSteps
<1>2. ASSUME NEW m \in Machines, PrepareOther(m) PROVE LockInv'
  <2>1. /\ driver = "running" /\ phase = "prepare_others" /\ UNCHANGED <<app, phase>>
        /\ task' = [task EXCEPT ![m] = "prepared"]
    BY <1>2 DEF PrepareOther, At
  <2>2. \/ lock' = [lock EXCEPT ![m] = TRUE] /\ UNCHANGED driver
        \/ driver' = "raised" /\ UNCHANGED lock
    BY <1>2 DEF PrepareOther, PrepareCall
  <2>3. MachineOf[Leader[app]] \in Machines
    BY <1>0, <2>1, PlacementFacts
  <2> QED
    BY <1>0, <2>1, <2>2, <2>3 DEF LockInv, At, LockedSteps, TaskSteps
<1>3. CASE StartTasks
  <2>1. \A m \in machines' : lock[m]
    BY <1>3 DEF StartTasks, AllPrepared, LeaderMachine, LockInv, At, Types, SetsOK
  <2>2. /\ UNCHANGED <<lock, driver>> /\ phase' = "upgrade"
        /\ task' = [m \in Machines |-> IF m \in machines' THEN "confdef" ELSE task[m]]
    BY <1>3 DEF StartTasks
  <2> QED
    BY <2>1, <2>2 DEF LockInv, At
<1>4. CASE SerialStart
  <2>1. PICK u \in NextUnits :
          /\ PrepareCall(MachineOf[u])
          /\ task' = [task EXCEPT ![MachineOf[u]] = IF Preparable(MachineOf[u])
                                                      THEN "confdef" ELSE @]
    BY <1>4 DEF SerialStart
  <2>2. phase' = "serial" /\ driver = "running"
    BY <1>4 DEF SerialStart, At
  <2>3. MachineOf[u] \in Machines
    BY NextUnitsAreTodo, PlacementFacts DEF Types, SetsOK
  <2>4. CASE Preparable(MachineOf[u])
    <3>1. /\ lock' = [lock EXCEPT ![MachineOf[u]] = TRUE] /\ UNCHANGED driver
          /\ task' = [task EXCEPT ![MachineOf[u]] = "confdef"]
      BY <2>1, <2>4 DEF PrepareCall
    <3> QED
      BY <1>0, <2>2, <2>3, <3>1 DEF LockInv, At
  <2>5. CASE ~Preparable(MachineOf[u])
    <3>1. UNCHANGED lock /\ driver' = "raised" /\ \A m \in Machines : task'[m] = task[m]
      BY <1>0, <2>1, <2>3, <2>5 DEF PrepareCall
    <3> QED
      BY <2>2, <3>1 DEF LockInv, At
  <2> QED
    BY <2>4, <2>5
<1>5. ASSUME NEW m \in Machines, Complete(m) PROVE LockInv'
  <2>1. /\ task' = [task EXCEPT ![m] = "set_origin"] /\ task[m] = "complete"
        /\ UNCHANGED <<driver, phase, app>>
        /\ lock' = [lock EXCEPT ![m] = FALSE]
    BY <1>5 DEF Complete, TaskStep
  <2>2. At("prepare_others") => FALSE
    BY <2>1 DEF WorkInv, At
  <2> QED
    BY <1>0, <2>1, <2>2 DEF LockInv, LockedSteps, At
<1>6. ASSUME NEW m \in Machines, MachineStep(m), UNCHANGED lock PROVE LockInv'
  <2>1. /\ UNCHANGED <<driver, phase, app>> /\ task[m] \in TaskSteps
        /\ \E t \in TaskSteps \cup {"done"} : task' = [task EXCEPT ![m] = t]
    BY <1>6, MachineStepTask
  <2>2. task[m] \notin LockedSteps => task'[m] \notin LockedSteps
    BY <1>0, <1>6 DEF MachineStep, TaskStep, TaskSteps, AddConfdef, DistUpgrade, ReleaseUpgrade,
                RemoveConfdef, Reboot, Complete, SetOrigin, Post, LockedSteps
  <2>3. \A n \in Machines : n # m => task'[n] = task[n]
    BY <1>0, <2>1
  <2>4. task'[m] # "prepared"
    BY <1>0, <2>1 DEF TaskSteps
  <2> QED
    BY <1>6, <2>1, <2>2, <2>3, <2>4, LockKept
<1>7. ASSUME NEW m \in Machines, TaskFails(m) PROVE LockInv'
  <2>1. /\ UNCHANGED <<lock, phase, app>> /\ driver' = "raised"
        /\ \A n \in Machines : task'[n] \in {task[n], "failed"}
    BY <1>0, <1>7 DEF TaskFails
  <2> QED
    BY <2>1, LockKept DEF LockedSteps, TaskSteps
<1>8. CASE EndTasks \/ SerialRecord
  <2>1. /\ UNCHANGED <<lock, driver>> /\ phase' # "prepare_others"
        /\ task' = [m \in Machines |-> "none"]
    BY <1>8 DEF EndTasks, SerialRecord, At
  <2> QED
    BY <2>1, LockKept DEF LockedSteps, TaskSteps
<1>9. CASE Rerun
  <2>1. /\ UNCHANGED lock /\ phase' = "idle" /\ task' = [m \in Machines |-> "none"]
    BY <1>9 DEF Rerun
  <2> QED
    BY <2>1 DEF LockInv, At, LockedSteps, TaskSteps
<1>10. CASE /\ UNCHANGED <<lock, task>> /\ (driver' = "running" => driver = "running")
            /\ phase' = "prepare_others" => UNCHANGED <<phase, app>>
  BY <1>10, LockKept
<1>11. \A a \in Apps : SkipApp(a) \/ StartApp(a)
         => /\ UNCHANGED <<lock, task, driver>>
            /\ phase' = "prepare_others" => UNCHANGED <<phase, app>>
  BY DEF SkipApp, StartApp, At
<1>12. EndApp \/ EndGroup \/ Pause
         => /\ UNCHANGED <<lock, task>> /\ (driver' = "running" => driver = "running")
            /\ phase' = "prepare_others" => UNCHANGED <<phase, app>>
  BY DEF EndApp, EndGroup, Pause, At
<1>13. SetSeriesFirst \/ SerialSkip \/ SerialEnd
         => /\ UNCHANGED <<lock, task, driver>>
            /\ phase' = "prepare_others" => UNCHANGED <<phase, app>>
  BY DEF SetSeriesFirst, SerialSkip, SerialEnd, At
<1>14. Fail \/ UNCHANGED vars
         => /\ UNCHANGED <<lock, task, phase, app>> /\ (driver' = "running" => driver = "running")
  BY DEF Fail, vars
<1>15. ASSUME NEW m \in Machines, MachineStep(m) PROVE LockInv'
  <2>1. Complete(m) \/ UNCHANGED lock
    BY <1>15 DEF MachineStep, AddConfdef, DistUpgrade, ReleaseUpgrade, RemoveConfdef, Reboot,
                 SetOrigin, Post
  <2> QED
    BY <1>5, <1>6, <1>15, <2>1
<1> QED
  BY <1>1, <1>2, <1>3, <1>4, <1>7, <1>8, <1>9, <1>10, <1>11, <1>12, <1>13, <1>14, <1>15
     DEF Next, DriverStep, AppStep, Terminated

\* No machine goes back to the old series.
LEMMA SeriesMonotone ==
  ASSUME SeriesOK, [Next]_vars
  PROVE  \A m \in Machines : series[m] # "old" => series'[m] # "old"
BY SeriesUnchanged DEF SeriesOK, ReleaseUpgrade, Reboot

\* A task is past do-release-upgrade only after it has run it.
LEMMA ReleasedStep ==
  Types /\ ReleasedInv /\ [Next]_vars => ReleasedInv'
<1> SUFFICES ASSUME Types, ReleasedInv, [Next]_vars PROVE ReleasedInv'
  OBVIOUS
<1>0. /\ task \in [Machines -> Tasks] /\ series \in [Machines -> {"old", "installed", "new"}]
      /\ machines \subseteq Machines /\ completed \subseteq Machines
      /\ \A m \in Machines : series[m] # "old" => series'[m] # "old"
  BY SeriesMonotone DEF Types, TaskOK, SeriesOK, SetsOK
<1>1. ASSUME NEW m \in Machines, MachineStep(m)
      PROVE  task'[m] \in ReleasedSteps => series'[m] # "old"
  <2>1. CASE ReleaseUpgrade(m)
    BY <1>0, <2>1 DEF ReleaseUpgrade
  <2>2. CASE task[m] \in ReleasedSteps
    BY <1>0, <2>2 DEF ReleasedInv
  <2>3. AddConfdef(m) \/ DistUpgrade(m) => task'[m] \notin ReleasedSteps
    BY <1>0 DEF AddConfdef, DistUpgrade, TaskStep, ReleasedSteps
  <2>4. RemoveConfdef(m) \/ Reboot(m) \/ Complete(m) \/ SetOrigin(m) \/ Post(m)
          => task[m] \in ReleasedSteps
    BY DEF RemoveConfdef, Reboot, Complete, SetOrigin, Post, TaskStep, ReleasedSteps
  <2> QED
    BY <1>1, <2>1, <2>2, <2>3, <2>4 DEF MachineStep
<1>2. ASSUME NEW m \in Machines, MachineStep(m) PROVE ReleasedInv'
  <2>1. UNCHANGED completed /\ \A n \in Machines : n # m => task'[n] = task[n]
    BY <1>0, <1>2, MachineStepTask
  <2> QED
    BY <1>0, <1>1, <1>2, <2>1 DEF ReleasedInv
<1>3. CASE /\ \A m \in Machines : task'[m] \in ReleasedSteps => task[m] \in ReleasedSteps
           /\ \A m \in completed' : m \in completed \/ (m \in machines /\ task[m] = "done")
  BY <1>0, <1>3 DEF ReleasedInv, ReleasedSteps
<1>4. CASE EndTasks \/ SerialRecord
  <2>1. /\ completed' = completed \cup machines /\ \A m \in machines : task[m] = "done"
        /\ task' = [m \in Machines |-> "none"]
    BY <1>4 DEF EndTasks, SerialRecord, TasksDone, FinishedMachines
  <2> QED
    BY <2>1, <1>3 DEF ReleasedSteps
<1>5. CASE StartTasks \/ Rerun
  <2>1. \A m \in Machines : task'[m] \in {task[m], "confdef", "none"}
    BY <1>5 DEF StartTasks, Rerun
  <2>2. completed' \subseteq completed
    BY <1>5 DEF StartTasks, Rerun
  <2> QED
    BY <2>1, <2>2, <1>3 DEF ReleasedSteps
<1>6. CASE SerialStart
  <2>1. \A m \in Machines : task'[m] \in {task[m], "confdef"}
    BY <1>0, <1>6 DEF SerialStart
  <2>2. completed' = completed
    BY <1>6 DEF SerialStart
  <2> QED
    BY <2>1, <2>2, <1>3 DEF ReleasedSteps
<1>7. ASSUME NEW m \in Machines, PrepareOther(m) \/ TaskFails(m) PROVE ReleasedInv'
  <2>1. \A n \in Machines : task'[n] \in {task[n], "prepared", "failed"}
    BY <1>0, <1>7 DEF PrepareOther, TaskFails
  <2>2. completed' = completed
    BY <1>7 DEF PrepareOther, TaskFails
  <2> QED
    BY <2>1, <2>2, <1>3 DEF ReleasedSteps
<1>8. CASE UNCHANGED <<task, completed>>
  BY <1>3, <1>8
<1>9. \A a \in Apps : SkipApp(a) \/ StartApp(a) => UNCHANGED <<task, completed>>
  BY DEF SkipApp, StartApp
<1>10. EndApp \/ EndGroup \/ Pause \/ PrepareLeader \/ SetSeriesFirst \/ SerialSkip
         \/ SerialEnd \/ Fail \/ UNCHANGED vars => UNCHANGED <<task, completed>>
  BY DEF EndApp, EndGroup, Pause, PrepareLeader, SetSeriesFirst, SerialSkip, SerialEnd,
         Fail, vars
<1> QED
  BY <1>2, <1>4, <1>5, <1>6, <1>7, <1>8, <1>9, <1>10
     DEF Next, DriverStep, AppStep, Terminated

\* The list machines is computed before anything is awaited; what it leaves out
\* was completed.
LEMMA CoverStep ==
  SetsOK /\ GroupInv /\ CoverInv /\ [Next]_vars => CoverInv'
<1> SUFFICES ASSUME SetsOK, GroupInv, CoverInv, [Next]_vars PROVE CoverInv'
  OBVIOUS
<1> USE DEF CoverInv, Serial, At
<1>1. ASSUME NEW a \in Apps, StartApp(a) PROVE CoverInv'
  BY <1>1 DEF StartApp
<1>2. CASE Pause
  BY <1>2 DEF Pause
<1>3. CASE PrepareLeader
  BY <1>3 DEF PrepareLeader, PrepareCall
<1>4. ASSUME NEW m \in Machines, PrepareOther(m) PROVE CoverInv'
  BY <1>4 DEF PrepareOther, PrepareCall
<1>5. CASE StartTasks
  <2>1. MachinesOf(NonLeaders(app)) \subseteq machines \cup completed
    BY <1>5 DEF StartTasks, GroupInv
  <2>2. MachinesOf(UnitsOf[app])
          \subseteq MachinesOf(NonLeaders(app)) \cup {MachineOf[Leader[app]]}
    BY DEF MachinesOf, NonLeaders
  <2> QED
    BY <1>5, <2>1, <2>2 DEF StartTasks, LeaderMachine
<1>6. CASE UNCHANGED <<group, app, phase, machines, completed>> /\ driver' \in {driver, "raised"}
  BY <1>6
<1>7. CASE phase' \notin {"pause", "prepare_leader", "prepare_others", "upgrade"}
  BY <1>7
<1>8. EndApp \/ EndTasks \/ SetSeriesFirst \/ SerialStart \/ SerialSkip \/ SerialRecord
        \/ SerialEnd \/ Rerun \/ EndGroup
        => phase' \notin {"pause", "prepare_leader", "prepare_others", "upgrade"}
  BY DEF EndApp, EndTasks, SetSeriesFirst, SerialStart, SerialSkip, SerialRecord, SerialEnd,
         Rerun, EndGroup
<1>9. \A a \in Apps : SkipApp(a) => UNCHANGED <<group, app, phase, machines, completed, driver>>
  BY DEF SkipApp
<1>10. \A m \in Machines : MachineStep(m) \/ TaskFails(m)
         => UNCHANGED <<group, app, phase, machines, completed>> /\ driver' \in {driver, "raised"}
  BY MachineStepTask DEF TaskFails
<1>11. Fail \/ UNCHANGED vars
         => UNCHANGED <<group, app, phase, machines, completed>> /\ driver' \in {driver, "raised"}
  BY DEF Fail, vars
<1> QED
  BY <1>1, <1>2, <1>3, <1>4, <1>5, <1>6, <1>7, <1>8, <1>9, <1>10, <1>11
     DEF Next, DriverStep, AppStep, Terminated

\* The loop of async_serial_series_upgrade: the next unit is skipped when its
\* machine is completed, and is in work otherwise.
LEMMA SerialStep ==
  SetsOK /\ GroupInv /\ WorkInv /\ SerialInv /\ [Next]_vars => SerialInv'
<1> SUFFICES ASSUME SetsOK, GroupInv, WorkInv, SerialInv, [Next]_vars PROVE SerialInv'
  OBVIOUS
<1> USE DEF SerialInv, Serial, At
<1>1. ASSUME NEW a \in Apps, StartApp(a) PROVE SerialInv'
  BY <1>1 DEF StartApp
<1>2. CASE Pause
  BY <1>2 DEF Pause
<1>3. CASE SetSeriesFirst
  <2>1. /\ driver = "running" /\ phase = "set_series" /\ phase' = "serial"
        /\ UNCHANGED <<driver, group, app, todo, machines, completed>>
    BY <1>3 DEF SetSeriesFirst
  <2>2. machines = {} /\ todo = UnitsOf[app] /\ app \in Apps
    BY <2>1 DEF WorkInv, GroupInv, SetsOK
  <2> QED
    BY <2>1, <2>2, DeploymentAssumption
<1>4. CASE SerialStart
  <2>1. PICK u \in NextUnits : /\ todo' = todo \ {u} /\ machines' = {MachineOf[u]}
                              /\ UNCHANGED <<group, app, phase, completed>>
                              /\ phase = "serial" /\ machines = {} /\ driver = "running"
    BY <1>4 DEF SerialStart, PreviousDone
  <2>2. u \in todo
    BY <2>1 DEF NextUnits
  <2>3. app \in FollowerFirst => Leader[app] \in todo' \/ todo' = {}
    BY <2>1 DEF NextUnits
  <2>4. app \notin FollowerFirst => Leader[app] \notin todo'
    BY <2>1 DEF NextUnits
  <2>5. machines' \subseteq MachinesOf(UnitsOf[app] \ todo')
    BY <2>1, <2>2 DEF MachinesOf
  <2> QED
    BY <2>1, <2>2, <2>3, <2>4, <2>5 DEF MachinesOf
<1>5. CASE SerialSkip
  <2>1. PICK u \in NextUnits : /\ todo' = todo \ {u} /\ MachineOf[u] \in completed
                              /\ UNCHANGED <<group, app, phase, machines, completed>>
                              /\ phase = "serial" /\ machines = {} /\ driver = "running"
    BY <1>5 DEF SerialSkip, PreviousDone
  <2>2. app \in FollowerFirst => Leader[app] \in todo' \/ todo' = {}
    BY <2>1 DEF NextUnits
  <2>3. app \notin FollowerFirst => Leader[app] \notin todo'
    BY <2>1 DEF NextUnits
  <2> QED
    BY <2>1, <2>2, <2>3
<1>6. CASE SerialRecord
  <2>1. /\ completed' = completed \cup machines /\ machines' = {}
        /\ phase = "serial" /\ UNCHANGED <<driver, group, app, phase, todo>>
    BY <1>6 DEF SerialRecord
  <2> QED
    BY <2>1
<1>7. CASE /\ UNCHANGED <<group, app, phase, todo, machines, completed>>
           /\ driver' \in {driver, "raised"}
  BY <1>7
<1>8. CASE driver' = "running" => phase' \notin {"pause", "set_series", "serial"}
  BY <1>8
<1>9. EndApp \/ EndTasks \/ SerialEnd \/ Rerun \/ PrepareLeader \/ StartTasks \/ EndGroup
        => (driver' = "running" => phase' \notin {"pause", "set_series", "serial"})
  BY DEF EndApp, EndTasks, SerialEnd, Rerun, PrepareLeader, StartTasks, EndGroup
<1>10. \A a \in Apps : SkipApp(a)
         => UNCHANGED <<group, app, phase, todo, machines, completed, driver>>
  BY DEF SkipApp
<1>11. \A m \in Machines : PrepareOther(m)
         => (driver' = "running" => phase' \notin {"pause", "set_series", "serial"})
  BY DEF PrepareOther
<1>12. \A m \in Machines : MachineStep(m) \/ TaskFails(m)
         => /\ UNCHANGED <<group, app, phase, todo, machines, completed>>
            /\ driver' \in {driver, "raised"}
  BY MachineStepTask DEF TaskFails
<1>13. Fail \/ UNCHANGED vars
         => /\ UNCHANGED <<group, app, phase, todo, machines, completed>>
            /\ driver' \in {driver, "raised"}
  BY DEF Fail, vars
<1> QED
  BY <1>1, <1>2, <1>3, <1>4, <1>5, <1>6, <1>7, <1>8, <1>9, <1>10, <1>11, <1>12, <1>13
     DEF Next, DriverStep, AppStep, Terminated

\* parallel_series_upgrade sets the series when every machine of the application
\* is done; serial_series_upgrade sets it early, but in groups of its own.
LEMMA AppSeriesStep ==
  Types /\ GroupInv /\ ReleasedInv /\ CoverInv /\ AppSeriesInv /\ [Next]_vars => AppSeriesInv'
<1> SUFFICES ASSUME Types, GroupInv, ReleasedInv, CoverInv, AppSeriesInv, [Next]_vars
             PROVE  AppSeriesInv'
  OBVIOUS
<1>0. \A a \in Apps : \A u \in UnitsOf[a] :
        series[MachineOf[u]] # "old" => series'[MachineOf[u]] # "old"
  BY SeriesMonotone, PlacementFacts DEF Types
<1>1. CASE EndTasks
  <2>1. \A u \in UnitsOf[app] : series[MachineOf[u]] # "old"
    <3>1. At("upgrade") /\ \A m \in machines : task[m] = "done"
      BY <1>1 DEF EndTasks, TasksDone
    <3>2. \A m \in machines \cup completed : series[m] # "old"
      BY <3>1 DEF ReleasedInv, ReleasedSteps, Types, SetsOK
    <3>3. \A u \in UnitsOf[app] : MachineOf[u] \in machines \cup completed
      BY <3>1 DEF CoverInv, At, MachinesOf
    <3> QED
      BY <3>2, <3>3
  <2>2. appSeries' = appSeries \cup {app} /\ UNCHANGED <<known, skipped, series>>
    BY <1>1 DEF EndTasks
  <2> QED
    BY <2>1, <2>2 DEF AppSeriesInv
<1>2. CASE SetSeriesFirst
  <2>1. app \in Groups[group].apps /\ Groups[group].serial /\ group \in 1..Len(Groups)
    BY <1>2 DEF SetSeriesFirst, At, GroupInv, Serial, Types, SetsOK
  <2>2. \A i \in 1..Len(Groups) : ~Groups[i].serial => app \notin Groups[i].apps
    BY <2>1, DeploymentAssumption
  <2>3. appSeries' = appSeries \cup {app} /\ UNCHANGED <<known, skipped, series>>
    BY <1>2 DEF SetSeriesFirst
  <2> QED
    BY <2>2, <2>3 DEF AppSeriesInv
<1>3. CASE /\ UNCHANGED appSeries
           /\ known' \subseteq appSeries /\ skipped' \subseteq appSeries
  <2>1. appSeries \subseteq Apps
    BY DEF Types, SetsOK
  <2> QED
    BY <1>0, <1>3, <2>1 DEF AppSeriesInv
<1>4. \A a \in Apps : SkipApp(a) \/ StartApp(a)
        => UNCHANGED <<appSeries, known>> /\ skipped' \subseteq appSeries
  BY DEF SkipApp, StartApp, AppSeriesInv
<1>5. Rerun => UNCHANGED appSeries /\ known' = appSeries /\ skipped' = {}
  BY DEF Rerun
<1>6. EndApp \/ EndGroup \/ Pause \/ PrepareLeader \/ StartTasks \/ SerialStart \/ SerialSkip
        \/ SerialRecord \/ SerialEnd \/ Fail \/ UNCHANGED vars
        => UNCHANGED <<appSeries, known, skipped>>
  BY DEF EndApp, EndGroup, Pause, PrepareLeader, StartTasks, SerialStart, SerialSkip,
         SerialRecord, SerialEnd, Fail, vars
<1>7. \A m \in Machines : PrepareOther(m) \/ MachineStep(m) \/ TaskFails(m)
                            => UNCHANGED <<appSeries, known, skipped>>
  BY MachineStepTask DEF PrepareOther, TaskFails
<1>8. known \subseteq appSeries /\ skipped \subseteq appSeries
  BY DEF AppSeriesInv
<1> QED
  BY <1>1, <1>2, <1>3, <1>4, <1>5, <1>6, <1>7, <1>8 DEF Next, DriverStep, AppStep, Terminated

\* The inductive invariant behind the theorems below.
UpgradeInv ==
  /\ Types /\ GroupInv /\ WorkInv /\ LockInv /\ ReleasedInv /\ CoverInv
  /\ SerialInv /\ AppSeriesInv

\* It holds at the start and in every step, so always.
LEMMA UpgradeInvariant == Spec => []UpgradeInv
<1>1. Init => GroupInv /\ WorkInv
  BY DEF Init, GroupInv, WorkInv
<1>2. Init => LockInv /\ ReleasedInv /\ CoverInv /\ SerialInv /\ AppSeriesInv
  BY DEF Init, LockInv, LockedSteps, TaskSteps, At, ReleasedInv, ReleasedSteps, CoverInv,
         SerialInv, AppSeriesInv
<1>3. Types /\ [Next]_vars => Types'
  BY SetsStep, TaskTypeStep, SeriesTypeStep, LockTypeStep, PausedTypeStep DEF Types
<1>4. UpgradeInv /\ [Next]_vars => UpgradeInv'
  <2>1. Types => SetsOK /\ TaskOK
    BY DEF Types
  <2> QED
    BY <1>3, <2>1, GroupStep, WorkStep, LockStep, ReleasedStep, CoverStep, SerialStep,
       AppSeriesStep
       DEF UpgradeInv
<1> QED
  BY <1>1, <1>2, <1>4, TypesInit, PTL DEF Spec, UpgradeInv

-----------------------------------------------------------------------------
(* Theorems *)

\* No task of series_upgrade_machine works on a machine without juju's lock,
\* whichever calls raise and although tasks outlive the test that started them.
THEOREM WorkUnderLock == Spec => []UpgradedUnderLock
<1>1. UpgradeInv => UpgradedUnderLock
  BY DEF UpgradeInv, LockInv, LockedSteps, UpgradedUnderLock, Active
<1> QED
  BY <1>1, UpgradeInvariant, PTL

\* Within a serial group the machines of an application's units are upgraded one
\* at a time, the leader's first or last as app_config says, in every deployment
\* and after any number of starts.
THEOREM SerialUnitByUnit == Spec => []UnitByUnit
<1>1. ASSUME UpgradeInv, At("serial") PROVE UnitByUnit
  <2> DEFINE own == MachinesOf(UnitsOf[app])
             followers == MachinesOf(NonLeaders(app))
             first == MachineOf[Leader[app]]
  <2> SUFFICES ASSUME NEW m \in own, Active(m)
               PROVE  /\ \A n \in own : Active(n) => n = m
                      /\ IF app \in FollowerFirst
                           THEN m = first => m \in followers \/ followers \subseteq completed
                           ELSE first \in completed \cup {m}
    BY DEF UnitByUnit
  <2>0. app \in Apps /\ UnitsOf[app] \subseteq Units /\ Leader[app] \in UnitsOf[app]
    BY <1>1, DeploymentAssumption DEF UpgradeInv, Types, SetsOK, At
  <2>1. \A n \in own : n \in Machines
    BY <2>0, PlacementFacts DEF MachinesOf
  <2>2. \A n \in own : Active(n) => n \in machines
    BY <1>1, <2>1 DEF UpgradeInv, WorkInv, Active, TaskSteps, At
  <2>3. machines = {m}
    BY <1>1, <2>2 DEF UpgradeInv, WorkInv, At
  <2>4. PICK u \in UnitsOf[app] \ todo : m = MachineOf[u]
    BY <1>1, <2>3 DEF UpgradeInv, SerialInv, MachinesOf, At
  <2>5. CASE app \in FollowerFirst
    <3>1. SUFFICES ASSUME m = first, m \notin followers PROVE followers \subseteq completed
      BY <2>2, <2>3, <2>5
    <3>2. u = Leader[app]
      BY <2>4, <3>1 DEF MachinesOf, NonLeaders
    <3>3. todo = {}
      BY <1>1, <2>4, <2>5, <3>2 DEF UpgradeInv, SerialInv, At
    <3>4. followers \subseteq completed \cup machines
      BY <1>1, <3>3 DEF UpgradeInv, SerialInv, At, MachinesOf, NonLeaders
    <3> QED
      BY <2>3, <3>1, <3>4
  <2>6. CASE app \notin FollowerFirst
    <3>1. Leader[app] \in UnitsOf[app] \ todo
      BY <1>1, <2>0, <2>4, <2>6 DEF UpgradeInv, SerialInv, At
    <3>2. first \in completed \cup machines
      BY <1>1, <3>1 DEF UpgradeInv, SerialInv, At
    <3> QED
      BY <2>2, <2>3, <2>6, <3>2
  <2> QED
    BY <2>5, <2>6
<1>2. UpgradeInv => UnitByUnit
  BY <1>1 DEF UnitByUnit
<1> QED
  BY <1>2, UpgradeInvariant, PTL

\* Whatever a later start of the test skips in a group that goes all at once has
\* been upgraded on every machine.
THEOREM SkippedAreUpgraded == Spec => []SkippedIsUpgraded
<1>1. DOMAIN Groups = 1..Len(Groups)
  BY DeploymentAssumption
<1>2. UpgradeInv => SkippedIsUpgraded
  BY <1>1 DEF UpgradeInv, AppSeriesInv, SkippedIsUpgraded
<1> QED
  BY <1>2, UpgradeInvariant, PTL

\* Promise!Next in terms of this module, for the two steps that implement it.
LEMMA PromiseStep ==
  ASSUME app \in Apps, app' = app, machines' \subseteq Machines, machines \subseteq Machines,
         \/ /\ \A m \in Machines : ClaimsOn[m] = {}
            /\ machines' \cap completed = {}
            /\ phase' \in {"upgrade", "serial"}
            /\ completed' = completed
         \/ /\ machines' = {} /\ phase \in {"upgrade", "serial"}
            /\ completed' = completed \cup machines
  PROVE  Promise!Next
<1>1. CASE /\ \A m \in Machines : ClaimsOn[m] = {}
           /\ machines' \cap completed = {}
           /\ phase' \in {"upgrade", "serial"}
           /\ completed' = completed
  <2>1. ClaimsOn' = [m \in Machines |-> IF m \in machines' THEN {app} ELSE ClaimsOn[m]]
    BY <1>1 DEF ClaimsOn
  <2>2. Promise!Claim(app, machines')
    BY <1>1, <2>1 DEF Promise!Claim
  <2> QED
    BY <2>2 DEF Promise!Next
<1>2. CASE /\ machines' = {} /\ phase \in {"upgrade", "serial"}
           /\ completed' = completed \cup machines
  <2>1. \A m \in machines : ClaimsOn[m] = {app}
    BY <1>2 DEF ClaimsOn
  <2>2. ClaimsOn' = [m \in Machines |-> IF m \in machines THEN {} ELSE ClaimsOn[m]]
    BY <1>2 DEF ClaimsOn
  <2>3. Promise!Record(app, machines)
    BY <1>2, <2>1, <2>2 DEF Promise!Record
  <2> QED
    BY <2>3 DEF Promise!Next
<1> QED
  BY <1>1, <1>2

\* Every start of the test implements MachineUpgrades: the tasks of an application
\* claim machines that no other upgrade has claimed or recorded, and only what
\* they claimed is recorded.
THEOREM ImplementsMachineUpgrades == Spec => Refinement
<1>1. Init => Promise!Init
  BY DEF Init, Promise!Init, ClaimsOn
<1>2. ASSUME UpgradeInv, [Next]_vars
      PROVE  [run' # run \/ Promise!Next]_<<ClaimsOn, completed>>
  <2>0. machines \subseteq Machines /\ machines' \subseteq Machines /\ (phase # "idle" => app \in Apps)
    BY <1>2, SetsStep DEF UpgradeInv, Types, SetsOK
  <2>1. CASE StartTasks
    <3>1. \A m \in Machines : ClaimsOn[m] = {}
      BY <2>1 DEF StartTasks, At, ClaimsOn
    <3>2. machines' \cap completed = {} /\ app' = app /\ phase = "prepare_others"
      BY <1>2, <2>1 DEF StartTasks, At, UpgradeInv, WorkInv, LeaderMachine
    <3> QED
      BY <2>0, <2>1, <3>1, <3>2, PromiseStep DEF StartTasks
  <2>2. CASE SerialStart
    <3>1. \A m \in Machines : ClaimsOn[m] = {}
      BY <2>2 DEF SerialStart, PreviousDone, ClaimsOn
    <3>2. machines' \cap completed = {} /\ phase' = "serial" /\ phase = "serial"
      BY <2>2 DEF SerialStart, At
    <3> QED
      BY <2>0, <2>2, <3>1, <3>2, PromiseStep DEF SerialStart
  <2>3. CASE EndTasks
    BY <2>0, <2>3, PromiseStep DEF EndTasks, At, FinishedMachines
  <2>4. CASE SerialRecord
    BY <2>0, <2>4, PromiseStep DEF SerialRecord, At
  <2>5. CASE Rerun
    BY <1>2, <2>5 DEF Rerun, UpgradeInv, Types, SetsOK
  <2>6. CASE UNCHANGED <<ClaimsOn, completed>>
    BY <2>6
  <2>7. CASE UNCHANGED <<app, phase, machines, completed>>
    BY <2>6, <2>7 DEF ClaimsOn
  <2>8. CASE /\ UNCHANGED completed
             /\ phase \notin {"upgrade", "serial"} \/ machines = {}
             /\ phase' \notin {"upgrade", "serial"} \/ machines' = {}
    BY <2>6, <2>8 DEF ClaimsOn
  <2>9. \A a \in Apps : SkipApp(a) => UNCHANGED <<app, phase, machines, completed>>
    BY DEF SkipApp
  <2>10. EndGroup \/ SerialSkip \/ Fail \/ UNCHANGED vars
           => UNCHANGED <<app, phase, machines, completed>>
    BY DEF EndGroup, SerialSkip, Fail, vars
  <2>11. \A m \in Machines : PrepareOther(m) \/ MachineStep(m) \/ TaskFails(m)
           => UNCHANGED <<app, phase, machines, completed>>
    BY MachineStepTask DEF PrepareOther, TaskFails
  <2>12. \A a \in Apps : StartApp(a)
           => /\ UNCHANGED completed
              /\ phase \notin {"upgrade", "serial"} /\ phase' \notin {"upgrade", "serial"}
    BY DEF StartApp, At
  <2>13. EndApp \/ Pause \/ PrepareLeader
           => /\ UNCHANGED completed
              /\ phase \notin {"upgrade", "serial"} /\ phase' \notin {"upgrade", "serial"}
    BY DEF EndApp, Pause, PrepareLeader, At
  <2>14. SetSeriesFirst
           => /\ UNCHANGED completed /\ machines' = {} /\ phase \notin {"upgrade", "serial"}
    BY <1>2 DEF SetSeriesFirst, At, UpgradeInv, WorkInv
  <2>15. SerialEnd
           => /\ UNCHANGED completed /\ machines = {} /\ phase' \notin {"upgrade", "serial"}
    BY DEF SerialEnd, PreviousDone
  <2> QED
    BY <1>2, <2>1, <2>2, <2>3, <2>4, <2>5, <2>7, <2>8, <2>9, <2>10, <2>11, <2>12, <2>13,
       <2>14, <2>15 DEF Next, DriverStep, AppStep, Terminated
<1> QED
  BY <1>1, <1>2, UpgradeInvariant, PTL DEF Spec, Refinement

=============================================================================
