------------------------ MODULE OpenStackUpgradeProofs ------------------------
(***************************************************************************)
(* Proofs about OpenStackUpgrade, for every deployment, every division     *)
(* into groups and every number of starts of the test.                     *)
(***************************************************************************)
EXTENDS OpenStackUpgrade, FiniteSetTheorems, TLAPS

USE DEF testVars, jujuVars

-----------------------------------------------------------------------------
(* Types *)

\* TypeOK without its part about hook, which no other part depends on.
SetsOK ==
  /\ driver \in {"running", "raised", "done"}
  /\ run \in 1..MaxRuns /\ group \in 1..(Len(Groups) + 1)
  /\ driver = "running" => group \in 1..Len(Groups)
  /\ phase \in Phases
  /\ apps \subseteq Apps /\ actions \subseteq Apps
  /\ target \subseteq Units /\ done \subseteq Units
  /\ source \subseteq Apps /\ managed \subseteq Apps
  /\ paused \subseteq Units /\ pausedHA \subseteq Units /\ upgraded \subseteq Units

HookOK == hook \in [Units -> {"none", "pending", "running"}]

\* Groups has a last element, and its elements are sets of applications.
LEMMA GroupsFacts ==
  /\ Len(Groups) \in Nat \ {0}
  /\ \A i \in 1..Len(Groups) : Groups[i] \subseteq Apps
BY DeploymentAssumption

\* The units of a round are units.
LEMMA RoundTargetsAreUnits ==
  ASSUME apps \subseteq Apps
  PROVE  \A t \in RoundTargets : t \subseteq Units
BY DeploymentAssumption DEF RoundTargets, Pending

\* Every step keeps the types of all variables but hook.
LEMMA SetsStep == SetsOK /\ [Next]_vars => SetsOK'
<1> SUFFICES ASSUME SetsOK, [Next]_vars PROVE SetsOK'
  OBVIOUS
<1> USE DEF SetsOK
<1>1. CASE Classify
  BY <1>1, GroupsFacts DEF Classify, At, Phases
<1>2. CASE AllInOneIdle
  BY <1>2 DEF AllInOneIdle, At, Phases
<1>3. CASE StartRounds
  BY <1>3 DEF StartRounds, At, Phases
<1>4. CASE StartRound
  <2>1. target' \subseteq Units
    BY <1>4, RoundTargetsAreUnits DEF StartRound
  <2> QED
    BY <1>4, <2>1 DEF StartRound, At, Phases, ActionPhases
<1>5. CASE EndRounds
  BY <1>5 DEF EndRounds, At, Phases
<1>6. CASE RunAction
  <2>1. ActionUnits \subseteq Units
    BY DEF ActionUnits
  <2>2. phase' \in Phases
    BY <1>6 DEF RunAction, NextPhase, Phases, ActionPhases
  <2>3. /\ paused' \subseteq Units
        /\ pausedHA' \subseteq Units
        /\ upgraded' \subseteq Units
        /\ done' \subseteq Units
    BY <1>6, <2>1 DEF RunAction, Effect
  <2> QED
    BY <1>6, <2>2, <2>3 DEF RunAction, Effect
<1>7. CASE EndGroup
  BY <1>7, GroupsFacts DEF EndGroup, At, AfterGroup, Phases
<1>8. ASSUME NEW a \in Apps, SetConfigAllInOne(a) PROVE SetsOK'
  BY <1>8 DEF SetConfigAllInOne
<1>9. ASSUME NEW a \in Apps, SetConfigAction(a) PROVE SetsOK'
  BY <1>9 DEF SetConfigAction
<1>10. CASE RunActionFails
  <2>1. ActionUnits \subseteq Units
    BY DEF ActionUnits
  <2>2. PICK S \in SUBSET ActionUnits : Effect(S)
    BY <1>10 DEF RunActionFails
  <2>3. /\ paused' \subseteq Units
        /\ pausedHA' \subseteq Units
        /\ upgraded' \subseteq Units
    BY <2>1, <2>2 DEF Effect
  <2> QED
    BY <1>10, <2>2, <2>3 DEF RunActionFails, Effect
<1>11. CASE Fail
  BY <1>11 DEF Fail
<1>12. CASE Rerun
  BY <1>12, GroupsFacts, DeploymentAssumption DEF Rerun, Phases
<1>13. ASSUME NEW u \in Units, StartHook(u) PROVE SetsOK'
  BY <1>13 DEF StartHook
<1>14. ASSUME NEW u \in Units, FinishHook(u) PROVE SetsOK'
  BY <1>14 DEF FinishHook
<1>15. CASE UNCHANGED vars
  BY <1>15 DEF vars
<1> QED
  BY <1>1, <1>2, <1>3, <1>4, <1>5, <1>6, <1>7, <1>8, <1>9, <1>10, <1>11, <1>12,
     <1>13, <1>14, <1>15 DEF Next, TestStep, Terminated

\* Hooks go from none to pending to running and back.
LEMMA HookStep == HookOK /\ [Next]_vars => HookOK'
<1> SUFFICES ASSUME HookOK, [Next]_vars PROVE HookOK'
  OBVIOUS
<1> USE DEF HookOK
<1>1. ASSUME NEW a \in Apps, SetConfigAllInOne(a) PROVE HookOK'
  BY <1>1 DEF SetConfigAllInOne
<1>2. ASSUME NEW u \in Units, StartHook(u) PROVE HookOK'
  BY <1>2 DEF StartHook
<1>3. ASSUME NEW u \in Units, FinishHook(u) PROVE HookOK'
  BY <1>3 DEF FinishHook
<1>4. ASSUME NEW a \in Apps, SetConfigAction(a) PROVE HookOK'
  BY <1>4 DEF SetConfigAction
<1>5. CASE UNCHANGED hook
  BY <1>5
<1>6. Classify \/ AllInOneIdle \/ StartRounds \/ StartRound \/ EndRounds \/ EndGroup
        => UNCHANGED hook
  BY DEF Classify, AllInOneIdle, StartRounds, StartRound, EndRounds, EndGroup
<1>7. RunAction \/ RunActionFails \/ Fail \/ Rerun \/ UNCHANGED vars => UNCHANGED hook
  BY DEF RunAction, RunActionFails, Effect, Fail, Rerun, vars
<1> QED
  BY <1>1, <1>2, <1>3, <1>4, <1>5, <1>6, <1>7 DEF Next, TestStep, Terminated

\* Every variable keeps its type, whatever fails and however often the test is
\* started again.
THEOREM TypeCorrect == Spec => []TypeOK
<1>1. Init => SetsOK /\ HookOK
  BY GroupsFacts, DeploymentAssumption DEF Init, SetsOK, HookOK, Phases
<1>2. SetsOK /\ HookOK => TypeOK
  BY DEF SetsOK, HookOK, TypeOK
<1> QED
  BY <1>1, <1>2, SetsStep, HookStep, PTL DEF Spec

-----------------------------------------------------------------------------
(* The inductive invariant *)

\* The phases in which apps holds the action-managed applications of the group
\* (the list that action_upgrade_apps is called with).
RoundPhases == {"round", "settle"} \cup ActionPhases

\* The two lists of run_upgrade_on_apps are told apart by action-managed-upgrade.
AppsInv ==
  /\ phase = "config_all" =>
       /\ apps \cap Upgradable = {}
       /\ actions \subseteq Upgradable
       /\ actions \cap source = {}
  /\ phase = "config_action" => apps \subseteq Upgradable
  /\ phase \in RoundPhases => apps \subseteq Upgradable \cap source

\* Config-changed upgrades only units of applications that are not action-managed.
HookInv ==
  \A u \in Units : hook[u] # "none" => \A a \in Upgradable : u \notin UnitsOf[a]

\* A round has at most one unit of an application, all of the applications it is about.
TargetInv ==
  phase \in ActionPhases =>
    /\ \A u \in target : \E a \in apps : u \in UnitsOf[a]
    /\ \A a \in Apps : \A u, v \in target \cap UnitsOf[a] : u = v

\* Units are paused only in applications whose origin was set, at most one in
\* each; while the test runs, those of its own applications are the target of the
\* round, and only between pause and resume.
PausedInv ==
  /\ \A a \in Apps : a \notin source => paused \cap UnitsOf[a] = {}
  /\ \A a \in Apps : \A u, v \in paused \cap UnitsOf[a] : u = v
  /\ driver = "running" =>
       /\ phase \in {"config_action", "round", "pause_ha", "pause", "resume_ha"} =>
            \A a \in apps : paused \cap UnitsOf[a] = {}
       /\ phase \in {"upgrade", "resume"} =>
            /\ target \subseteq paused
            /\ \A a \in apps : paused \cap UnitsOf[a] \subseteq target

\* The hacluster subordinates of the target are paused around the units.
HAInv ==
  /\ driver = "running" /\ phase \in {"pause", "upgrade", "resume"} =>
       target \cap HA \subseteq pausedHA
  /\ PausedUnderHA

\* An action-managed application has no upgraded unit before its origin is set, nor
\* before the rounds of the test that set it; in the rounds its upgraded units are
\* those of the rounds before and, once upgraded, the target.
RoundInv ==
  /\ \A a \in Upgradable \ source : upgraded \cap UnitsOf[a] = {}
  /\ driver = "running" =>
       /\ phase = "config_action" => \A a \in apps : upgraded \cap UnitsOf[a] = {}
       /\ phase \in {"round", "pause_ha", "pause", "upgrade"} =>
            \A a \in apps : upgraded \cap UnitsOf[a] \subseteq done
       /\ phase \in {"pause_ha", "pause", "upgrade"} => target \cap done = {}
       /\ phase \in {"resume", "resume_ha"} =>
            /\ target \subseteq upgraded
            /\ \A a \in apps : upgraded \cap UnitsOf[a] \subseteq done \cup target

\* While the first start goes on: the groups before are upgraded, no origin is set in
\* the groups after, and the two lists hold all applications of the current group, of
\* which those that are not action-managed are upgraded first.
GroupInv ==
  /\ \A i \in 1..Len(Groups) : i < group => \A a \in Groups[i] : Finished(a)
  /\ driver = "done" => group = Len(Groups) + 1
  /\ driver = "running" =>
       /\ \A i \in 1..Len(Groups) :
            group < i \/ (group = i /\ phase = "classify") => Groups[i] \cap source = {}
       /\ phase = "config_all" =>
            /\ apps = Groups[group] \ Upgradable /\ actions = Groups[group] \cap Upgradable
            /\ \A a \in apps \cap source : Finished(a)
       /\ phase \in {"config_action"} \cup RoundPhases =>
            /\ apps = Groups[group] \cap Upgradable
            /\ \A a \in Groups[group] \ Upgradable : Finished(a)
       /\ phase \in {"round"} \cup ActionPhases => done \subseteq upgraded
       /\ phase = "settle" => \A a \in apps : Finished(a)

\* This holds until the first start ends or fails.
FirstStart == run = 1 /\ driver # "raised" => GroupInv

\* Classify sorts the applications; setting an origin never moves one between lists.
LEMMA AppsStep == SetsOK /\ AppsInv /\ [Next]_vars => AppsInv'
<1> SUFFICES ASSUME SetsOK, AppsInv, [Next]_vars PROVE AppsInv'
  OBVIOUS
<1> USE DEF AppsInv, RoundPhases, ActionPhases, At
<1>1. CASE Classify
  BY <1>1 DEF Classify, IsAlreadyUpgraded
<1>2. CASE AllInOneIdle
  BY <1>2 DEF AllInOneIdle
<1>3. CASE StartRounds
  BY <1>3 DEF StartRounds
<1>4. CASE StartRound
  BY <1>4 DEF StartRound
<1>5. CASE EndRounds
  BY <1>5 DEF EndRounds
<1>6. CASE RunAction
  BY <1>6 DEF RunAction, Effect, NextPhase
<1>7. CASE EndGroup
  BY <1>7 DEF EndGroup
<1>8. ASSUME NEW a \in Apps, SetConfigAllInOne(a) PROVE AppsInv'
  BY <1>8 DEF SetConfigAllInOne
<1>9. ASSUME NEW a \in Apps, SetConfigAction(a) PROVE AppsInv'
  BY <1>9 DEF SetConfigAction
<1>10. CASE RunActionFails
  BY <1>10 DEF RunActionFails, Effect
<1>11. CASE Fail
  BY <1>11 DEF Fail
<1>12. CASE Rerun
  BY <1>12 DEF Rerun
<1>13. ASSUME NEW u \in Units, StartHook(u) PROVE AppsInv'
  BY <1>13 DEF StartHook
<1>14. ASSUME NEW u \in Units, FinishHook(u) PROVE AppsInv'
  BY <1>14 DEF FinishHook
<1>15. CASE UNCHANGED vars
  BY <1>15 DEF vars
<1> QED
  BY <1>1, <1>2, <1>3, <1>4, <1>5, <1>6, <1>7, <1>8, <1>9, <1>10, <1>11, <1>12,
     <1>13, <1>14, <1>15 DEF Next, TestStep, Terminated

\* What a step may do to the units: only SetConfigAllInOne gives work to
\* config-changed, and to the units of one application that is not action-managed.
LEMMA HookInvStep == SetsOK /\ HookOK /\ AppsInv /\ HookInv /\ [Next]_vars => HookInv'
<1> SUFFICES ASSUME SetsOK, HookOK, AppsInv, HookInv, [Next]_vars PROVE HookInv'
  OBVIOUS
<1> USE DEF HookInv
<1>1. ASSUME NEW a \in Apps, SetConfigAllInOne(a) PROVE HookInv'
  <2>1. a \notin Upgradable
    BY <1>1 DEF SetConfigAllInOne, At, AppsInv
  <2>2. \A b \in Upgradable : UnitsOf[a] \cap UnitsOf[b] = {}
    BY <2>1, DeploymentAssumption
  <2> QED
    BY <1>1, <2>2 DEF SetConfigAllInOne
<1>2. ASSUME NEW u \in Units, StartHook(u) PROVE HookInv'
  BY <1>2 DEF StartHook, HookOK
<1>3. ASSUME NEW u \in Units, FinishHook(u) PROVE HookInv'
  BY <1>3 DEF FinishHook, HookOK
<1>4. ASSUME NEW a \in Apps, SetConfigAction(a) PROVE HookInv'
  BY <1>4 DEF SetConfigAction
<1>5. CASE UNCHANGED hook
  BY <1>5
<1>6. Classify \/ AllInOneIdle \/ StartRounds \/ StartRound \/ EndRounds \/ EndGroup
        => UNCHANGED hook
  BY DEF Classify, AllInOneIdle, StartRounds, StartRound, EndRounds, EndGroup
<1>7. RunAction \/ RunActionFails \/ Fail \/ Rerun \/ UNCHANGED vars => UNCHANGED hook
  BY DEF RunAction, RunActionFails, Effect, Fail, Rerun, vars
<1> QED
  BY <1>1, <1>2, <1>3, <1>4, <1>5, <1>6, <1>7 DEF Next, TestStep, Terminated

\* A set with one element has nothing else in it.
LEMMA OneElement ==
  ASSUME NEW S \in SUBSET Units, Cardinality(S) = 1
  PROVE  \A u, v \in S : u = v
<1>1. IsFiniteSet(S)
  BY DeploymentAssumption, FS_Subset
<1>2. PICK x : S = {x}
  BY <1>1, FS_Singleton
<1> QED
  BY <1>2

\* A set without two different elements has at most one.
LEMMA AtMostOne ==
  ASSUME NEW S, \A u, v \in S : u = v
  PROVE  Cardinality(S) <= 1
<1>1. CASE S = {}
  BY <1>1, FS_EmptySet
<1>2. CASE S # {}
  <2>1. PICK x : x \in S
    BY <1>2
  <2>2. S = {x}
    BY <2>1
  <2>3. Cardinality({x}) = 1
    BY FS_Singleton
  <2> QED
    BY <2>2, <2>3
<1> QED
  BY <1>1, <1>2

\* The first unit of every application that is not done: one of each.
LEMMA RoundTakesOne ==
  ASSUME apps \subseteq Apps, NEW t \in RoundTargets
  PROVE  /\ \A u \in t : \E a \in apps : u \in UnitsOf[a]
         /\ \A a \in Apps : \A u, v \in t \cap UnitsOf[a] : u = v
<1>1. \A u \in t : \E a \in apps : u \in UnitsOf[a] \ done
  BY DEF RoundTargets, Pending
<1>2. ASSUME NEW a \in Apps, NEW u \in t \cap UnitsOf[a] PROVE a \in apps /\ Pending(a) # {}
  <2>1. PICK b \in apps : u \in UnitsOf[b] \ done
    BY <1>1, <1>2
  <2>2. b = a
    BY <2>1, <1>2, DeploymentAssumption
  <2> QED
    BY <2>1, <2>2 DEF Pending
<1>3. ASSUME NEW a \in Apps, NEW u \in t \cap UnitsOf[a], NEW v \in t \cap UnitsOf[a]
      PROVE  u = v
  <2>1. Cardinality(t \cap UnitsOf[a]) = 1
    BY <1>2, <1>3 DEF RoundTargets
  <2>2. t \cap UnitsOf[a] \in SUBSET Units
    BY DeploymentAssumption
  <2> QED
    BY <2>1, <2>2, <1>3, OneElement
<1> QED
  BY <1>1, <1>3

\* The target of a round is chosen by StartRound and kept until the round ends.
LEMMA TargetStep == SetsOK /\ TargetInv /\ [Next]_vars => TargetInv'
<1> SUFFICES ASSUME SetsOK, TargetInv, [Next]_vars PROVE TargetInv'
  OBVIOUS
<1> USE DEF TargetInv
<1>1. CASE StartRound
  <2>1. apps' = apps /\ target' \in RoundTargets /\ apps \subseteq Apps
    BY <1>1 DEF StartRound, SetsOK
  <2> QED
    BY <2>1, RoundTakesOne
<1>2. CASE UNCHANGED <<apps, target>> /\ (phase \in ActionPhases \/ UNCHANGED phase)
  BY <1>2
<1>3. RunAction \/ RunActionFails \/ Fail \/ UNCHANGED vars
        => UNCHANGED <<apps, target>> /\ (phase \in ActionPhases \/ UNCHANGED phase)
  BY DEF RunAction, RunActionFails, Fail, vars
<1>4. \A a \in Apps : SetConfigAllInOne(a) \/ SetConfigAction(a)
                        => UNCHANGED <<apps, target, phase>>
  BY DEF SetConfigAllInOne, SetConfigAction
<1>5. \A u \in Units : StartHook(u) \/ FinishHook(u) => UNCHANGED <<apps, target, phase>>
  BY DEF StartHook, FinishHook
<1>6. CASE phase' \notin ActionPhases
  BY <1>6
<1>7. Classify \/ AllInOneIdle \/ StartRounds \/ EndRounds \/ EndGroup \/ Rerun
        => phase' \notin ActionPhases
  BY DEF Classify, AllInOneIdle, StartRounds, EndRounds, EndGroup, Rerun, ActionPhases
<1> QED
  BY <1>1, <1>2, <1>3, <1>4, <1>5, <1>6, <1>7 DEF Next, TestStep, Terminated

\* A pause adds at most the target, a resume takes at most the target away, and
\* no other step changes what is paused.
LEMMA PausedStep ==
  SetsOK /\ AppsInv /\ TargetInv /\ PausedInv /\ [Next]_vars => PausedInv'
<1> SUFFICES ASSUME SetsOK, AppsInv, TargetInv, PausedInv, [Next]_vars
             PROVE  PausedInv'
  OBVIOUS
<1> USE DEF PausedInv, At
<1>1. CASE Classify
  BY <1>1 DEF Classify
<1>2. CASE AllInOneIdle
  <2>1. \A a \in actions : a \in Apps /\ a \notin source
    BY <1>2 DEF AllInOneIdle, AppsInv, SetsOK
  <2>2. \A a \in apps' : paused' \cap UnitsOf[a] = {}
    BY <1>2, <2>1 DEF AllInOneIdle
  <2> QED
    BY <1>2, <2>2 DEF AllInOneIdle
<1>3. CASE StartRounds
  BY <1>3 DEF StartRounds
<1>4. CASE StartRound
  BY <1>4 DEF StartRound
<1>5. CASE EndRounds
  BY <1>5 DEF EndRounds
<1>6. ASSUME driver = "running", phase \in ActionPhases, NEW S \in SUBSET ActionUnits, Effect(S),
             UNCHANGED <<apps, target>>
      PROVE  /\ (\A a \in Apps : a \notin source => paused \cap UnitsOf[a] = {})'
             /\ (\A a \in Apps : \A u, v \in paused \cap UnitsOf[a] : u = v)'
  <2>1. apps \subseteq Apps /\ apps \subseteq source
    BY <1>6 DEF AppsInv, RoundPhases, SetsOK
  <2>2. S \subseteq target
    BY <1>6 DEF ActionUnits
  <2>3. ASSUME NEW a \in Apps, a \notin apps PROVE target \cap UnitsOf[a] = {}
    BY <1>6, <2>1, <2>3, DeploymentAssumption DEF TargetInv
  <2>4. source' = source
    BY <1>6 DEF Effect
  <2>5. CASE phase = "pause"
    <3>1. paused' = paused \cup S
      BY <1>6, <2>5 DEF Effect
    <3>2. \A a \in apps : paused \cap UnitsOf[a] = {}
      BY <1>6, <2>5
    <3>3. \A a \in Apps : \A u, v \in target \cap UnitsOf[a] : u = v
      BY <1>6 DEF TargetInv
    <3>4. \A a \in Apps : \A u, v \in paused \cap UnitsOf[a] : u = v
      OBVIOUS
    <3>5. ASSUME NEW a \in Apps, NEW u \in paused' \cap UnitsOf[a],
                 NEW v \in paused' \cap UnitsOf[a]
          PROVE  u = v
      <4>1. CASE a \in apps
        BY <4>1, <3>1, <3>2, <3>3, <3>5, <2>2
      <4>2. CASE a \notin apps
        BY <4>2, <3>1, <3>4, <3>5, <2>2, <2>3
      <4> QED
        BY <4>1, <4>2
    <3>6. ASSUME NEW a \in Apps, a \notin source' PROVE paused' \cap UnitsOf[a] = {}
      <4>1. a \notin apps /\ paused \cap UnitsOf[a] = {}
        BY <3>6, <2>1, <2>4
      <4> QED
        BY <4>1, <3>1, <2>2, <2>3
    <3> QED
      BY <3>5, <3>6
  <2>6. CASE phase # "pause"
    <3>1. paused' \subseteq paused
      BY <1>6, <2>6 DEF Effect
    <3> QED
      BY <3>1, <2>4
  <2> QED
    BY <2>5, <2>6
<1>7. CASE RunAction
  <2>1. /\ phase \in ActionPhases /\ driver = "running" /\ Effect(ActionUnits)
        /\ phase' = NextPhase /\ UNCHANGED <<apps, target, driver>>
    BY <1>7 DEF RunAction
  <2>2. /\ (\A a \in Apps : a \notin source => paused \cap UnitsOf[a] = {})'
        /\ (\A a \in Apps : \A u, v \in paused \cap UnitsOf[a] : u = v)'
    BY <1>6, <2>1
  <2>3. CASE phase = "pause"
    <3>1. paused' = paused \cup target /\ phase' = "upgrade"
      BY <2>1, <2>3 DEF Effect, ActionUnits, NextPhase
    <3>2. \A a \in apps : paused \cap UnitsOf[a] = {}
      BY <2>1, <2>3
    <3> QED
      BY <2>1, <2>2, <3>1, <3>2
  <2>4. CASE phase = "resume"
    <3>1. paused' = paused \ target /\ phase' = "resume_ha"
      BY <2>1, <2>4 DEF Effect, ActionUnits, NextPhase
    <3>2. \A a \in apps : paused \cap UnitsOf[a] \subseteq target
      BY <2>1, <2>4
    <3> QED
      BY <2>1, <2>2, <3>1, <3>2
  <2>5. CASE phase = "upgrade"
    BY <2>1, <2>2, <2>5 DEF Effect, NextPhase
  <2>6. CASE phase \in {"pause_ha", "resume_ha"}
    BY <2>1, <2>2, <2>6 DEF Effect, NextPhase
  <2> QED
    BY <2>1, <2>3, <2>4, <2>5, <2>6 DEF ActionPhases
<1>8. CASE RunActionFails
  <2>1. /\ phase \in ActionPhases /\ driver = "running" /\ driver' = "raised"
        /\ UNCHANGED <<apps, target>>
    BY <1>8 DEF RunActionFails
  <2>2. PICK S \in SUBSET ActionUnits : Effect(S)
    BY <1>8 DEF RunActionFails
  <2> QED
    BY <1>6, <2>1, <2>2
<1>9. CASE EndGroup
  BY <1>9 DEF EndGroup
<1>10. ASSUME NEW a \in Apps, SetConfigAllInOne(a) PROVE PausedInv'
  BY <1>10 DEF SetConfigAllInOne
<1>11. ASSUME NEW a \in Apps, SetConfigAction(a) PROVE PausedInv'
  BY <1>11 DEF SetConfigAction
<1>12. CASE Fail
  BY <1>12 DEF Fail
<1>13. CASE Rerun
  BY <1>13 DEF Rerun
<1>14. ASSUME NEW u \in Units, StartHook(u) PROVE PausedInv'
  BY <1>14 DEF StartHook
<1>15. ASSUME NEW u \in Units, FinishHook(u) PROVE PausedInv'
  BY <1>15 DEF FinishHook
<1>16. CASE UNCHANGED vars
  BY <1>16 DEF vars
<1> QED
  BY <1>1, <1>2, <1>3, <1>4, <1>5, <1>7, <1>8, <1>9, <1>10, <1>11, <1>12,
     <1>13, <1>14, <1>15, <1>16 DEF Next, TestStep, Terminated

\* The subordinates of the target are paused before its units and resumed after
\* them, and no other step changes either.
LEMMA HAStep ==
  SetsOK /\ TargetInv /\ PausedInv /\ HAInv /\ [Next]_vars => HAInv'
<1> SUFFICES ASSUME SetsOK, TargetInv, PausedInv, HAInv, [Next]_vars PROVE HAInv'
  OBVIOUS
<1> USE DEF HAInv, PausedUnderHA, At
<1>1. CASE RunAction
  <2>1. /\ phase \in ActionPhases /\ driver = "running" /\ Effect(ActionUnits)
        /\ phase' = NextPhase /\ UNCHANGED <<apps, target, driver>>
    BY <1>1 DEF RunAction
  <2>2. CASE phase = "resume_ha"
    <3>1. paused \cap target = {}
      BY <2>1, <2>2 DEF TargetInv, PausedInv
    <3> QED
      BY <2>1, <2>2, <3>1 DEF Effect, NextPhase, ActionUnits
  <2>3. CASE phase # "resume_ha"
    BY <2>1, <2>3 DEF Effect, NextPhase, ActionUnits, ActionPhases
  <2> QED
    BY <2>2, <2>3
<1>2. CASE RunActionFails
  <2>1. /\ phase \in ActionPhases /\ driver = "running" /\ driver' = "raised"
        /\ UNCHANGED <<apps, target>>
    BY <1>2 DEF RunActionFails
  <2>2. PICK S \in SUBSET ActionUnits : Effect(S)
    BY <1>2 DEF RunActionFails
  <2>3. CASE phase = "resume_ha"
    <3>1. paused \cap target = {}
      BY <2>1, <2>3 DEF TargetInv, PausedInv
    <3> QED
      BY <2>1, <2>2, <2>3, <3>1 DEF Effect, ActionUnits
  <2>4. CASE phase # "resume_ha"
    BY <2>1, <2>2, <2>4 DEF Effect, ActionUnits, ActionPhases
  <2> QED
    BY <2>3, <2>4
<1>3. Classify \/ AllInOneIdle \/ StartRounds \/ StartRound \/ EndRounds \/ EndGroup \/ Rerun
        => /\ UNCHANGED <<paused, pausedHA>>
           /\ phase' \notin {"pause", "upgrade", "resume"}
  BY DEF Classify, AllInOneIdle, StartRounds, StartRound, EndRounds, EndGroup, Rerun
<1>4. \A a \in Apps : SetConfigAllInOne(a) \/ SetConfigAction(a)
                        => UNCHANGED <<paused, pausedHA, driver, phase, target>>
  BY DEF SetConfigAllInOne, SetConfigAction
<1>5. \A u \in Units : StartHook(u) \/ FinishHook(u)
                         => UNCHANGED <<paused, pausedHA, driver, phase, target>>
  BY DEF StartHook, FinishHook
<1>6. Fail \/ UNCHANGED vars
        => UNCHANGED <<paused, pausedHA, phase, target>> /\ driver' \in {driver, "raised"}
  BY DEF Fail, vars
<1>7. CASE /\ UNCHANGED <<paused, pausedHA>>
           /\ \/ phase' \notin {"pause", "upgrade", "resume"}
              \/ UNCHANGED <<phase, target>> /\ driver' \in {driver, "raised"}
  BY <1>7
<1> QED
  BY <1>1, <1>2, <1>3, <1>4, <1>5, <1>6, <1>7 DEF Next, TestStep, Terminated

\* The action of a round upgrades the target only, config-changed no unit of an
\* action-managed application, and no other step any unit.
LEMMA RoundStep ==
  SetsOK /\ AppsInv /\ HookInv /\ TargetInv /\ RoundInv /\ [Next]_vars => RoundInv'
<1> SUFFICES ASSUME SetsOK, AppsInv, HookInv, TargetInv, RoundInv, [Next]_vars
             PROVE  RoundInv'
  OBVIOUS
<1> USE DEF RoundInv, At
<1>1. CASE Classify
  BY <1>1 DEF Classify
<1>2. CASE AllInOneIdle
  <2>1. \A a \in actions : a \in Upgradable \ source
    BY <1>2 DEF AllInOneIdle, AppsInv
  <2> QED
    BY <1>2, <2>1 DEF AllInOneIdle
<1>3. CASE StartRounds
  BY <1>3 DEF StartRounds
<1>4. CASE StartRound
  <2>1. target' \cap done = {}
    BY <1>4 DEF StartRound, RoundTargets, Pending
  <2> QED
    BY <1>4, <2>1 DEF StartRound
<1>5. CASE EndRounds
  BY <1>5 DEF EndRounds
<1>6. ASSUME driver = "running", phase \in ActionPhases, NEW S \in SUBSET ActionUnits, Effect(S)
      PROVE  (\A a \in Upgradable \ source : upgraded \cap UnitsOf[a] = {})'
  <2>1. apps \subseteq Apps /\ apps \subseteq source /\ S \subseteq target
    BY <1>6 DEF AppsInv, RoundPhases, SetsOK, ActionUnits
  <2>2. ASSUME NEW a \in Upgradable \ source PROVE target \cap UnitsOf[a] = {}
    BY <1>6, <2>1, DeploymentAssumption DEF TargetInv
  <2>3. source' = source /\ upgraded' \subseteq upgraded \cup S
    BY <1>6 DEF Effect
  <2> QED
    BY <2>1, <2>2, <2>3
<1>7. CASE RunAction
  <2>1. /\ phase \in ActionPhases /\ driver = "running" /\ Effect(ActionUnits)
        /\ phase' = NextPhase /\ UNCHANGED <<apps, target, driver>>
        /\ done' = IF phase = "resume_ha" THEN done \cup target ELSE done
    BY <1>7 DEF RunAction
  <2>2. (\A a \in Upgradable \ source : upgraded \cap UnitsOf[a] = {})'
    BY <1>6, <2>1
  <2>3. CASE phase = "upgrade"
    BY <2>1, <2>2, <2>3 DEF Effect, ActionUnits, NextPhase
  <2>4. CASE phase = "resume_ha"
    BY <2>1, <2>2, <2>4 DEF Effect, NextPhase
  <2>5. CASE phase \in {"pause_ha", "pause", "resume"}
    BY <2>1, <2>2, <2>5 DEF Effect, NextPhase
  <2> QED
    BY <2>1, <2>3, <2>4, <2>5 DEF ActionPhases
<1>8. CASE RunActionFails
  <2>1. phase \in ActionPhases /\ driver = "running" /\ driver' = "raised"
    BY <1>8 DEF RunActionFails
  <2>2. PICK S \in SUBSET ActionUnits : Effect(S)
    BY <1>8 DEF RunActionFails
  <2> QED
    BY <1>6, <2>1, <2>2
<1>9. CASE EndGroup
  BY <1>9 DEF EndGroup
<1>10. ASSUME NEW a \in Apps, SetConfigAllInOne(a) PROVE RoundInv'
  BY <1>10 DEF SetConfigAllInOne
<1>11. ASSUME NEW a \in Apps, SetConfigAction(a) PROVE RoundInv'
  BY <1>11 DEF SetConfigAction
<1>12. CASE Fail
  BY <1>12 DEF Fail
<1>13. CASE Rerun
  BY <1>13 DEF Rerun
<1>14. ASSUME NEW u \in Units, StartHook(u) PROVE RoundInv'
  BY <1>14 DEF StartHook
<1>15. ASSUME NEW u \in Units, FinishHook(u) PROVE RoundInv'
  <2>1. \A a \in Upgradable : u \notin UnitsOf[a]
    BY <1>15 DEF FinishHook, HookInv
  <2>2. phase \in {"config_action", "round"} \cup ActionPhases => apps \subseteq Upgradable
    BY DEF AppsInv, RoundPhases
  <2>3. upgraded' = upgraded \cup {u} /\ UNCHANGED <<driver, phase, apps, target, done, source>>
    BY <1>15 DEF FinishHook
  <2> QED
    BY <2>1, <2>2, <2>3 DEF ActionPhases
<1>16. CASE UNCHANGED vars
  BY <1>16 DEF vars
<1> QED
  BY <1>1, <1>2, <1>3, <1>4, <1>5, <1>7, <1>8, <1>9, <1>10, <1>11, <1>12,
     <1>13, <1>14, <1>15, <1>16 DEF Next, TestStep, Terminated

\* No step takes a payload back, and a config-changed hook that ends has upgraded.
LEMMA PayloadKept ==
  ASSUME HookOK, [Next]_vars
  PROVE  /\ upgraded \subseteq upgraded'
         /\ \A u \in Units : hook[u] # "none" => hook'[u] # "none" \/ u \in upgraded'
<1>1. ASSUME NEW a \in Apps, SetConfigAllInOne(a)
      PROVE  upgraded' = upgraded /\ \A u \in Units : hook[u] # "none" => hook'[u] # "none"
  BY <1>1 DEF SetConfigAllInOne
<1>2. ASSUME NEW v \in Units, StartHook(v)
      PROVE  upgraded' = upgraded /\ \A u \in Units : hook[u] # "none" => hook'[u] # "none"
  BY <1>2 DEF StartHook, HookOK
<1>3. ASSUME NEW v \in Units, FinishHook(v)
      PROVE  /\ upgraded \subseteq upgraded'
             /\ \A u \in Units : hook[u] # "none" => hook'[u] # "none" \/ u \in upgraded'
  BY <1>3 DEF FinishHook, HookOK
<1>4. RunAction \/ RunActionFails => hook' = hook /\ upgraded \subseteq upgraded'
  BY DEF RunAction, RunActionFails, Effect
<1>5. Classify \/ AllInOneIdle \/ StartRounds \/ StartRound \/ EndRounds \/ EndGroup
        \/ Rerun \/ Fail \/ UNCHANGED vars
        => UNCHANGED <<hook, upgraded>>
  BY DEF Classify, AllInOneIdle, StartRounds, StartRound, EndRounds, EndGroup, Rerun, Fail,
         vars
<1>6. \A a \in Apps : SetConfigAction(a) => UNCHANGED <<hook, upgraded>>
  BY DEF SetConfigAction
<1> QED
  BY <1>1, <1>2, <1>3, <1>4, <1>5, <1>6 DEF Next, TestStep, Terminated

\* Units are paused only by a round, and only units of the applications it is about.
LEMMA PausedByRound ==
  ASSUME SetsOK, TargetInv, [Next]_vars,
         NEW a \in Apps, ~(driver = "running" /\ phase = "pause" /\ a \in apps)
  PROVE  paused' \cap UnitsOf[a] \subseteq paused
<1>1. ASSUME NEW S \in SUBSET ActionUnits, Effect(S), driver = "running", phase \in ActionPhases
      PROVE  paused' \cap UnitsOf[a] \subseteq paused
  <2>1. CASE phase = "pause"
    <3>1. paused' = paused \cup S /\ S \subseteq target
      BY <1>1, <2>1 DEF Effect, ActionUnits
    <3>2. a \notin apps /\ apps \subseteq Apps
      BY <1>1, <2>1 DEF SetsOK
    <3>3. target \cap UnitsOf[a] = {}
      BY <1>1, <3>2, DeploymentAssumption DEF TargetInv
    <3> QED
      BY <3>1, <3>3
  <2>2. CASE phase # "pause"
    BY <1>1, <2>2 DEF Effect
  <2> QED
    BY <2>1, <2>2
<1>2. RunAction \/ RunActionFails => paused' \cap UnitsOf[a] \subseteq paused
  BY <1>1 DEF RunAction, RunActionFails
<1>3. Classify \/ AllInOneIdle \/ StartRounds \/ StartRound \/ EndRounds \/ EndGroup
        \/ Rerun \/ Fail \/ UNCHANGED vars
        => UNCHANGED paused
  BY DEF Classify, AllInOneIdle, StartRounds, StartRound, EndRounds, EndGroup, Rerun, Fail,
         vars
<1>4. \A b \in Apps : SetConfigAllInOne(b) \/ SetConfigAction(b) => UNCHANGED paused
  BY DEF SetConfigAllInOne, SetConfigAction
<1>5. \A u \in Units : StartHook(u) \/ FinishHook(u) => UNCHANGED paused
  BY DEF StartHook, FinishHook
<1> QED
  BY <1>2, <1>3, <1>4, <1>5 DEF Next, TestStep, Terminated

\* An application that is upgraded stays so, unless it is one that a round is about.
LEMMA FinishedKept ==
  ASSUME SetsOK, HookOK, TargetInv, [Next]_vars,
         NEW a \in Apps, ~(driver = "running" /\ phase = "pause" /\ a \in apps),
         Finished(a)
  PROVE  Finished(a)'
<1>1. UnitsOf[a] \subseteq Units
  BY DeploymentAssumption
<1>2. /\ upgraded \subseteq upgraded'
      /\ \A u \in Units : hook[u] # "none" => hook'[u] # "none" \/ u \in upgraded'
  BY PayloadKept
<1>3. paused' \cap UnitsOf[a] \subseteq paused
  BY PausedByRound
<1> QED
  BY <1>1, <1>2, <1>3 DEF Finished

\* A group is left when all its applications are upgraded.
LEMMA FirstStartStep ==
  /\ SetsOK /\ HookOK /\ AppsInv /\ TargetInv /\ PausedInv /\ RoundInv /\ FirstStart
  /\ [Next]_vars
  => FirstStart'
<1> SUFFICES ASSUME SetsOK, HookOK, AppsInv, TargetInv, PausedInv, RoundInv, FirstStart,
                    [Next]_vars, run' = 1, driver' # "raised"
             PROVE  GroupInv'
  BY DEF FirstStart
<1>1. ~Fail /\ ~RunActionFails /\ ~Rerun
  BY DEF Fail, RunActionFails, Rerun, SetsOK
<1>2. run = 1 /\ driver # "raised"
  BY <1>1 DEF Next, TestStep, Classify, AllInOneIdle, StartRounds, StartRound, EndRounds,
              RunAction, EndGroup, SetConfigAllInOne, SetConfigAction, StartHook, FinishHook,
              Terminated, vars, At
<1>3. GroupInv
  BY <1>2 DEF FirstStart
<1>4. /\ \A i \in 1..Len(Groups) : Groups[i] \subseteq Apps
      /\ \A i, j \in 1..Len(Groups) : i # j => Groups[i] \cap Groups[j] = {}
      /\ group \in 1..(Len(Groups) + 1) /\ Len(Groups) \in Nat
      /\ driver = "running" => group \in 1..Len(Groups)
  BY GroupsFacts, DeploymentAssumption DEF SetsOK
<1>5. \A a \in Apps : Finished(a) /\ ~(driver = "running" /\ phase = "pause" /\ a \in apps)
                        => Finished(a)'
  BY FinishedKept
<1>6. ASSUME group' = group
      PROVE  \A i \in 1..Len(Groups) : i < group' => \A a \in Groups[i] : Finished(a)'
  <2> SUFFICES ASSUME NEW i \in 1..Len(Groups), i < group, NEW a \in Groups[i]
               PROVE  Finished(a)'
    BY <1>6
  <2>1. a \in Apps /\ Finished(a)
    BY <1>3, <1>4 DEF GroupInv
  <2>2. ~(driver = "running" /\ phase = "pause" /\ a \in apps)
    BY <1>3, <1>4 DEF GroupInv, RoundPhases, ActionPhases
  <2> QED
    BY <1>5, <2>1, <2>2
<1>7. ASSUME driver = "running", UNCHANGED <<driver, group>>, source' = source,
             phase' = "classify" => phase = "classify"
      PROVE  \A i \in 1..Len(Groups) :
               group' < i \/ (group' = i /\ phase' = "classify") => Groups[i] \cap source' = {}
  BY <1>3, <1>7 DEF GroupInv
<1>8. ASSUME driver = "running", phase # "pause",
             NEW a \in Groups[group] \ Upgradable, Finished(a)
      PROVE  Finished(a)'
  BY <1>4, <1>5, <1>8
<1> USE DEF At
<1>9. CASE Classify
  <2>1. /\ driver = "running" /\ phase = "classify" /\ phase' = "config_all"
        /\ UNCHANGED <<driver, group, source>>
        /\ apps' = {a \in Groups[group] : a \notin source} \ Upgradable
        /\ actions' = {a \in Groups[group] : a \notin source} \cap Upgradable
    BY <1>9 DEF Classify, IsAlreadyUpgraded
  <2>2. Groups[group] \cap source = {}
    BY <1>3, <1>4, <2>1 DEF GroupInv
  <2>3. apps' = Groups[group] \ Upgradable /\ actions' = Groups[group] \cap Upgradable
    BY <2>1, <2>2
  <2> QED
    BY <1>6, <1>7, <2>1, <2>2, <2>3 DEF GroupInv, RoundPhases, ActionPhases
<1>10. CASE AllInOneIdle
  <2>1. /\ driver = "running" /\ phase = "config_all" /\ phase' = "config_action"
        /\ UNCHANGED <<driver, group, source>> /\ apps \subseteq source /\ apps' = actions
    BY <1>10 DEF AllInOneIdle
  <2>2. \A a \in Groups[group] \ Upgradable : Finished(a)'
    BY <1>3, <1>8, <2>1 DEF GroupInv
  <2>3. apps' = Groups[group] \cap Upgradable
    BY <1>3, <2>1 DEF GroupInv
  <2> QED
    BY <1>6, <1>7, <2>1, <2>2, <2>3 DEF GroupInv, RoundPhases, ActionPhases
<1>11. CASE StartRounds
  <2>1. /\ driver = "running" /\ phase = "config_action" /\ done' = {}
        /\ phase' = IF apps = {} THEN "settle" ELSE "round"
        /\ UNCHANGED <<driver, group, source, apps>>
    BY <1>11 DEF StartRounds
  <2>2. /\ apps = Groups[group] \cap Upgradable
        /\ \A a \in Groups[group] \ Upgradable : Finished(a)'
    BY <1>3, <1>8, <2>1 DEF GroupInv
  <2> QED
    BY <1>6, <1>7, <2>1, <2>2 DEF GroupInv, RoundPhases, ActionPhases
<1>12. CASE StartRound
  <2>1. /\ driver = "running" /\ phase = "round" /\ phase' = "pause_ha"
        /\ UNCHANGED <<driver, group, source, apps, done, upgraded>>
    BY <1>12 DEF StartRound
  <2>2. /\ apps = Groups[group] \cap Upgradable /\ done \subseteq upgraded
        /\ \A a \in Groups[group] \ Upgradable : Finished(a)'
    BY <1>3, <1>8, <2>1 DEF GroupInv, RoundPhases
  <2> QED
    BY <1>6, <1>7, <2>1, <2>2 DEF GroupInv, RoundPhases, ActionPhases
<1>13. CASE EndRounds
  <2>1. /\ driver = "running" /\ phase = "round" /\ phase' = "settle"
        /\ UNCHANGED <<driver, group, source, apps>>
        /\ \A a \in apps : UnitsOf[a] \subseteq done
    BY <1>13 DEF EndRounds, Pending
  <2>2. /\ apps = Groups[group] \cap Upgradable /\ done \subseteq upgraded
        /\ \A a \in Groups[group] \ Upgradable : Finished(a)'
    BY <1>3, <1>8, <2>1 DEF GroupInv, RoundPhases
  <2>3. \A a \in apps : Finished(a)
    BY <2>1, <2>2 DEF Finished, PausedInv
  <2>4. \A a \in apps : Finished(a)'
    BY <1>4, <1>5, <2>1, <2>2, <2>3
  <2> QED
    BY <1>6, <1>7, <2>1, <2>2, <2>4 DEF GroupInv, RoundPhases, ActionPhases
<1>14. CASE RunAction
  <2>1. /\ driver = "running" /\ phase \in ActionPhases /\ phase' = NextPhase
        /\ UNCHANGED <<driver, group, source, apps>>
        /\ done' = IF phase = "resume_ha" THEN done \cup target ELSE done
    BY <1>14 DEF RunAction, Effect
  <2>2. /\ apps = Groups[group] \cap Upgradable /\ done \subseteq upgraded
        /\ \A a \in Groups[group] \ Upgradable : Finished(a)
    BY <1>3, <2>1 DEF GroupInv, RoundPhases
  <2>3. \A a \in Groups[group] \ Upgradable : Finished(a)'
    BY <1>4, <1>5, <2>1, <2>2
  <2>4. done' \subseteq upgraded
    BY <2>1, <2>2 DEF RoundInv
  <2>5. upgraded \subseteq upgraded'
    BY PayloadKept
  <2>6. phase' \in {"round"} \cup ActionPhases
    BY <2>1 DEF NextPhase, ActionPhases
  <2> QED
    BY <1>6, <1>7, <2>1, <2>2, <2>3, <2>4, <2>5, <2>6 DEF GroupInv, RoundPhases, ActionPhases
<1>15. CASE EndGroup
  <2>1. /\ driver = "running" /\ phase = "settle" /\ phase' = "classify" /\ group' = group + 1
        /\ source' = source
        /\ driver' = "done" => group = Len(Groups)
    BY <1>15 DEF EndGroup, AfterGroup
  <2>2. \A a \in Groups[group] : a \in Apps /\ Finished(a)
    BY <1>3, <1>4, <2>1 DEF GroupInv, RoundPhases
  <2>3. ASSUME NEW i \in 1..Len(Groups), i < group', NEW a \in Groups[i] PROVE Finished(a)'
    <3>1. i < group \/ i = group
      BY <1>4, <2>1, <2>3
    <3>2. a \in Apps /\ Finished(a)
      BY <1>3, <1>4, <2>2, <2>3, <3>1 DEF GroupInv
    <3> QED
      BY <1>5, <2>1, <3>2
  <2>4. \A i \in 1..Len(Groups) : group' < i \/ group' = i => Groups[i] \cap source' = {}
    BY <1>3, <1>4, <2>1 DEF GroupInv
  <2> QED
    BY <2>1, <2>3, <2>4 DEF GroupInv, RoundPhases, ActionPhases
<1>16. ASSUME NEW b \in Apps, SetConfigAllInOne(b) PROVE GroupInv'
  <2>1. /\ driver = "running" /\ phase = "config_all" /\ b \in apps /\ source' = source \cup {b}
        /\ UNCHANGED <<driver, group, phase, apps, actions>>
    BY <1>16 DEF SetConfigAllInOne
  <2>2. apps = Groups[group] \ Upgradable /\ actions = Groups[group] \cap Upgradable
    BY <1>3, <2>1 DEF GroupInv
  <2>3. \A i \in 1..Len(Groups) : group < i => Groups[i] \cap source' = {}
    BY <1>3, <1>4, <2>1, <2>2 DEF GroupInv
  <2>4. Finished(b)'
    <3>1. b \notin Upgradable /\ UnitsOf[b] \subseteq Units
      BY <2>1, <2>2, DeploymentAssumption
    <3>2. \A u \in UnitsOf[b] : hook'[u] # "none"
      BY <1>16, <3>1 DEF SetConfigAllInOne
    <3> QED
      BY <3>1, <3>2 DEF Finished
  <2>5. \A a \in apps \cap source' : Finished(a)'
    BY <1>3, <1>8, <2>1, <2>2, <2>4 DEF GroupInv
  <2> QED
    BY <1>6, <2>1, <2>2, <2>3, <2>5 DEF GroupInv, RoundPhases, ActionPhases
<1>17. ASSUME NEW b \in Apps, SetConfigAction(b) PROVE GroupInv'
  <2>1. /\ driver = "running" /\ phase = "config_action" /\ b \in apps
        /\ source' = source \cup {b} /\ UNCHANGED <<driver, group, phase, apps>>
    BY <1>17 DEF SetConfigAction
  <2>2. /\ apps = Groups[group] \cap Upgradable
        /\ \A a \in Groups[group] \ Upgradable : Finished(a)'
    BY <1>3, <1>8, <2>1 DEF GroupInv
  <2>3. \A i \in 1..Len(Groups) : group < i => Groups[i] \cap source' = {}
    BY <1>3, <1>4, <2>1, <2>2 DEF GroupInv
  <2> QED
    BY <1>6, <2>1, <2>2, <2>3 DEF GroupInv, RoundPhases, ActionPhases
<1>18. ASSUME UNCHANGED testVars, source' = source PROVE GroupInv'
  <2>1. \A a \in Apps : Finished(a) => Finished(a)' \/ phase = "pause"
    BY <1>5
  <2>2. UNCHANGED <<driver, group, phase, apps, actions, done>>
    BY <1>18
  <2>3. upgraded \subseteq upgraded'
    BY PayloadKept
  <2>4. driver = "running" => Groups[group] \subseteq Apps /\ apps \subseteq Apps
    BY <1>4 DEF SetsOK
  <2>5. driver = "running" /\ phase \in ActionPhases
          => \A a \in Groups[group] \ Upgradable : Finished(a)'
    BY <1>3, <1>4, <1>5 DEF GroupInv, RoundPhases
  <2>6. driver = "running" =>
          /\ \A i \in 1..Len(Groups) :
               group < i \/ (group = i /\ phase = "classify") => Groups[i] \cap source' = {}
          /\ phase = "config_all" =>
               /\ apps = Groups[group] \ Upgradable /\ actions = Groups[group] \cap Upgradable
               /\ \A a \in apps \cap source : Finished(a)'
          /\ phase \in {"config_action"} \cup RoundPhases => apps = Groups[group] \cap Upgradable
          /\ phase \in {"config_action", "round", "settle"} =>
               \A a \in Groups[group] \ Upgradable : Finished(a)'
          /\ phase \in {"round"} \cup ActionPhases => done \subseteq upgraded'
          /\ phase = "settle" => \A a \in apps : Finished(a)'
    BY <1>3, <1>18, <2>1, <2>3, <2>4 DEF GroupInv, RoundPhases
  <2>7. (driver = "done" => group = Len(Groups) + 1)'
    BY <1>3, <2>2 DEF GroupInv
  <2> QED
    BY <1>6, <1>18, <2>2, <2>5, <2>6, <2>7 DEF GroupInv, RoundPhases
<1>19. \A u \in Units : StartHook(u) \/ FinishHook(u) => UNCHANGED testVars /\ source' = source
  BY DEF StartHook, FinishHook
<1>20. UNCHANGED vars => UNCHANGED testVars /\ source' = source
  BY DEF vars
<1> QED
  BY <1>1, <1>9, <1>10, <1>11, <1>12, <1>13, <1>14, <1>15, <1>16, <1>17, <1>18, <1>19, <1>20
     DEF Next, TestStep, Terminated

\* The inductive invariant behind the theorems below.
UpgradeInv ==
  /\ SetsOK /\ HookOK /\ AppsInv /\ HookInv /\ TargetInv /\ PausedInv /\ HAInv /\ RoundInv
  /\ FirstStart

\* It holds at the start and in every step, so always.
LEMMA UpgradeInvariant == Spec => []UpgradeInv
<1>1. Init => SetsOK /\ HookOK
  BY GroupsFacts, DeploymentAssumption DEF Init, SetsOK, HookOK, Phases
<1>2. Init => AppsInv /\ HookInv /\ TargetInv /\ PausedInv /\ HAInv /\ RoundInv
  BY DEF Init, AppsInv, RoundPhases, HookInv, TargetInv, ActionPhases, PausedInv, HAInv,
         PausedUnderHA, RoundInv
<1>3. Init => FirstStart
  BY DEF Init, FirstStart, GroupInv, RoundPhases, ActionPhases
<1> QED
  BY <1>1, <1>2, <1>3, SetsStep, HookStep, AppsStep, HookInvStep, TargetStep, PausedStep,
     HAStep, RoundStep, FirstStartStep, PTL DEF Spec, UpgradeInv

-----------------------------------------------------------------------------
(* Theorems *)

\* At most one unit of an application is paused at any time, also when actions
\* fail half way through a round and the test is started again.
THEOREM OneUnitDown == Spec => []OneUnitDownPerApp
<1>1. UpgradeInv => OneUnitDownPerApp
  <2> SUFFICES ASSUME UpgradeInv, NEW a \in Apps
               PROVE  Cardinality(paused \cap UnitsOf[a]) <= 1
    BY DEF OneUnitDownPerApp
  <2>1. \A u, v \in paused \cap UnitsOf[a] : u = v
    BY DEF UpgradeInv, PausedInv
  <2> QED
    BY <2>1, AtMostOne
<1> QED
  BY <1>1, UpgradeInvariant, PTL

\* No unit is ever paused while its hacluster subordinate runs, whichever action
\* of the round fails and on whichever units.
THEOREM HAPausedAround == Spec => []PausedUnderHA
<1>1. UpgradeInv => PausedUnderHA
  BY DEF UpgradeInv, HAInv
<1> QED
  BY <1>1, UpgradeInvariant, PTL

\* A test that passes at its first start has upgraded every application of every group
\* and has left no unit paused, for every division into groups: the loop over rounds
\* ends only when no application has a unit left.
THEOREM PassedUpgradesAll == Spec => []UpgradedWhenDone
<1>1. UpgradeInv => UpgradedWhenDone
  <2> SUFFICES ASSUME UpgradeInv, driver = "done", run = 1,
                      NEW i \in 1..Len(Groups), NEW a \in Groups[i]
               PROVE  Finished(a)
    BY DEF UpgradedWhenDone
  <2>1. GroupInv
    BY DEF UpgradeInv, FirstStart
  <2>2. i < group
    BY <2>1, GroupsFacts DEF GroupInv
  <2> QED
    BY <2>1, <2>2 DEF GroupInv
<1> QED
  BY <1>1, UpgradeInvariant, PTL

\* The rounds implement RollingUpgrade: a unit of an action-managed application is
\* paused, upgraded and resumed once each and in this order, whichever actions fail on
\* whichever units and however often the test is started again, and a config-changed
\* hook that is still on its way upgrades none of them.
THEOREM ImplementsRollingUpgrade == Spec => Refinement
<1>1. Init => Promise!Init
  BY DEF Init, Promise!Init
<1>2. ASSUME UpgradeInv, UpgradeInv', [Next]_vars
      PROVE  [Promise!Next]_<<paused, upgraded \cap RoundUnits>>
  <2> USE <1>2 DEF UpgradeInv
  <2>1. ASSUME NEW S \in SUBSET ActionUnits, Effect(S), driver = "running", phase \in ActionPhases
        PROVE  [Promise!Next]_<<paused, upgraded \cap RoundUnits>>
    <3>1. S \subseteq target /\ S \in SUBSET Units /\ apps \subseteq Upgradable
      BY <2>1 DEF ActionUnits, SetsOK, AppsInv, RoundPhases
    <3>2. \A u \in target : \E a \in apps : u \in UnitsOf[a]
      BY <2>1 DEF TargetInv
    <3>3. target \subseteq RoundUnits
      BY <3>1, <3>2 DEF RoundUnits
    <3>4. CASE phase = "pause"
      <4>1. S \cap paused = {}
        BY <2>1, <3>1, <3>2, <3>4 DEF PausedInv
      <4>2. S \cap upgraded = {}
        BY <2>1, <3>1, <3>2, <3>4 DEF RoundInv
      <4>3. paused' = paused \cup S /\ upgraded' = upgraded
        BY <2>1, <3>4 DEF Effect
      <4>4. \A a \in Apps : \A u, v \in paused' \cap UnitsOf[a] : u = v
        BY DEF PausedInv
      <4>5. Promise!TakeDown(S)
        BY <4>1, <4>2, <4>3, <4>4 DEF Promise!TakeDown, RoundUnits
      <4> QED
        BY <3>1, <4>5 DEF Promise!Next
    <3>5. CASE phase = "upgrade"
      <4>1. S \subseteq paused
        BY <2>1, <3>1, <3>5 DEF PausedInv
      <4>2. S \cap upgraded = {}
        BY <2>1, <3>1, <3>2, <3>5 DEF RoundInv
      <4>3. paused' = paused /\ upgraded' = upgraded \cup S
        BY <2>1, <3>5 DEF Effect
      <4>4. Promise!Upgrade(S)
        <5>1. S \subseteq paused \ (upgraded \cap RoundUnits)
          BY <4>1, <4>2
        <5>2. upgraded' \cap RoundUnits = (upgraded \cap RoundUnits) \cup S
          BY <3>1, <3>3, <4>3
        <5> QED
          BY <4>3, <5>1, <5>2 DEF Promise!Upgrade, RoundUnits
      <4> QED
        BY <3>1, <4>4 DEF Promise!Next
    <3>6. CASE phase = "resume"
      <4>1. S \subseteq paused
        BY <2>1, <3>1, <3>6 DEF PausedInv
      <4>2. S \subseteq upgraded
        BY <2>1, <3>1, <3>6 DEF RoundInv
      <4>3. paused' = paused \ S /\ upgraded' = upgraded
        BY <2>1, <3>6 DEF Effect
      <4>4. Promise!BringUp(S)
        BY <3>1, <3>3, <4>1, <4>2, <4>3 DEF Promise!BringUp, RoundUnits
      <4> QED
        BY <3>1, <4>4 DEF Promise!Next
    <3>7. CASE phase \in {"pause_ha", "resume_ha"}
      BY <2>1, <3>7 DEF Effect, RoundUnits
    <3> QED
      BY <2>1, <3>4, <3>5, <3>6, <3>7 DEF ActionPhases
  <2>2. CASE RunAction
    BY <2>1, <2>2 DEF RunAction
  <2>3. CASE RunActionFails
    BY <2>1, <2>3 DEF RunActionFails
  <2>4. ASSUME NEW u \in Units, FinishHook(u)
        PROVE  UNCHANGED <<paused, upgraded \cap RoundUnits>>
    BY <2>4 DEF FinishHook, HookInv, RoundUnits
  <2>5. CASE UNCHANGED <<paused, upgraded>>
    BY <2>5 DEF RoundUnits
  <2>6. Classify \/ AllInOneIdle \/ StartRounds \/ StartRound \/ EndRounds \/ EndGroup
          \/ Rerun \/ Fail \/ UNCHANGED vars
          => UNCHANGED <<paused, upgraded>>
    BY DEF Classify, AllInOneIdle, StartRounds, StartRound, EndRounds, EndGroup, Rerun,
           Fail, vars
  <2>7. \A a \in Apps : SetConfigAllInOne(a) \/ SetConfigAction(a)
                          => UNCHANGED <<paused, upgraded>>
    BY DEF SetConfigAllInOne, SetConfigAction
  <2>8. \A u \in Units : StartHook(u) => UNCHANGED <<paused, upgraded>>
    BY DEF StartHook
  <2> QED
    BY <2>2, <2>3, <2>4, <2>5, <2>6, <2>7, <2>8 DEF Next, TestStep, Terminated
<1> QED
  BY <1>1, <1>2, UpgradeInvariant, PTL DEF Spec, Refinement, Promise!Spec

=============================================================================
