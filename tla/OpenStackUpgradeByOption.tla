----------------------- MODULE OpenStackUpgradeByOption -----------------------
(***************************************************************************)
(* OpenStackUpgradeTestsByOption of charm_tests/openstack_upgrade/tests.py,*)
(* run again and again on one cloud: it detects the release of one charm,  *)
(* works out the source of the next one and upgrades all services to it.   *)
(***************************************************************************)
EXTENDS OpenStackReleases

CONSTANTS
  Services,  \* the services that run_upgrade_tests upgrades
  Detect     \* openstack_upgrade.detect_using_charm

ASSUME ServicesAssumption == Detect \in Services

VARIABLES
  ubuntu,   \* series of the lead unit of Detect
  release,  \* [Services -> codename]
  upgraded, \* the release the last upgrade went to, or "none"
  outcome   \* "ready", or "raised"

ovars == <<ubuntu, release, upgraded, outcome>>

OInit ==
  /\ ubuntu \in Series
  /\ release \in [Services -> PairedWith(ubuntu)]
  /\ upgraded = "none"
  /\ outcome = "ready"

\* get_current_os_versions is asked about the detect charm only.
CurrentVersions == {release[Detect]}

NewSource ==
  LET from == GetLowestOpenStackVersion(CurrentVersions)
      to   == DetermineNextOpenStackRelease(from)
  IN IF to = "raise" THEN "none" ELSE DetermineNewSource(ubuntu, from, to, TRUE)

\* test_200_run_openstack_upgrade.  run_upgrade_tests is specified by
\* OpenStackUpgrade: it brings every service to the new source.
RunOpenStackUpgrade ==
  /\ outcome = "ready"
  /\ NewSource # "none"
  /\ upgraded' = NewSource
  /\ release' = [s \in Services |-> NewSource]
  /\ UNCHANGED <<ubuntu, outcome>>

\* "assert target_source is not None" fails, or determine_next_openstack_release
\* raises before it.
NoTarget ==
  /\ outcome = "ready"
  /\ NewSource = "none"
  /\ outcome' = "raised"
  /\ UNCHANGED <<ubuntu, release, upgraded>>

OTerminated == outcome = "raised" /\ UNCHANGED ovars

ONext == RunOpenStackUpgrade \/ NoTarget \/ OTerminated

OSpec == OInit /\ [][ONext]_ovars

-----------------------------------------------------------------------------
\* No upgrade takes the detected charm back or over a release, although the lowest
\* version is found by comparing strings and codenames stop being in alphabetical
\* order after zed; and after a first upgrade this is so for every service,
\* wherever it started.
SingleIncrement ==
  [][\A s \in Services :
       release'[s] # release[s] /\ (s = Detect \/ upgraded # "none") =>
         Index(release'[s]) = Index(release[s]) + 1]_ovars

\* The test raises only on a cloud whose archive has no release after the detected
\* one, and on zed, which no version can be upgraded from: it is not less than the
\* 'zebra' that the search for the lowest version starts with.
StopsAtLastRelease ==
  outcome = "raised" /\ release[Detect] # "zed" =>
    \A i \in DOMAIN OpenStackCodenames :
      i = Index(release[Detect]) + 1 => OpenStackCodenames[i] \notin PairedWith(ubuntu)

=============================================================================
