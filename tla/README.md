# TLA+ models of zaza-openstack-tests

zaza-openstack-tests drives and tests deployed OpenStack clouds.  Most of its
test classes ask one service one question.  What carries risk is the code that
changes a running Juju model while other things move: upgrades of the series,
of the payload and of the charms; the setup functions that bring up vault, the
networks, images, flavors and keys of a cloud, and that are run again after they
stopped half-way; and the helpers that create, await and delete cloud resources
through clients that retry.  This project models that code, checks it with TLC and
proves with TLAPS, for instances of every size, the safety properties of the series,
payload and charm upgrades, the retrier, guests, vault, networks, images, flavors and
keys.

Paths below are relative to `src/zaza/openstack/`.

## 1. Inventory

| part | state it keeps | operations | interacts with |
|---|---|---|---|
| Series upgrade by application (`utilities/series_upgrade.py`, `charm_tests/series_upgrade/tests.py`) | `completed_machines`, one status snapshot per application, the group loop | pause non-leaders, dist-upgrade, prepare, do-release-upgrade, reboot, set origin, complete, set series, complete the cluster | one coroutine per application of a group, all sharing `completed_machines`; Juju's hooks; machines that reboot |
| Series upgrade by machine (`utilities/parallel_series_upgrade.py`, `charm_tests/series_upgrade/parallel_tests.py`) | `completed_machines`, the list of machines of an application, Juju's upgrade lock, the apt override file | parallel and serial function, one task per machine | `asyncio.gather` over machines; `sync_wrapper` between driver and functions |
| Payload upgrade (`utilities/openstack_upgrade.py`) | the rounds (`target`, `done`), origin options, paused units | classify, set options, pause, upgrade, resume, next round | actions on several units at once, hooks of all-in-one upgrades |
| Releases (`utilities/os_versions.py`, `utilities/upgrade_utils.py`, `charm_tests/openstack_upgrade/tests.py`) | tables of releases and pairs | compare, next release, new source | drives the payload upgrade |
| Upgrade groups (`utilities/upgrade_utils.py`) | `SERVICE_GROUPS` and the filters | groups for series, payload and charm upgrades | read by every upgrade |
| Charm upgrade (`charm_tests/charm_upgrade/tests.py`) | channels of the charms | move each application to the next track | upgrade groups, releases |
| Retrying clients (`utilities/__init__.py`) | retries, interval and total sleep of one call | `ObjectRetrierWraps`, `retry_on_connect_failure` | wraps the nova client of every session (`utilities/openstack.py:395`) and some clients of the octavia, policyd and cinder-backup tests; the other session clients are bare |
| Launching guests (`configure/guest.py`, `charm_tests/test_utils.py`, `utilities/openstack.py`) | attempts, polls, servers in the cloud | launch, retrieve, delete and await, clean up | nova through the retrying client |
| External ports (`utilities/openstack.py`, `charm_tests/neutron/setup.py`) | ports on the external network, interfaces and netplan of the machines, data port options of the charms | create and attach a port per machine, persist it, configure the charms | undercloud's neutron and nova, lxd, MAAS, Juju |
| Networks (`utilities/openstack.py`, `configure/network.py`, `configure/bgp_speaker.py`, `charm_tests/octavia/setup.py`, `charm_tests/dragent/configure.py`) | the overcloud's networks, routers, rules, BGP speaker | get-or-create, plug, restart the BGP agent, advertise | neutron; the BGP agent and its log |
| Images, flavors and keys (`utilities/openstack.py`, `charm_tests/glance/setup.py`, `charm_tests/nova/setup.py`) | files in the cache directory, the cloud's images, flavors and key pair, the private key on disk | download, convert, upload and await; create and set specs; replace and write | glance, nova, the image server |
| Test base classes (`charm_tests/test_utils.py`) | charm options and paused units | `config_change`, `pause_resume`, deferred restarts | Juju |
| Vault (`charm_tests/vault/`, `utilities/cert.py`) | unseal keys in the home directory of a unit, sealed state of each unit, vault's CA | init, store, unseal, authorize, sign and upload, validate | setup of every TLS deployment |
| mysql, rabbitmq, ceph, swift, masakari, tempest, policyd and the charm tests of single services | mostly none | sequences of actions and assertions | the above |

What is hard here:

* Concurrency: coroutines of a group test a shared list, then await for an hour,
  then append to it; `gather` raises while the other tasks go on.
* Stale knowledge: Juju's status from before a reboot satisfies a wait that is
  meant for after it; an option set at the start of an upgrade is read by the
  next run as a sign that the upgrade was done.
* Partial failure: an action fails on one unit of several; a clean-up callback
  fails itself; a failed command is only logged.
* Reruns: a configuration that stopped is started again from its first function
  and must recognise what the first run left, down to half-written files.
* Retries and time-outs: a create whose answer is lost is repeated; a wait for a
  deletion ends before the deletion does.
* Boundaries: the last release, zed and the codenames after it, which begin the
  alphabet again, the limits of the retrier.

`PROJECT.json` lists each of these at the line where it bites, with the
properties that cover it.

## 2. The modules

### SeriesUpgrade, MachineUpgrades, AppConfig

`SeriesUpgrade` models `async_series_upgrade_application`,
`async_series_upgrade_non_leaders_first`, `async_series_upgrade` and their
synchronous counterparts (constant `IsAsync`), driven by the two tests of
`charm_tests/series_upgrade/tests.py`.  Every application has a program counter
`pc[a]`, whose labels are the awaits of the code, the units still to be visited
`todo[a]`, and the unit being upgraded `cur[a]`.  `completed` is
`completed_machines`.  Juju is in `hook` (what a unit's agent is doing), the
machines in `series` and `down`.  One coroutine step is what runs between two
awaits.  The agents' hooks and reboots interleave freely.  `ReleaseUpgradeFails` is the
synchronous `run_via_ssh`, which logs a failure and returns; in the
asynchronous code a failure raises and ends the test.

`MachineUpgrades` is the abstract specification: a machine is claimed by one
application at a time, recorded by the claimer, never claimed again.  Both
detailed specifications implement it.

`AppConfig` is the two `app_config` tables: which origin option a charm has,
which non-leaders are paused and whether the leader is last.  MC modules
derive the constants of their deployments from it.

### ParallelSeriesUpgrade

`async_parallel_series_upgrade`, `async_serial_series_upgrade` and
`series_upgrade_machine` with one task per machine, Juju's lock on a prepared
machine, the apt override, failures of single tasks and the driver of
`parallel_tests.py`.  The functions are wrapped by `sync_wrapper`, so that an
application is upgraded while the arguments of `gather` are collected:
`AppStep`s of different applications never interleave, tasks of one do, and the
semaphore of the driver never has more than one to admit.  The
`gather` of a group then awaits `None` and the test raises, so a test gets
through one group that needs work per start; `Rerun` is the next start.

### OpenStackUpgrade

`run_upgrade_tests`: for each group, applications whose origin has the target
are skipped, all-in-one applications get the option and a config-changed hook,
action-managed ones go through rounds of pause hacluster, pause, upgrade,
resume, resume hacluster on one unit of each.  An action may fail on any part of
its units, any other call may fail, and the test may be started again.

`RollingUpgrade` is the abstract specification of the rounds: a unit goes out of
service, gets the new payload and comes back, once each and in this order, and no two
units of an application are out of service together.  `Refinement` maps `down` to the
paused units and `new` to the upgraded units of the action-managed applications.

### OpenStackReleases, OpenStackUpgradeByOption

The release tables, the comparison of codenames, `determine_next_openstack_release`
and `determine_new_source` as operators.  `GetLowestOpenStackVersion` compares strings by
their place in `Alphabetical` and starts from 'zebra', as the code does.
`OpenStackUpgradeByOption` upgrades a
cloud again and again from every release of every series.  Its names carry an O
(`OSpec`, `ovars`), so that one proof module can extend it together with `CharmUpgrade`.

### UpgradeGroups, CharmUpgrade

`UpgradeGroups` is `get_upgrade_groups`, `get_series_upgrade_groups` and
`get_charm_upgrade_groups` with all filters; `CharmUpgrade` runs the charm
upgrade test over them, with the change of track names from codenames to versions
after zed, failures and a second run.  Names of applications are compared by their
place in the sequence `Names`, which stands for the alphabet: `Sort` is `group.sort()`.

### ObjectRetrier

One call through `ObjectRetrierWraps`: its counters, its interval with back-off
and cap, its total sleep, and the exceptions that are never, always or by list retried.
Its names carry an R (`RSpec`, `rvars`, `rpc`), since its proofs are in a module with
those of `GuestLaunch`.

### GuestLaunch

`launch_guests` with `launch_guest`, `retrieve_guest(s)` and `resource_cleanup` of
`charm_tests/test_utils.py`, as `NeutronNetworkingTest` uses them, and
`launch_instance_retryer` of `configure/guest.py` with its clean-up callback, on
`launch_instance`, `delete_resource` and the two polling waits of
`utilities/openstack.py`.  Nova builds and removes servers when it likes, or
never.  Creates may lose their answer, which the retrier repeats.  A server that goes
between the listing of `resource_cleanup` and its delete makes the delete raise an
exception that the function does not catch (the last disjunct of `CleanupDelete`), and
so does a poll that fails in another way than by finding the server still there (`Fail`).

### GatewayPorts, OvercloudNetwork

`GatewayPorts` is `undercloud_and_charm_setup`: which machines and applications a
topology selects (`get_charm_networking_data`), then per provider a port created,
attached and put into netplan (`create_additional_port_for_machines`,
`add_interface_to_netplan`), the lxd devices or the MAAS interfaces, and
`configure_networking_charms`.  A MAC address is a pair of machine and number;
`ports`, `attached`, `seen` and `netplan` are how far each has come.

`OvercloudNetwork` contains it as the first call of a configuration.  `Script` is the
sequence of calls that `basic_overcloud_network` (`setup_sdn`), the provider vlan,
`centralized_fip_network` and `setup` of the dragent tests (the restart of the agent,
then `setup_bgp_speaker`) make for a request, `at` the call
the run is at, `have` how many resources of each name neutron has and `links` what
is plugged into what.  The agent's state is apart from its log: `scheduled` says that
the running agent has the speaker, `logged` that the log has the line that
`_assert_speaker_added` greps for, and a restart ends the first and keeps the second.
`FromYaml` holds of the requests that only `run_from_cli` makes, which sets charms up on
the provider "openstack" only.  Every function of `utilities/openstack.py` that makes one
resource is one action.  A call may raise before or after it took effect; then the
run stops and `Rerun` starts the whole configuration again.

### CloudResources

`add_image` with `find_cirros_image`, `get_images_by_name`, `download_image`,
`convert_image_format_to_raw_if_qcow2`, `upload_image_to_glance` and the properties,
then `create_flavors` and `manage_ssh_key`.  Files are absent, partial or whole.  Each
call may fail, be cut in the middle, or the run be killed; the network comes and goes.

### VaultSetup

`VaultFacade` and the functions of `charm_tests/vault/setup.py` that bundles run:
`basic_setup`, `basic_setup_and_unseal`, `auto_initialize` and `unseal_by_unit`, in
any order in successive runs.  A vault is the number of the init that made its keys;
`vault[u]` is the one a unit is part of, `file[u]` the credentials in its home
directory.  A unit that was given its key is `unsealing` and gets unsealed when it likes
(`FinishUnseal`); the raft setups wait for that (`WaitForHaSettled`), `unseal_by_unit` does
not, and on storage without HA the wait looks at nothing that says so.  Vault's own
refusal of a second init (`Refuses`) is apart from the code's check (`IsInitialized`).  The
environment restarts (and so seals) units, lets raft units join and moves the virtual IP.  `generate_cert` and `sign_csr` say whose key a certificate has
and whose key signed it.

In the last three modules `mishaps` (in `VaultSetup` `disturbed`) is a
history variable: it records that a run stopped at a point that no later run can
recognise.  The properties name each such cause where they except it, so that they
say which interruptions the setups survive and which they do not.

## 3. What the runs check

| run | instance | what it shows |
|---|---|---|
| `series_parallel` | 4 applications, 7 units, 5 machines, 3 groups, two applications concurrent, machines shared between groups | no machine is upgraded twice, completed machines are upgraded and up, leaders and non-leaders come in their order with the others paused, the test ends, `MachineUpgrades` is implemented |
| `series_sync` | synchronous driver, mysql deployed from percona-cluster, shared machines, swallowed failures | every earlier group is done before the next, no unit that was paused and is alone on its machine is left paused |
| `series_shared_machine` | one group, two applications on one machine | **violation**: both coroutines pass the test of `completed_machines` |
| `machines` | one parallel group (3 and 2 machines), one serial (2 and 1), task failures, three starts | work only under Juju's lock, the serial function goes unit by unit with the leader first or last, a skipped application of a parallel group is upgraded, the tasks end, every start implements `MachineUpgrades` |
| `openstack_upgrade` | 4 applications, 6 units, failing actions, two starts | a first start that passes has upgraded everything, units are paused only under their paused hacluster, `RollingUpgrade` is implemented (one unit of an application down at a time, upgrades only on paused units, none paused twice), rounds end |
| `upgrade_by_option` | two services at every release on every series | upgrades never go back or skip a release, and end only at the last release of the archive or on zed |
| `charm_upgrade` | every model of up to two applications over five charms, and a five-application cloud; two runs | the groups of all kinds of upgrade hold every application once and come in phase order |
| `object_retrier` | all settings around each limit, three kinds of exceptions | calls are bounded, and the retrier gives up only when it has to |
| `guest_launch` | two guests, 3 attempts, 2 polls, 8 servers, one lost answer, two runs | one server per name, nothing left behind, a passed test is clean, every run ends |
| `overcloud_network` | 11 deployments (every topology and provider, with and without a limit), 3 requests, 3 machines, 3 runs | one attached port per machine, charms configured for all machines, one resource of a name, guests reachable, the restarted agent has taken the routes up |
| `cloud_resources` | two images of one URL, three flavors, two with specs, 2 attempts, 2 polls, 3 runs, a private key of an earlier cloud | what is set up can be used, the private key fits the key pair, every run ends if the network comes back |
| `vault_setup` | 3 units, shared and raft, with and without virtual IP, 3 runs of any functions, one restart, 2 polls | vault is initialised once, units were given their keys and with raft are unsealed, the CA is the one of the run, every run ends |

Bounds.  Deployments are the smallest in which each case of the code happens:
groups that share machines and groups that do not, leaders and non-leaders on
them, applications with and without origin, with and without pausing, leader first
and last.  Three starts of `machines` are needed to reach a start that finds the
serial group half done, because one start ends with each group.  The
intervals of the retrier are in units of five seconds, which keeps the defaults' ratios.  Three
attempts are the code's; the number of polls is cut to two, a poll that is
repeated and one that is the last.  Eight servers cover two runs with four
creates each; at the bound the model's create can only fail, which is a legal
outcome.  Three runs of a setup are one that
stops, one that finds its remains and stops elsewhere, and one that completes; two
failures can be combined in that way.  Three machines, two of one application and one
of another, are the least for which a limit cuts an application in two and for which
DVR selects machines of two applications.  Three vault units are a first, a last and
one in between.  In the upgrade and guest modules `MaxRuns` was raised by two (by one for the guests, with fewer
attempts) in trial runs without a change of the results.

Fairness.  Weak fairness of the test's own steps: the event loop runs what is
ready, and synchronous code goes on.  For series and payload upgrades also weak
fairness of agents that run hooks and of machines that come back from a reboot; without
it the waits of the code end by their time-outs, as a failure.  No fairness of failures,
reruns, nova, or actions an operator may take.  `guest_launch` shows termination
without any fairness of nova, because its polls are counted, and `vault_setup`
without any fairness of raft or of the units, for the same reason.  `cloud_resources`
has weak fairness of the setup and strong fairness of the two look-ups that are
retried without end while the server cannot be reached; its `Termination` has the
hypothesis `[]<>online`, without which those retries really do not end.

Each property has a mutant in `PROJECT.json`: a version of a definition with a
plausible mistake under which TLC finds the property violated.

## 4. What is proved

No theorem uses fairness, and every one is for every value of the constants that
satisfies the assumptions of the module, which TLC evaluates on the instances of the
runs.  None bounds the number of units, machines, servers, images, attempts or runs.
The invariants below were checked by TLC on the instances of the runs before they
were proved.

`SeriesUpgradeProofs` holds the theorems about `SeriesUpgrade`, for every
deployment (`DeploymentAssumption`: leaders are units of their application,
every unit has a machine; `ConfigAssumption`: groups are sets of applications).

* `TypeCorrect`: `Spec => []TypeOK`.  `TypeOK` is not inductive: `Reboot`
  and `SetSeries` index by `cur[a]`, so `TypeInv` adds `OwnUnits`, that the units of
  `todo[a]` and `cur[a]` are the application's own and an upgrading application has one.
* `MachineUpgradedOnce`: `GroupsDisjoint /\ Spec => []UpgradedOnce`.  `OnceInv`
  adds `NotCompleted`, that the machine being upgraded is not in
  `completed_machines`.  Only applications of the current group are at an
  upgrade step, so `GroupsDisjoint` keeps their machines apart (`Exclusive`); an
  application's own append comes with the end of its upgrade step.  The
  hypothesis is needed: `series_shared_machine` is the counterexample without.
* `CompletedUpgraded`: `GroupsDisjoint /\ IsAsync /\ Spec => []CompletedIsUpgraded`.
  `StageInv` says how far the machine is at each label.  The interesting part is
  that the wait for "blocked" after the reboot does not wait for the machine, and the
  wait for an idle unit after `complete` does.  `IsAsync` is needed because
  the synchronous code swallows a failed `do-release-upgrade`.
* `ImplementsMachineUpgrades`: `GroupsDisjoint /\ Spec => Refinement`.
  `StartUnit` is a claim (`ClaimStep`), `SetSeries` a record
  (`RecordStep`), and every other step leaves the claims as they are (`SameClaims`).
* `RolesInOrder` (`RoleOrder`) and `GroupsInOrder` (`EarlierGroupsUpgraded`), without
  `GroupsDisjoint`.  `ProgressOf` says that every unit of an application whose loops have
  begun is still to be reached, on a completed machine or being upgraded; a unit
  that the skipping branch passes over is on a machine some other coroutine
  completed.  `GroupsInv` adds that coroutines of earlier groups have returned.
* `UnitsResumed` (`ResumedWhenDone`), for both drivers and without `GroupsDisjoint`.
  Nothing in the code resumes a unit but its post-series-upgrade hook.  `ResumedInv` says
  of a unit alone on its machine that its machine is not completed before its coroutine
  has reached it, that while the coroutine completes it the hook is still to come or the
  unit is in service, and that it is in service once the coroutine has left it;
  `AloneStep` is what any step of anybody may do to such a unit.
* `NonLeadersPaused` (`PausedWhileLeaderUpgrades`).  `PausedOf` says that until the leader
  has been upgraded or skipped no hook of the non-leaders has run, so that what was
  paused stays paused.  A unit on a machine of its own is touched by nobody else;
  units that share one (`Shared`) are excepted, since the coroutine of the other
  application reboots it.

`ParallelSeriesUpgradeProofs` (`DeploymentAssumption`: an application is in one group, as
`get_series_upgrade_groups` makes them).  One invariant, `UpgradeInv`, carries all of

* `TypeCorrect`, `WorkUnderLock` (`UpgradedUnderLock`), `SerialUnitByUnit`
  (`UnitByUnit`), `SkippedAreUpgraded` (`SkippedIsUpgraded`) and
  `ImplementsMachineUpgrades` (`Refinement`).  Its parts: `WorkInv` says in which phase
  which machines have tasks, in particular that while the test runs no task is left
  from an earlier call; `LockInv` that a prepared machine stays locked until its own
  task completes it, also when the test raised; `ReleasedInv` and `CoverInv` that a
  machine that is completed is past do-release-upgrade and that the list `machines`
  with the completed ones covers the application, so that setting the series of an
  application of a parallel group (`AppSeriesInv`) comes after all its machines.
  `SerialInv` says that what the serial function has reached of an application is
  completed or in work, and that its leader is the first or the last it reaches.

`OpenStackUpgradeProofs` (`DeploymentAssumption`: finitely many units, each of one
application, and each application in one group).

* `TypeCorrect`, `OneUnitDown` (`OneUnitDownPerApp`) and `HAPausedAround`
  (`PausedUnderHA`).  A failed
  round leaves units paused, and a second start takes other applications up; that they
  never meet is `PausedInv`: units are paused only in applications whose origin is set,
  which `is_already_upgraded` skips from then on.  `AppsInv` and `HookInv` keep the
  all-in-one hooks away from action-managed units, `TargetInv` says that a round has one
  unit of an application, and `HAInv` that hacluster is paused around it.
* `ImplementsRollingUpgrade` (`Refinement`), which has `OneUnitDownPerApp` among its
  consequences.  `RoundInv` adds that an application has no upgraded unit before its
  origin is set, that in the rounds its upgraded units are those of `done` and, after
  the upgrade, the target, and that the target is not in `done` before.  So pause is a
  `TakeDown` of units that were neither down nor upgraded, and resume a `BringUp` of
  units that are upgraded; an action that fails on some units is the same step on
  fewer, and every other step, a config-changed hook included, is a stutter.
* `PassedUpgradesAll` (`UpgradedWhenDone`): what `OpenStackUpgradeByOption` takes
  for granted of `run_upgrade_tests`, for a test that passes at its first start.
  `GroupInv` says what has been done in the groups before the current one, that no
  origin is set in those after it, and that the two lists hold the whole group; a
  finished application stays so (`FinishedKept`) because a round pauses only units of its
  own applications.  Units upgraded all in one may still have their hook before them,
  since an agent that has not started its hook is idle.

`ReleaseProofs` is about `UpgradeGroups` with `CharmUpgrade`, for every deployment
(`CharmUpgradeAssumption`: `Names` lists every application once), and about
`OpenStackUpgradeByOption`, for every set of services.

* `NoneTwiceNoneMissed` (`UpgradedExactlyOnce`).  `GroupsPartition` is proved for any kind
  of upgrade with any filters: no charm is in two phases of `SERVICE_GROUPS`
  (`PhasesDiffer`), so that the phases and the sweep-up group part the candidates
  (`PartsOf`), and `Sorted` says that sorting loses and doubles nothing, because the ranks
  of the places of a group are the numbers below its size (`Ranks`).
* `PhasesStayInOrder` (`GroupsInOrder`).  The property is not inductive: when an
  application moves on it may overtake those of an earlier phase.  `AheadInv` adds that
  what the run under way has reached is a release ahead of what it has not, if that is in
  a later phase.  A run moves an application by one release (`NextIsOneMore`, across
  the change from codenames to versions too), and a rerun has reached nothing.
* `OneReleaseAtATime` (`SingleIncrement`), `RaisesOnlyAtTheEnd` (`StopsAtLastRelease`) and
  `StaysInArchive`.  `LowestOf` says what the search from 'zebra' finds: the release itself,
  but 'zebra' for zed, so that no upgrade starts from zed.  `OptionInv` says that what is
  installed is in the archive of the series and that an upgrade leaves all services on
  one release; `CodenameFound` that a codename is in the table once, so that the place
  of the next release is the next place.

`GuestLaunchProofs` (`LaunchAssumption`), for the two guests of the test and any number of
servers, attempts, polls, lost answers and runs:

* `NamesAreUnique` (`OneServerPerName`), `RetryerCleansUp` (`NothingLeftBehind`) and
  `PassedTestCleansUp` (`CleanAfterPass`), from `LaunchInvariant`.  `NameInv` says that a
  server is created only when none has its name and that a wait for a removal waits
  for the only one, `CleanInv` that `resource_cleanup` has every server on its list that
  is there and not yet removed, also those whose create was never answered.
* `CallsAreBounded` and `NeverGivesUpEarly` of `ObjectRetrier` (`RetrierAssumption`), from
  `RetryInv`, which relates calls and retries while the wrapper goes on and once it ended.

`VaultSetupProofs` is about `VaultSetup`, for every number of units, polls, runs and
restarts (`VaultAssumption`: there is a unit, and juju lists each once).

* `TypeCorrect`: `TypeInv` adds to `TypeOK` that the loops stay within the units, that
  the client for the virtual IP is used only if there is one, and that a run that
  may still init has not done so (`inits < runs`), which bounds the inits.
* `VaultInitialisedOnce`: `OneVault` is not inductive.  `OneKey` adds that with shared
  storage all units agree, that with raft it is the first unit that is asked and
  initialised, and that the credentials about to be stored are those of the first unit.
* `AllUnsealed` (`UnsealedWhenDone`): `UnsealedSoFar` has the loop invariants of
  `unseal_all`, after which what is sealed is unsealing, and of the wait after it, which
  with raft leaves the units it has passed unsealed; no later call seals a unit.
* `CaInPlace` (`CaUploaded`): `CaSigned` says of every reachable CA that request and
  root are of one run.

`NetworkProofs` is about `OvercloudNetwork` with `GatewayPorts`, for every deployment,
request and number of machines, runs and interruptions.  `MachineStep` separates the
steps of the ports from those of neutron.

* `OneExtPortPerMachine`: `OnePort` adds that the port about to be attached belongs to
  a machine without one, and that on lxd a machine has one device.
* `ConfigCoversMachines` (`CoversMachines`): `Covered` adds the loop invariant, that a
  selected machine that is no longer in `todo` has an attached port, and carries it
  to the MAC addresses and from there to the options.
* `NamesUnique` (`NamedOnce`): one lemma about get-or-create, for every call of it.
* `GuestsAreReachable` (`GuestsReachable`) and `RoutesAreTakenUp` (`RoutesTakenUp`), from
  `ScriptInv`: the effect of every call the run has passed is there (`PassedInv`), also
  where the call found what an earlier run left, because no step takes anything away
  (`NothingTaken`); and a port that such a call takes for its own, of whatever router, is
  one of the provider router (`LinksInv`).  The lemma
  `ScriptCalls` says which calls `Script` has for a request and in which order.
* `CharmsAreConfigured` (`CharmsConfigured`), from `CharmsInv`: the ports are the attached
  ones and those in netplan unless a mishap says so (`PortsInv`), and all applications are
  configured or none is, but for those the loop is at (`AllOrNone`); the latter is what
  makes the early return of `configure_networking_charms` harmless.  The property is
  about `Selected`, the charms the machines are taken from: a deployed charm that is not
  selected may be on one of these machines and is not configured.

`CloudResourcesProofs` (`ResourcesAssumption`: the images asked for are a sequence that is not
empty) has

* `KeyUsable` (`KeyMatches`); `KeyInv` adds that a private key is written only when there
  is a key pair.
* `ResourcesAreUsable` (`ResourcesUsable`), from `UsableInv`: one image of a name
  (`NamesInv`), a half-written or unconverted file only after its mishap (`FilesInv`), an
  image without data or properties only while the setup is at it or after a mishap
  (`DataInv`), and the same of flavors (`FlavorsInv`).  Two images may share a URL and so
  a file in the cache.

Only model-checked: `Termination` of every module.  It is a liveness property under
fairness, which is out of the installed provers' reach.  Every invariant and every action
property of the passing runs is also a theorem.

## 5. Observed while modelling, without a run

* `do_release_upgrade` of the synchronous code goes through `run_via_ssh`, which
  logs a failed command and returns (`utilities/generic.py:270-289`); the machine is
  rebooted, completed and recorded on the old release.
* The branch for a machine that is already completed sets the origin without the test
  `if origin` (`utilities/series_upgrade.py:493`, `:516`) that the other branch has.
* The parallel driver looks for `rabbitmq-server` and `percona-cluster` among the
  names of the applications of a group and runs `complete-cluster-series-upgrade` on the
  applications `rabbitmq-server` and `mysql`
  (`charm_tests/series_upgrade/tests.py:224-239`); a `mysql` deployed from
  percona-cluster is never completed.  The synchronous driver looks at the charm.
* The parallel function prepares the leader's machine even when it is already in
  `completed_machines` (`utilities/parallel_series_upgrade.py:210`).
* The serial function sets the series of the application first (`:329`), and a later
  start skips applications by their series (`charm_tests/series_upgrade/parallel_tests.py:108`):
  an application that failed half way is not taken up again.  Without its
  restriction to parallel groups `SkippedIsUpgraded` is violated in the third start.
* `OpenStackUpgradeTestsByOption` speaks of the lowest release across all services
  but asks one charm (`charm_tests/openstack_upgrade/tests.py:129-137`).
* `get_lowest_openstack_version` (`utilities/upgrade_utils.py:328-332`) starts from 'zebra'
  and compares strings.  'zed' is above 'zebra', so on a cloud on zed it does not return
  "the lowest version currently installed" but 'zebra', and
  `determine_next_openstack_release` raises a `ValueError` (`:351`).  `StopsAtLastRelease`
  names zed as its exception and is violated without it.
* `OPENSTACK_RELEASES_PAIRS` has no `trusty_juno`, so trusty stops at icehouse.
* A charm on `latest` or on a track that is not a release makes the charm upgrade raise.
* An `initial_interval` above `max_interval` is slept once as it is.
* `remove_vm_on_failure` raises when the create itself failed, since there is no
  server to find; this ends the retries at the first attempt.
* A lost answer leaves two servers of a name, after which `find` raises
  `NoUniqueMatch` in every later attempt.
* Each failed attempt to launch a guest leaves its floating IP behind.
* `parallel_series_upgrade` and `serial_series_upgrade` are `sync_wrapper` functions
  (`utilities/parallel_series_upgrade.py:231`): the call has upgraded the application and
  returned `None` before `wrap_coroutine_with_sem` awaits it, so that `gather` raises
  after the first group that needed work (`charm_tests/series_upgrade/parallel_tests.py:127`).
  For the same reason the `Semaphore(4)` that is there to "allow up to 4 parallel upgrades
  at a time" (`:103-106`) admits nothing: applications are upgraded one after another.
  `UnitByUnit` is about the units of one application and does not depend on this.
* A unit that was paused after another application had completed its machine is not
  completed again and stays paused (`utilities/series_upgrade.py:499`, `:938`);
  `ResumedWhenDone` excepts units on shared machines.
* `is_already_upgraded` compares the origin option, which `run_action_upgrades` sets
  before any unit is upgraded (`utilities/openstack_upgrade.py:269`): a test that failed
  in a round and is started again skips applications with units on the old payload.
* `retrieve_guests` looks up the name ending in `-ins-1` for both guests
  (`charm_tests/test_utils.py:984`), so the East/West check pings a guest from itself.
* With raft and a virtual IP, the IP may lead `is_initialized` to a unit that has not
  joined yet; it is then initialised a second time and its keys stored over the first
  (`charm_tests/vault/utils.py:62-78`).  `OneVault` excepts this case.
* A run that stops between `init_vault` and `store_credentials` loses the keys for good
  (`:77-78`).
* `unseal_by_unit` returns when each unit was given its key; units may still be unsealing,
  which `wait_for_ha_settled` allows for and this function does not await
  (`charm_tests/vault/setup.py:100-110`, `charm_tests/vault/utils.py:305`).
* `auto_initialize` ends without `validate_ca` when get-csr says that a CA was uploaded
  (`charm_tests/vault/setup.py:172-176`), and looks at no other result of an action.
* `mojo_or_default_unseal_by_unit` awaits the `None` that `mojo_unseal_by_unit` returns
  (`charm_tests/vault/setup.py:89`).
* `add_interface_to_netplan` takes an interface that the guest does not have yet for
  configured: its name is the empty string, which is in every output
  (`utilities/openstack.py:852-862`).
* `configure_networking_charms` returns at the first application whose option is set
  (`utilities/openstack.py:1091-1096`); one that a stopped run did not reach is never
  configured.
* A port that was created and not attached is seen by no later run, but its MAC address
  is among those given to the charms (`utilities/openstack.py:1046-1050`).
* `add_network_to_bgp_speaker` takes every `InternalServerError` for "already advertised"
  (`utilities/openstack.py:1717`).
* `_assert_speaker_added` looks for a line of the agent's log, which is good "on a pristine
  machine" (`configure/bgp_speaker.py:39-42`).  A second run restarts the agent and finds
  the line of the first, so it may add the networks before the new agent has the speaker.
  `RoutesTakenUp` names this as an exception ("stale_line") and is violated without it.
* `centralized_fip_network` looks nothing up: each run makes another network and router
  (`charm_tests/octavia/setup.py:200`).
* `add_image` uses an image of the name whatever its status, and a file in the cache
  directory whatever its size; a failed conversion is uploaded as raw
  (`charm_tests/glance/setup.py:92`, `utilities/openstack.py:2847`, `:2898`).
* A flavor whose extra specs could not be set never gets them
  (`charm_tests/nova/setup.py:50`).
* A private key that was written in part makes `valid_key_exists` raise in every attempt
  of every later run (`CheckKeyRaises`), until someone removes the file.
* A second run of the networking test uses the guests it finds, in whatever state.

## 6. Not modelled

Logging, the text of commands, file copies and rendering; the bodies of pre- and
post-upgrade functions; tables of package versions; tests that compare
one API answer with an expectation.  Time is counted in polls and retries only.
Juju, the charms, nova, neutron, glance and vault's server are modelled by what the
code can observe of them.

`config_change` and `pause_resume` of the test base classes are not modelled: they have
no `try`/`finally`, so that what the next test finds depends on the body of the one
before.  Volumes, snapshots and backups are created, awaited and deleted by single calls
whose wait is the one modelled in `GuestLaunch` and `CloudResources`.

## 7. Plan

Done, in this order: series upgrades and their proofs, payload upgrade, releases
and groups, charm upgrade, the retrier, guests, vault and its proofs, external ports and
networks and their proofs, images, flavors and keys; then proofs of the other safety
properties of all these.

Next modules, most important first:

1. RBD mirror fail-over, mysql cold start and scaling, masakari evacuation: the
   sequences of actions and waits, with a fault in between.
2. The overlay network of neutron-openvswitch and the demo users of keystone, which
   look nothing up, as further parts of `Script`.
3. `GuestLaunch` composed with `OvercloudNetwork` over a bounded pool of floating IPs.

Next theorems: that `VaultSetup` implements a short abstract specification (a vault that is
initialised, unsealed and certified in this order), and the safety part of a composition
of `OpenStackUpgradeByOption` with `OpenStackUpgrade`.
