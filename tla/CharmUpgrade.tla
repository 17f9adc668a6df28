---------------------------- MODULE CharmUpgrade ----------------------------
(***************************************************************************)
(* FullCloudCharmUpgradeTest of charm_tests/charm_upgrade/tests.py: group  *)
(* by group, every application is moved to the charm channel of the next   *)
(* OpenStack release.  A track is named after the codename of its release  *)
(* up to zed and after its version from then on.  The test may fail while  *)
(* it waits for a channel, and may be run again.                           *)
(***************************************************************************)
EXTENDS OpenStackReleases, UpgradeGroups

CONSTANTS
  Models,    \* the possible deployments, as in UpgradeGroups
  Names,     \* the names of applications in alphabetical order
  Starts,    \* places in the release table that the cloud may start at
  MaxRuns    \* bound on how often the test is run

ASSUME CharmUpgradeAssumption ==
  /\ Names \in Seq({Names[i] : i \in DOMAIN Names})
  /\ \A i, j \in DOMAIN Names : Names[i] = Names[j] => i = j
  /\ \A m \in Models : DOMAIN m \subseteq {Names[i] : i \in DOMAIN Names}
  /\ Starts \subseteq 1..Len(OpenStackCodenames)
  /\ MaxRuns \in Nat

VARIABLES
  model,   \* the deployment
  track,   \* [applications -> track of the charm channel; the risk stays]
  group,   \* index of the group being upgraded
  left,    \* applications of the group that the loop has not reached
  waiting, \* application whose new channel is awaited, or "none"
  runs,    \* runs of the test started
  status   \* "running", "raised" or "done"

vars == <<model, track, group, left, waiting, runs, status>>

Applications == DOMAIN model

Groups == GetUpgradeGroups(model, "charm", "none", {"etcd", "easyrsa", "memcached"}, Names)

GroupApps(i) == {Groups[i][k] : k \in DOMAIN Groups[i]}

TrackNames(i) == {OpenStackCodenames[i], OpenStackVersions[i]}

\* The release of a track; the tracks of some charms are not named after one.
IsRelease(t) == \E i \in DOMAIN OpenStackCodenames : t \in TrackNames(i)

ReleaseOf(t) == CHOOSE i \in DOMAIN OpenStackCodenames : t \in TrackNames(i)

Zed == Index("zed")

\* CompareOpenStack(os_codename) > 'zed'.
TrackOf(i) == IF i > Zed THEN OpenStackVersions[i] ELSE OpenStackCodenames[i]

\* determine_next_openstack_release looks a track up among the versions or the
\* codenames; it raises for an unknown track and past the end of the table.
HasNext(t) == IsRelease(t) /\ ReleaseOf(t) < Len(OpenStackCodenames)

NextTrack(t) == TrackOf(ReleaseOf(t) + 1)

Init ==
  /\ model \in Models
  /\ \E i \in Starts :
       track \in [Applications -> {TrackOf(i)}]
                   \cup {[a \in Applications |-> IF a = b THEN "latest" ELSE TrackOf(i)] :
                           b \in Applications}
  /\ group = 1 /\ left = GroupApps(1)
  /\ waiting = "none"
  /\ runs = 1
  /\ status = "running"

\* One round of the loop over the applications, in the order of the status
\* dictionary, which is arbitrary: upgrade_charm with the next channel.
UpgradeCharm(a) ==
  /\ status = "running" /\ waiting = "none" /\ a \in left
  /\ IF HasNext(track[a])
       THEN /\ track' = [track EXCEPT ![a] = NextTrack(@)]
            /\ waiting' = a
            /\ left' = left \ {a}
            /\ UNCHANGED status
       ELSE status' = "raised" /\ UNCHANGED <<track, waiting, left>>
  /\ UNCHANGED <<model, group, runs>>

\* block_until_charm_channel returns.
ChannelReached ==
  /\ status = "running" /\ waiting # "none"
  /\ waiting' = "none"
  /\ UNCHANGED <<model, track, group, left, runs, status>>

\* upgrade_charm is refused, or a wait times out, possibly after the channel of
\* the application was changed.
Fail ==
  /\ status = "running"
  /\ status' = "raised"
  /\ waiting' = "none"
  /\ UNCHANGED <<model, track, group, left, runs>>

LastGroup == group = Len(Groups)

\* block_until_all_units_idle at the end of a group.
EndGroup ==
  /\ status = "running" /\ waiting = "none" /\ left = {}
  /\ IF LastGroup
       THEN status' = "done" /\ UNCHANGED <<group, left>>
       ELSE group' = group + 1 /\ left' = GroupApps(group + 1) /\ UNCHANGED status
  /\ UNCHANGED <<model, track, waiting, runs>>

\* The test is run again, from the first group.
Rerun ==
  /\ status # "running" /\ runs < MaxRuns
  /\ runs' = runs + 1
  /\ group' = 1 /\ left' = GroupApps(1)
  /\ status' = "running"
  /\ UNCHANGED <<model, track, waiting>>

Terminated == status # "running" /\ runs = MaxRuns /\ UNCHANGED vars

Next ==
  \/ \E a \in Applications : UpgradeCharm(a)
  \/ ChannelReached \/ Fail \/ EndGroup \/ Rerun \/ Terminated

Spec == Init /\ [][Next]_vars

-----------------------------------------------------------------------------
\* The applications on a release track that the upgrade covers.
Tracked == {a \in Applications : IsRelease(track[a])
                                 /\ \E i \in DOMAIN Groups : a \in GroupApps(i)}

\* What the callers of the three group functions ask for: the kind of upgrade, the
\* target series and the extra filters.
Requests ==
  {<<"openstack", "none", {}>>, <<"series", "bionic", {"etcd", "easyrsa"}>>,
   <<"series", "focal", {"etcd", "easyrsa"}>>,
   <<"charm", "none", {"etcd", "easyrsa", "memcached"}>>}

\* Every application that an upgrade covers is in its groups, in one place of one
\* group, and nothing else is: no charm is in two phases, and the sweep-up group
\* takes what no phase has.
UpgradedExactlyOnce ==
  \A r \in Requests :
    LET groups == GetUpgradeGroups(model, r[1], r[2], r[3], Names)
    IN /\ \A i, j \in DOMAIN groups : \A k \in DOMAIN groups[i], l \in DOMAIN groups[j] :
            groups[i][k] = groups[j][l] => i = j /\ k = l
       /\ UNION {{groups[i][k] : k \in DOMAIN groups[i]} : i \in DOMAIN groups}
            = {a \in Applications : ~Excluded(model, a, r[1], r[2], r[3])}

\* The phase of SERVICE_GROUPS the charm of the application is in; what is in
\* none depends on all of them.
PhaseOf(a) ==
  LET phases == {i \in DOMAIN ServiceGroups : model[a].charm.name \in ServiceGroups[i]}
  IN IF phases = {} THEN Len(ServiceGroups) + 1 ELSE CHOOSE i \in phases : TRUE

\* An application of an earlier phase is never behind one of a later phase, so
\* no service runs a newer charm than the services it depends on, also when the
\* test stopped half-way and was run again.
GroupsInOrder ==
  \A a, b \in Tracked :
    PhaseOf(a) < PhaseOf(b) => ReleaseOf(track[a]) >= ReleaseOf(track[b])

=============================================================================
