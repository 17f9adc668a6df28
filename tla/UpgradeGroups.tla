---------------------------- MODULE UpgradeGroups ----------------------------
(***************************************************************************)
(* utilities/upgrade_utils.py: which applications of a model an upgrade    *)
(* covers and the order of the groups they are upgraded in.  A model is a  *)
(* function from application names to records                              *)
(*   [charm |-> charm URL, subordinate |-> BOOLEAN, source |-> BOOLEAN],    *)
(* where source says that the charm has an openstack-origin or a source    *)
(* option, and a charm URL is a record [path, name, revision].             *)
(***************************************************************************)
EXTENDS Naturals, Sequences, FiniteSets

\* The charms a substring test such as "etcd" in charm_name is true of.
Named(part) ==
  IF part = "easyrsa" THEN {"easyrsa", "containers-easyrsa"} ELSE {part}

KeystoneTwice ==
  <<{"percona-cluster", "mysql-innodb-cluster"}, {"rabbitmq-server", "ceph-mon"},
    {"keystone"}, {"keystone", "glance"}, {"nova-compute"}>>

\* SERVICE_GROUPS.
ServiceGroups ==
  <<{"percona-cluster", "mysql-innodb-cluster"},
    {"rabbitmq-server", "ceph-mon"},
    {"keystone"},
    {"aodh", "barbican", "ceilometer", "ceph-fs", "ceph-radosgw", "cinder",
     "designate", "designate-bind", "glance", "gnocchi", "heat", "manila",
     "manila-generic", "neutron-api", "neutron-gateway", "ovn-central",
     "ovn-dedicated-chassis", "placement", "nova-cloud-controller",
     "openstack-dashboard"},
    {"nova-compute", "ceph-osd", "swift-proxy", "swift-storage"}>>

\* UPGRADE_EXCLUDE_LIST.
UpgradeExcludeList ==
  {"ceph-fs", "ceph-mon", "ceph-osd", "memcached", "mysql-innodb-cluster",
   "ovn-central", "ovn-chassis", "percona-cluster", "glance-simplestreams-sync",
   "rabbitmq-server", "vault", "aodh-mysql-router", "barbican-mysql-router",
   "cinder-mysql-router", "designate-mysql-router", "glance-mysql-router",
   "gnocchi-mysql-router", "heat-mysql-router", "keystone-mysql-router",
   "magnum-mysql-router", "manila-ganesha-mysql-router", "manila-mysql-router",
   "neutron-mysql-router", "nova-mysql-router", "octavia-mysql-router",
   "placement-mysql-router", "vault-mysql-router", "watcher-mysql-router"}

\* The revision that ends the URL and the path before the name are dropped.
ExtractCharmName(url) == url.name

\* The series from 'focal' on, in which there is no percona-cluster.
FocalOrLater == {"focal", "groovy", "hirsute", "impish", "jammy", "kinetic",
                 "lunar", "mantic", "noble", "oracular", "plucky", "questing",
                 "resolute"}

-----------------------------------------------------------------------------
(* The filters: TRUE excludes the application *)

FilterSubordinates(apps, a) == apps[a].subordinate

FilterOpenStackUpgradeList(apps, a) ==
  {a, ExtractCharmName(apps[a].charm)} \cap UpgradeExcludeList # {}

FilterPerconaClusterAt(apps, a, target) ==
  target \in FocalOrLater /\ ExtractCharmName(apps[a].charm) = "percona-cluster"

FilterNonOpenStackServices(apps, a) == ~apps[a].source

\* _filter_etcd, _filter_easyrsa and _filter_memcached.
FilterNamed(apps, a, part) == ExtractCharmName(apps[a].charm) \in Named(part)

\* get_upgrade_candidates: the applications no filter of the kind of upgrade
\* and no extra filter excludes.
Excluded(apps, a, kind, target, extra) ==
  \/ kind \in {"openstack", "series"} /\ FilterSubordinates(apps, a)
  \/ kind \in {"openstack", "charm"} /\ FilterOpenStackUpgradeList(apps, a)
  \/ kind = "openstack" /\ FilterNonOpenStackServices(apps, a)
  \/ kind = "series" /\ FilterPerconaClusterAt(apps, a, target)
  \/ \E part \in extra : FilterNamed(apps, a, part)

GetUpgradeCandidates(apps, kind, target, extra) ==
  {a \in DOMAIN apps : ~Excluded(apps, a, kind, target, extra)}

\* The applications of the phase of SERVICE_GROUPS.
InPhase(apps, candidates, i) ==
  {a \in candidates : ExtractCharmName(apps[a].charm) \in ServiceGroups[i]}

\* The candidates in none of them.
SweepUp(apps, candidates) ==
  candidates \ UNION {InPhase(apps, candidates, i) : i \in DOMAIN ServiceGroups}

\* group.sort(): the names of the group in the order that the sequence names gives.
Sort(group, names) ==
  LET places == {i \in DOMAIN names : names[i] \in group}
      Rank(i) == Cardinality({j \in places : j < i})
  IN [k \in 1..Cardinality(places) |-> names[CHOOSE i \in places : Rank(i) = k - 1]]

SweepUpFirst(apps, candidates, names) ==
  [i \in 1..(Len(ServiceGroups) + 1) |->
     Sort(IF i > 1 THEN InPhase(apps, candidates, i - 1)
                   ELSE SweepUp(apps, candidates), names)]

\* _build_service_groups: one group per phase, then the rest.
BuildServiceGroups(apps, candidates, names) ==
  [i \in 1..(Len(ServiceGroups) + 1) |->
     Sort(IF i <= Len(ServiceGroups) THEN InPhase(apps, candidates, i)
                                     ELSE SweepUp(apps, candidates), names)]

\* get_upgrade_groups, get_series_upgrade_groups and get_charm_upgrade_groups.
GetUpgradeGroups(apps, kind, target, extra, names) ==
  BuildServiceGroups(apps, GetUpgradeCandidates(apps, kind, target, extra), names)
=============================================================================
