------------------------------ MODULE AppConfig ------------------------------
(***************************************************************************)
(* app_config of utilities/series_upgrade.py and of                        *)
(* utilities/parallel_series_upgrade.py: how an application is upgraded,   *)
(* by its charm.  origin is the name of the option that set_origin sets,   *)
(* "" for None; pause says which non-leaders are paused; secondaryFirst    *)
(* stands for the upgrade function and for follower_first.                 *)
(***************************************************************************)
Default(origin) ==
  [origin |-> origin, pause |-> {"primary", "subordinate"}, secondaryFirst |-> FALSE]

Ceph == {"ceph", "ceph-mon", "ceph-osd"}

\* The entries that the two functions share: they override the default.
Exception(charm, config) ==
  CASE charm = "percona-cluster" -> [config EXCEPT !.origin = "source"]
    [] charm = "nova-compute" -> [config EXCEPT !.pause = {}]
    [] charm \in Ceph -> [config EXCEPT !.origin = "source", !.pause = {}]
    [] charm \in {"designate-bind", "tempest"} -> [config EXCEPT !.origin = ""]
    [] charm = "memcached" -> [config EXCEPT !.origin = "", !.pause = {}]
    [] charm = "vault" -> [config EXCEPT !.origin = "", !.pause = {"subordinate"}]
    [] charm = "mongodb" -> [config EXCEPT !.origin = "", !.secondaryFirst = TRUE]
    [] OTHER -> config

SeriesAppConfig(charm) ==
  IF charm = "rabbitmq-server"
    THEN [Default("source") EXCEPT !.pause = {"primary"}]
    ELSE Exception(charm, Default("openstack-origin"))

ParallelAppConfig(charm) ==
  IF charm = "rabbitmq-server"
    THEN [Default("") EXCEPT !.pause = {"primary"}]
    ELSE Exception(charm, Default("auto"))
=============================================================================
