---------------------------- MODULE GatewayPorts ----------------------------
(***************************************************************************)
(* undercloud_and_charm_setup of charm_tests/neutron/setup.py: the         *)
(* machines of the networking charms get an interface on the external      *)
(* network of the undercloud, and its MAC address goes into the            *)
(* configuration of the charms (utilities/openstack.py).                   *)
(*                                                                         *)
(* A MAC address is a pair <<machine, number>>.  Every call to neutron,    *)
(* nova, lxd or juju may raise, before or after it took effect; the setup  *)
(* then stops, and may be run again from the start.  What such a stop      *)
(* leaves behind that a later run cannot see is recorded in mishaps.       *)
(***************************************************************************)
EXTENDS Naturals, FiniteSets, Sequences, SequencesExt

CONSTANTS
  Deployments,  \* the possible models, see DeploymentType
  MachinesOf,   \* [application -> the machines of its units, in order]
  NoLimit,      \* a limit_gws no deployment reaches
  MaxMacs       \* bound on the ports ever created for a machine

NetworkingCharms ==
  {"neutron-gateway", "neutron-openvswitch", "ovn-chassis", "ovn-dedicated-chassis"}

Machines == UNION {ToSet(MachinesOf[a]) : a \in NetworkingCharms}
Macs == Machines \X (1..MaxMacs)

\* provider: what juju runs on; apps: the networking charms that are deployed;
\* dvr: enable-dvr of neutron-api; netplan: the release is bionic-queens or
\* later; limit: limit_gws; nics: the interfaces MAAS knows on the external
\* network, in its order.
DeploymentType ==
  [provider : {"openstack", "maas", "lxd", "other"}, apps : SUBSET NetworkingCharms,
   dvr : BOOLEAN, netplan : BOOLEAN, limit : 1..NoLimit, nics : Seq(Macs)]

ASSUME DeploymentsAssumption ==
  /\ NoLimit \in Nat \ {0} /\ MaxMacs \in Nat \ {0}
  /\ MachinesOf \in [NetworkingCharms -> Seq(Machines)]
  /\ Deployments \subseteq DeploymentType

VARIABLES
  deploy,    \* the deployment
  gpc,       \* the call the setup is at
  todo,      \* machines the loop has not reached
  macs,      \* the MAC addresses collected for the charms
  port,      \* the port just created, or <<>>
  ports,     \* the ports named "..._ext-port" on the external network
  attached,  \* those that are attached to their machine
  seen,      \* those whose interface the guest has
  netplan,   \* those in /etc/netplan of their machine
  config,    \* [NetworkingCharms -> MAC addresses in the configuration]
  toSet,     \* applications that configure_networking_charms has not reached
  mishaps    \* what earlier runs left that a later one cannot see

undercloud == <<port, ports, attached, seen, netplan>>
gvars == <<deploy, gpc, todo, macs, undercloud, config, toSet, mishaps>>

Mishaps == {"orphan_port", "nic_missed", "cut_in_config", "server_error"}

DvrEnabled == deploy.dvr
NgwPresent == "neutron-gateway" \in deploy.apps
OvnPresent == deploy.apps \cap {"ovn-chassis", "ovn-dedicated-chassis"} # {}

\* deprecated_external_networking asks an application for its bridge-mappings,
\* which raises when that is not deployed.
BridgeMappingsKnown ==
  IF DvrEnabled THEN "neutron-openvswitch" \in deploy.apps ELSE OvnPresent \/ NgwPresent

Take(s) == SubSeq(s, 1, IF Len(s) < deploy.limit THEN Len(s) ELSE deploy.limit)

Units(a) == IF a \in deploy.apps THEN MachinesOf[a] ELSE <<>>

\* The topologies of get_charm_networking_data; "unknown" where it raises.
Topology ==
  IF ~BridgeMappingsKnown THEN "unknown"
  ELSE IF DvrEnabled THEN IF NgwPresent THEN "ML2_OVS_DVR" ELSE "ML2_OVS_DVR_SNAT"
  ELSE IF NgwPresent THEN "ML2_OVS" ELSE "ML2_OVN"

UnitMachineIds ==
  Take(IF DvrEnabled THEN Units("neutron-openvswitch") \o Units("neutron-gateway")
       ELSE IF NgwPresent THEN Units("neutron-gateway")
       ELSE Units("ovn-chassis") \o Units("ovn-dedicated-chassis"))

FirstOfApplicationNames ==
  IF DvrEnabled THEN <<"neutron-openvswitch">>
  ELSE IF Topology = "ML2_OVS" THEN <<"neutron-gateway">>
  ELSE IF Topology = "ML2_OVN" THEN <<"ovn-chassis">>
  ELSE <<>>

ApplicationNames ==
  IF Topology = "ML2_OVS_DVR" THEN <<"neutron-gateway", "neutron-openvswitch">>
  ELSE IF Topology = "ML2_OVS_DVR_SNAT" THEN <<"neutron-openvswitch">>
  ELSE IF Topology = "ML2_OVS" THEN <<"neutron-gateway">>
  ELSE IF Topology = "ML2_OVN" THEN
         IF "ovn-dedicated-chassis" \in deploy.apps
           THEN <<"ovn-chassis", "ovn-dedicated-chassis">> ELSE <<"ovn-chassis">>
  ELSE <<>>

\* setup_gateway_ext_port asks for netplan by release, and
\* configure_gateway_ext_port does not persist the interface under DVR.
AddDataportToNetplan ==
  deploy.netplan /\ Topology \notin {"ML2_OVS_DVR", "ML2_OVS_DVR_SNAT"}

GInit ==
  /\ deploy \in Deployments
  /\ gpc = "start" /\ todo = <<>> /\ macs = {} /\ port = <<>>
  /\ ports = {} /\ attached = {} /\ seen = {} /\ netplan = {}
  /\ config = [a \in NetworkingCharms |-> {}]
  /\ toSet = <<>> /\ mishaps = {}

-----------------------------------------------------------------------------
(* The providers *)

\* The branches of undercloud_and_charm_setup.
UndercloudAndCharmSetup ==
  /\ gpc = "start"
  /\ macs' = {} /\ port' = <<>>
  /\ todo' = UnitMachineIds /\ toSet' = ApplicationNames
  /\ gpc' = IF deploy.provider = "other" THEN "returned"
            ELSE IF Topology = "unknown" THEN "raised" ELSE deploy.provider
  /\ UNCHANGED <<deploy, ports, attached, seen, netplan, config, mishaps>>

\* configure_charmed_openstack_on_maas: the first interface of every machine.
OnMaas ==
  /\ gpc = "maas"
  /\ macs' = {deploy.nics[i] : i \in {j \in DOMAIN deploy.nics :
                 \A k \in 1..(j - 1) : deploy.nics[k][1] # deploy.nics[j][1]}}
  /\ gpc' = IF macs' = {} THEN "returned" ELSE "charms"
  /\ UNCHANGED <<deploy, todo, undercloud, config, toSet, mishaps>>

\* A round of configure_charmed_openstack_on_lxd.  The exception of a device
\* that could not be added is swallowed; lxd_get_nic_hwaddr raises when the
\* device is not there.
OnLxd ==
  /\ gpc = "lxd" /\ todo # <<>>
  /\ LET nic == <<Head(todo), 1>>
     IN \/ ports' = ports \cup {nic} /\ attached' = attached \cup {nic}
           /\ macs' = macs \cup {nic} /\ todo' = Tail(todo) /\ UNCHANGED gpc
        \/ nic \notin attached /\ gpc' = "raised" /\ UNCHANGED <<ports, attached, macs, todo>>
  /\ UNCHANGED <<deploy, port, seen, netplan, config, toSet, mishaps>>

LxdDone ==
  /\ gpc = "lxd" /\ todo = <<>>
  /\ gpc' = IF macs = {} THEN "returned" ELSE "charms"
  /\ UNCHANGED <<deploy, todo, macs, undercloud, config, toSet, mishaps>>

-----------------------------------------------------------------------------
(* configure_gateway_ext_port: create_additional_port_for_machines *)

HasPortInNetplan(m) == \E p \in netplan : p[1] = m

\* list_ports(device_id=...) has a port of the machine's name.
HasExtPort(m) == \E p \in attached : p[1] = m

SkipMachine ==
  /\ gpc = "openstack" /\ todo # <<>>
  /\ HasExtPort(Head(todo))
  /\ todo' = Tail(todo)
  /\ UNCHANGED <<deploy, gpc, macs, undercloud, config, toSet, mishaps>>

\* create_port; when its answer is lost nothing names the port later on.
CreateExtPort ==
  /\ gpc = "openstack" /\ todo # <<>>
  /\ ~HasExtPort(Head(todo))
  /\ \E n \in 1..MaxMacs :
       LET new == <<Head(todo), n>>
       IN /\ \A k \in 1..MaxMacs : <<Head(todo), k>> \in ports <=> k < n
          /\ ports' = ports \cup {new}
          /\ port' = new
  /\ \/ gpc' = "attach" /\ UNCHANGED mishaps
     \/ gpc' = "raised" /\ mishaps' = mishaps \cup {"orphan_port"}
  /\ UNCHANGED <<deploy, todo, macs, attached, seen, netplan, config, toSet>>

\* server.interface_attach.
InterfaceAttach ==
  /\ gpc = "attach"
  /\ attached' = attached \cup {port}
  /\ \/ /\ gpc' = IF AddDataportToNetplan THEN "netplan" ELSE "openstack"
        /\ todo' = Tail(todo) /\ UNCHANGED mishaps
     \/ gpc' = "raised" /\ mishaps' = mishaps \cup {"nic_missed"} /\ UNCHANGED todo
  /\ UNCHANGED <<deploy, macs, port, ports, seen, netplan, config, toSet>>

\* The guest discovers the interface.
NicAppears ==
  /\ \E p \in attached \ seen : seen' = seen \cup {p}
  /\ UNCHANGED <<deploy, gpc, todo, macs, port, ports, attached, netplan, config,
                 toSet, mishaps>>

\* add_interface_to_netplan.  With no interface yet the grep gives an empty
\* string, which is "in" every output, so that it is taken for configured.
AddInterfaceToNetplan ==
  /\ gpc = "netplan"
  /\ IF port \in seen
       THEN netplan' = netplan \cup {port} /\ UNCHANGED mishaps
       ELSE mishaps' = mishaps \cup {"nic_missed"} /\ UNCHANGED netplan
  /\ gpc' = "openstack"
  /\ UNCHANGED <<deploy, todo, macs, port, ports, attached, seen, config, toSet>>

JustCreated == {port}

\* The MAC addresses returned: all ports of the network with "ext-port" in their
\* name, attached or not.
ExtPorts == ports

\* No machine at all raises; without a MAC address the charms are left alone.
PortsDone ==
  /\ gpc = "openstack" /\ todo = <<>>
  /\ macs' = ExtPorts
  /\ gpc' = IF UnitMachineIds = <<>> THEN "raised"
            ELSE IF macs' = {} THEN "returned" ELSE "charms"
  /\ UNCHANGED <<deploy, todo, undercloud, config, toSet, mishaps>>

-----------------------------------------------------------------------------
(* configure_networking_charms *)

\* An application whose option is set already ends the whole function; asking
\* for the option of an application that is not deployed raises.
SkipCharms ==
  /\ gpc = "charms" /\ toSet # <<>>
  /\ \/ Head(toSet) \notin deploy.apps /\ gpc' = "raised"
     \/ Head(toSet) \in deploy.apps /\ config[Head(toSet)] # {} /\ gpc' = "returned"
  /\ UNCHANGED <<deploy, todo, macs, undercloud, config, toSet, mishaps>>

SetApplicationConfig ==
  /\ gpc = "charms" /\ toSet # <<>>
  /\ Head(toSet) \in deploy.apps /\ config[Head(toSet)] = {}
  /\ config' = [config EXCEPT ![Head(toSet)] = macs]
  /\ \/ toSet' = Tail(toSet) /\ UNCHANGED <<gpc, mishaps>>
     \/ /\ gpc' = "raised" /\ UNCHANGED toSet
        /\ mishaps' = IF Len(toSet) > 1 THEN mishaps \cup {"cut_in_config"} ELSE mishaps
  /\ UNCHANGED <<deploy, todo, macs, undercloud>>

\* juju_wait, or the waits of zaza.model: the model settles.
ModelSettled ==
  /\ gpc = "charms" /\ toSet = <<>>
  /\ gpc' = "returned"
  /\ UNCHANGED <<deploy, todo, macs, undercloud, config, toSet, mishaps>>

\* A call raises without having had an effect, or the run is killed.
GFail ==
  /\ gpc \notin {"start", "returned", "raised"}
  /\ gpc' = "raised"
  /\ mishaps' = mishaps \cup
       (IF gpc = "attach" THEN {"orphan_port"} ELSE {}) \cup
       (IF gpc = "netplan" THEN {"nic_missed"} ELSE {}) \cup
       (IF gpc = "charms" /\ \E a \in ToSet(toSet) : config[a] = {}
            /\ \E b \in ToSet(ApplicationNames) : config[b] # {}
          THEN {"cut_in_config"} ELSE {})
  /\ UNCHANGED <<deploy, todo, macs, undercloud, config, toSet>>

GNext ==
  \/ UndercloudAndCharmSetup \/ OnMaas \/ OnLxd \/ LxdDone
  \/ SkipMachine \/ CreateExtPort \/ InterfaceAttach \/ NicAppears
  \/ AddInterfaceToNetplan \/ PortsDone
  \/ SkipCharms \/ SetApplicationConfig \/ ModelSettled \/ GFail

-----------------------------------------------------------------------------
\* However often the setup was stopped and run again, no machine has two
\* external ports: a port that create_port left unattached may be doubled, an
\* attached one never is.
OneExtPort == \A p, q \in attached : p[1] = q[1] => p = q

\* A charm is configured only once every machine selected for external
\* networking has its port, and its configuration names all of them.
CoversMachines ==
  deploy.provider \in {"openstack", "lxd"} =>
    \A a \in NetworkingCharms : config[a] # {} =>
      \A m \in ToSet(UnitMachineIds) : \E p \in attached \cap config[a] : p[1] = m

=============================================================================
