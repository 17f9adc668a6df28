-------------------------- MODULE OvercloudNetwork --------------------------
(***************************************************************************)
(* The configuration of a cloud's networks: basic_overcloud_network, and   *)
(* after it vlan_provider_overcloud_network, centralized_fip_network of    *)
(* the octavia tests and the BGP setup of the dragent tests, as a bundle   *)
(* lists them under "configure"; or the first alone, as run_from_cli of    *)
(* configure/network.py runs it.                                           *)
(*                                                                         *)
(* The functions of utilities/openstack.py that make one resource are one  *)
(* action each; Script is the order of their calls.  The neutron client    *)
(* does not retry: a call whose answer is lost raises, the configuration   *)
(* stops, and it may be run again from the start.                          *)
(***************************************************************************)
EXTENDS GatewayPorts

CONSTANTS
  Requests,  \* what may be asked for, see RequestType
  MaxRuns    \* bound on how often the configuration is run

\* pool: subnetpool_prefix is set; fip: use_separate_fip_subnet; vlan, octavia
\* and bgp: the functions run after basic_overcloud_network; router: router_name.
RequestType ==
  [pool : BOOLEAN, fip : BOOLEAN, vlan : BOOLEAN, octavia : BOOLEAN,
   bgp : BOOLEAN, router : {"provider-router", "other-router"}]

ASSUME RequestsAssumption == Requests \subseteq RequestType /\ MaxRuns \in Nat \ {0}

VARIABLES
  want,       \* the request
  runs,       \* runs of the configuration started
  status,     \* "running", "raised" or "done"
  at,         \* index in Script of the call the configuration is at
  have,       \* [Resources -> how many of that name neutron has]
  links,      \* what is connected to what
  scheduled,  \* the BGP agent that runs now has the speaker
  logged      \* its log has the line that says so, of this agent or one before

agent == <<scheduled, logged>>
overcloud == <<have, links, agent>>
vars == <<gvars, want, runs, status, at, overcloud>>

Looked ==   \* the resources looked up by name before they are created
  {"ext_net", "fip_service_subnet", "ext_net_subnet", "provider-router",
   "address_scope", "subnetpool", "private", "private_subnet",
   "provider_vlan", "provider_vlan_subnet", "ssh_rule", "icmp_rule",
   "bgp-speaker", "bgp_peer", "NDR_TEST_FIP", "floating_ip"}
LbFip ==    \* those of centralized_fip_network, which looks nothing up
  {"private_lb_fip_network", "private_lb_fip_subnet", "lb_fip_router", "lb_fip_interface"}
Resources == Looked \cup LbFip

When(condition, calls) == IF condition THEN calls ELSE <<>>

SetupSdn ==
  << <<"create_provider_network", "ext_net">> >> \o
  When(want.fip, << <<"create_provider_subnet", "fip_service_subnet">> >>) \o
  << <<"create_provider_subnet", "ext_net_subnet">>,
     <<"create_provider_router", "provider-router">>,
     <<"plug_extnet_into_router", "provider-router">> >> \o
  When(want.pool, << <<"create_address_scope", "address_scope">>,
                     <<"create_subnetpool", "subnetpool">> >>) \o
  << <<"create_project_network", "private">>,
     <<"create_project_subnet", "private_subnet">>,
     <<"update_subnet_dns", "private_subnet">>,
     <<"plug_subnet_into_router", want.router, "private">>,
     <<"add_neutron_secgroup_rules", "ssh_rule">>,
     <<"add_neutron_secgroup_rules", "icmp_rule">> >>

SetupSdnProviderVlan ==
  << <<"create_provider_network", "provider_vlan">>,
     <<"create_provider_subnet", "provider_vlan_subnet">>,
     <<"plug_subnet_into_router", want.router, "provider_vlan">>,
     <<"add_neutron_secgroup_rules", "ssh_rule">>,
     <<"add_neutron_secgroup_rules", "icmp_rule">> >>

CentralizedFipNetwork ==
  << <<"create", "private_lb_fip_network">>, <<"create", "private_lb_fip_subnet">>,
     <<"create", "lb_fip_router">>, <<"create", "lb_fip_interface">> >>

SetupBgpSpeaker ==
  << <<"create_bgp_speaker", "bgp-speaker">>, <<"assert_speaker_added">>,
     <<"add_network_to_bgp_speaker", "ext_net">>,
     <<"add_network_to_bgp_speaker", "private">>,
     <<"create_bgp_peer", "bgp_peer">>, <<"add_peer_to_bgp_speaker">>,
     <<"create_port", "NDR_TEST_FIP">>, <<"create_floating_ip", "floating_ip">> >>

\* setup of the dragent tests restarts the agent before it sets the speaker up.
DragentSetup == << <<"restart_dragent">> >> \o SetupBgpSpeaker

\* basic_overcloud_network and what follows it.
Script ==
  << <<"undercloud_and_charm_setup">> >> \o SetupSdn \o
  When(want.vlan, SetupSdnProviderVlan) \o
  When(want.octavia /\ DvrEnabled, CentralizedFipNetwork) \o
  When(want.bgp, DragentSetup)

\* A network.yaml sets the router and leaves the subnet pool out.  run_from_cli, which
\* reads it, sets charms up on "openstack" only and for all their machines.
FromYaml == want.router # "provider-router" \/ ~want.pool

Init ==
  /\ GInit
  /\ want \in Requests
  /\ FromYaml => deploy.provider = "openstack" /\ deploy.limit = NoLimit
  /\ runs = 1 /\ status = "running" /\ at = 1
  /\ have = [r \in Resources |-> 0]
  /\ links = {} /\ scheduled = FALSE /\ logged = FALSE

-----------------------------------------------------------------------------
(* Calls.  A call that changes something may raise all the same. *)

Calling(function) ==
  status = "running" /\ at <= Len(Script) /\ Script[at][1] = function

Arg == Script[at][2]

Return == at' = at + 1 /\ UNCHANGED status
Raise == status' = "raised" /\ UNCHANGED at

Context == UNCHANGED <<gvars, want, runs>>

CreateAnyway(r) ==
  /\ have' = [have EXCEPT ![r] = @ + 1]
  /\ Return \/ Raise

\* The first resource of the name, or a new one.
GetOrCreate(r) ==
  \/ have[r] > 0 /\ Return /\ UNCHANGED have
  \/ have[r] = 0 /\ CreateAnyway(r)

Make(function) ==
  Calling(function) /\ GetOrCreate(Arg) /\ UNCHANGED <<links, agent>> /\ Context

CreateProviderNetwork == Make("create_provider_network")
CreateProviderSubnet == Make("create_provider_subnet")
CreateProviderRouter == Make("create_provider_router")
CreateAddressScope == Make("create_address_scope")
CreateSubnetpool == Make("create_subnetpool")
CreateProjectNetwork == Make("create_project_network")
CreateProjectSubnet == Make("create_project_subnet")
CreateBgpSpeaker == Make("create_bgp_speaker")
CreateBgpPeer == Make("create_bgp_peer")
CreatePort == Make("create_port")

\* A floating IP whose port_id is the port's counts as found.
CreateFloatingIp == Make("create_floating_ip")

\* The rules are looked up one by one, so a run that stopped between them is
\* made up for.
AddNeutronSecgroupRules == Make("add_neutron_secgroup_rules")

Link(l) == links' = links \cup {l} /\ (Return \/ Raise)

\* Any gateway port on the network counts, of whatever router.
PlugExtnetIntoRouter ==
  /\ Calling("plug_extnet_into_router")
  /\ IF \E r \in Resources : <<"gateway", r>> \in links
       THEN Return /\ UNCHANGED links
       ELSE Link(<<"gateway", Arg>>)
  /\ UNCHANGED <<have, agent>> /\ Context

AnyInterface(net) == \E l \in links : l[1] = "interface"

\* Some router has an interface port on the network.
InterfacePort(net) ==
  \E r \in Resources : <<"interface", r, net>> \in links

\* Without a router of the given name it calls sys.exit.
PlugSubnetIntoRouter ==
  /\ Calling("plug_subnet_into_router")
  /\ LET router == Script[at][2]
         net == Script[at][3]
     IN \/ /\ router \notin Resources
           /\ Raise /\ UNCHANGED links
        \/ /\ router \in Resources
           /\ IF InterfacePort(net) THEN Return /\ UNCHANGED links
                                    ELSE Link(<<"interface", router, net>>)
  /\ UNCHANGED <<have, agent>> /\ Context

UpdateSubnetDns ==
  /\ Calling("update_subnet_dns")
  /\ Link(<<"dns", Arg>>)
  /\ UNCHANGED <<have, agent>> /\ Context

\* The resources of centralized_fip_network; the router comes with its gateway.
CentralizedFip ==
  /\ Calling("create")
  /\ Arg \in LbFip /\ CreateAnyway(Arg)
  /\ links' = IF Arg = "lb_fip_router" THEN links \cup {<<"gateway", Arg>>} ELSE links
  /\ UNCHANGED agent /\ Context

\* The new agent has no speaker until it has picked it up again; the log is kept.
RestartDragent ==
  /\ Calling("restart_dragent")
  /\ scheduled' = FALSE
  /\ Return \/ Raise
  /\ UNCHANGED <<have, links, logged>> /\ Context

\* The agent picks the speaker up some time after it was created, or after the start
\* of the agent, and logs it.
SpeakerScheduled ==
  /\ have["bgp-speaker"] > 0 /\ ~scheduled
  /\ scheduled' = TRUE /\ logged' = TRUE
  /\ UNCHANGED <<gvars, want, runs, status, at, have, links>>

AssertNothing == Calling("assert_speaker_added") /\ Return /\ UNCHANGED overcloud /\ Context

\* _assert_speaker_added returns once the log has the line, else it raises after
\* ten attempts.  The line may be of the agent before the restart.
AssertSpeakerAdded ==
  /\ Calling("assert_speaker_added")
  /\ IF logged THEN Return ELSE Raise
  /\ mishaps' = IF logged /\ ~scheduled THEN mishaps \cup {"stale_line"} ELSE mishaps
  /\ UNCHANGED <<deploy, gpc, todo, macs, undercloud, config, toSet, want, runs, overcloud>>

\* An InternalServerError is taken to say that the network is advertised.
\* Of a network that is added before the agent has the speaker the agent is not told.
AddNetworkToBgpSpeaker ==
  /\ Calling("add_network_to_bgp_speaker")
  /\ \/ /\ <<"advertised", Arg>> \notin links
        /\ links' = links \cup {<<"advertised", Arg>>} \cup
                      (IF scheduled THEN {<<"taken_up", Arg>>} ELSE {})
        /\ Return \/ Raise
        /\ UNCHANGED mishaps
     \/ /\ Return /\ UNCHANGED links
        /\ mishaps' = IF <<"advertised", Arg>> \in links
                        THEN mishaps ELSE mishaps \cup {"server_error"}
  /\ UNCHANGED <<deploy, gpc, todo, macs, undercloud, config, toSet, want, runs, have, agent>>

\* A Conflict says that the speaker has the peer.
AddPeerToBgpSpeaker ==
  /\ Calling("add_peer_to_bgp_speaker")
  /\ Link(<<"peer", "bgp-speaker">>)
  /\ UNCHANGED <<have, agent>> /\ Context

-----------------------------------------------------------------------------
(* The run *)

\* undercloud_and_charm_setup is a call of its own, see GatewayPorts.
CharmSetup ==
  /\ Calling("undercloud_and_charm_setup")
  /\ \/ GNext /\ UNCHANGED <<status, at>>
     \/ gpc = "returned" /\ Return /\ UNCHANGED gvars
     \/ gpc = "raised" /\ Raise /\ UNCHANGED gvars
  /\ UNCHANGED <<want, runs, overcloud>>

\* A call raises without having had an effect.
Fail ==
  /\ status = "running" /\ 1 < at /\ at <= Len(Script)
  /\ Raise
  /\ UNCHANGED overcloud /\ Context

Finish ==
  /\ status = "running" /\ at = Len(Script) + 1
  /\ status' = "done"
  /\ UNCHANGED <<gvars, want, runs, at, overcloud>>

\* Run again, after a failure or for the next bundle's tests on the same cloud.
Rerun ==
  /\ status # "running" /\ runs < MaxRuns
  /\ status' = "running" /\ at' = 1 /\ runs' = runs + 1
  /\ gpc' = "start" /\ todo' = <<>> /\ macs' = {} /\ port' = <<>> /\ toSet' = <<>>
  /\ UNCHANGED <<deploy, ports, attached, seen, netplan, config, mishaps, want, overcloud>>

Terminated == status # "running" /\ runs = MaxRuns /\ UNCHANGED vars

Next ==
  \/ CharmSetup
  \/ CreateProviderNetwork \/ CreateProviderSubnet \/ CreateProviderRouter
  \/ CreateAddressScope \/ CreateSubnetpool \/ CreateProjectNetwork
  \/ CreateProjectSubnet \/ CreateBgpSpeaker \/ CreateBgpPeer \/ CreatePort
  \/ CreateFloatingIp \/ AddNeutronSecgroupRules
  \/ PlugExtnetIntoRouter \/ PlugSubnetIntoRouter \/ UpdateSubnetDns
  \/ CentralizedFip \/ RestartDragent \/ SpeakerScheduled \/ AssertSpeakerAdded
  \/ AddNetworkToBgpSpeaker \/ AddPeerToBgpSpeaker
  \/ Fail \/ Finish \/ Rerun \/ Terminated

Spec == Init /\ [][Next]_vars

-----------------------------------------------------------------------------
\* However often the configuration was stopped and run again, there is one
\* resource of every name that is looked up, one security group rule per
\* protocol and one floating IP for the port that is to be advertised.
NamedOnce == \A r \in Looked : have[r] <= 1

\* When the configuration is done every network for guests has an interface on a
\* router whose gateway is on the external network, and guests may be reached by
\* ssh and ping, whatever runs that stopped half-way have left.
GuestsReachable ==
  status = "done" =>
    /\ \A net \in {"private"} \cup (IF want.vlan THEN {"provider_vlan"} ELSE {}) :
         \E r \in Resources : {<<"gateway", r>>, <<"interface", r, net>>} \subseteq links
    /\ <<"dns", "private_subnet">> \in links
    /\ have["ssh_rule"] > 0 /\ have["icmp_rule"] > 0

\* The deployed charms from whose machines UnitMachineIds are taken.
Selected ==
  deploy.apps \cap
    (IF DvrEnabled THEN {"neutron-openvswitch", "neutron-gateway"}
     ELSE IF NgwPresent THEN {"neutron-gateway"}
     ELSE {"ovn-chassis", "ovn-dedicated-chassis"})

\* When the configuration is done the networking charms whose machines were
\* selected are configured, with ports that are attached and, where asked for,
\* in netplan.  The exceptions have one cause each: a run that stopped between
\* two applications, a port that was created and not attached, and an interface
\* the guest did not have yet or that was attached as the run stopped.
CharmsConfigured ==
  status = "done" /\ deploy.provider = "openstack" =>
    /\ \A a \in Selected :
         /\ "cut_in_config" \notin mishaps => config[a] # {}
         /\ "orphan_port" \notin mishaps => config[a] \subseteq attached
    /\ AddDataportToNetplan /\ "nic_missed" \notin mishaps => attached \subseteq netplan

\* When the BGP setup is done both networks were added while the agent had the
\* speaker, so that it takes up their routes, and the speaker has its peer.  There
\* are two exceptions: an InternalServerError of neutron that was taken for "already
\* advertised", and a run that took the log line of an agent before the restart for
\* that of its own.
RoutesTakenUp ==
  status = "done" /\ want.bgp /\ {"server_error", "stale_line"} \cap mishaps = {} =>
    {<<"taken_up", "ext_net">>, <<"taken_up", "private">>, <<"peer", "bgp-speaker">>}
      \subseteq links

=============================================================================
