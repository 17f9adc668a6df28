--------------------------- MODULE NetworkProofs ---------------------------
(***************************************************************************)
(* Proofs about OvercloudNetwork and the GatewayPorts it contains, for all *)
(* deployments, requests and numbers of runs.                              *)
(***************************************************************************)
EXTENDS OvercloudNetwork, TLAPS

USE DEF gvars, undercloud, agent, overcloud, Context, Return, Raise

NeutronCalls ==
  \/ CreateProviderNetwork \/ CreateProviderSubnet \/ CreateProviderRouter
  \/ CreateAddressScope \/ CreateSubnetpool \/ CreateProjectNetwork
  \/ CreateProjectSubnet \/ CreateBgpSpeaker \/ CreateBgpPeer \/ CreatePort
  \/ CreateFloatingIp \/ AddNeutronSecgroupRules

\* Calls to the overcloud's neutron do not touch the undercloud.
NeutronStep ==
  \/ NeutronCalls
  \/ PlugExtnetIntoRouter \/ PlugSubnetIntoRouter \/ UpdateSubnetDns
  \/ CentralizedFip \/ RestartDragent \/ SpeakerScheduled \/ AssertSpeakerAdded
  \/ AddNetworkToBgpSpeaker \/ AddPeerToBgpSpeaker \/ Fail \/ Finish

\* What a step is to the machines: a step of GatewayPorts, a new run, or nothing.
LEMMA MachineStep ==
  ASSUME [Next]_vars
  PROVE  \/ GNext
         \/ Rerun
         \/ UNCHANGED <<deploy, gpc, todo, macs, undercloud, config, toSet>>
<1>1. CASE NeutronCalls
  BY <1>1 DEF NeutronCalls, CreateProviderNetwork, CreateProviderSubnet,
     CreateProviderRouter,
       CreateAddressScope, CreateSubnetpool, CreateProjectNetwork, CreateProjectSubnet,
       CreateBgpSpeaker, CreateBgpPeer, CreatePort, CreateFloatingIp, AddNeutronSecgroupRules, Make
<1>2. CASE NeutronStep /\ ~NeutronCalls
  BY <1>2 DEF NeutronStep, PlugExtnetIntoRouter, PlugSubnetIntoRouter, UpdateSubnetDns,
       CentralizedFip, RestartDragent, SpeakerScheduled, AssertSpeakerAdded,
       AddNetworkToBgpSpeaker, AddPeerToBgpSpeaker, Fail, Finish
<1>3. CASE CharmSetup
  BY <1>3 DEF CharmSetup
<1>4. CASE Terminated \/ UNCHANGED vars
  BY <1>4 DEF Terminated, vars
<1> QED
  BY <1>1, <1>2, <1>3, <1>4 DEF Next, NeutronStep, NeutronCalls

\* No step changes the deployment.
LEMMA DeployFixed ==
  ASSUME [Next]_vars
  PROVE  deploy' = deploy
<1>1. CASE GNext
  <2>1. CASE UndercloudAndCharmSetup
    BY <2>1 DEF UndercloudAndCharmSetup
  <2>2. CASE OnMaas
    BY <2>2 DEF OnMaas
  <2>3. CASE OnLxd
    BY <2>3 DEF OnLxd
  <2>4. CASE LxdDone
    BY <2>4 DEF LxdDone
  <2>5. CASE SkipMachine
    BY <2>5 DEF SkipMachine
  <2>6. CASE CreateExtPort
    BY <2>6 DEF CreateExtPort
  <2>7. CASE InterfaceAttach
    BY <2>7 DEF InterfaceAttach
  <2>8. CASE NicAppears
    BY <2>8 DEF NicAppears
  <2>9. CASE AddInterfaceToNetplan
    BY <2>9 DEF AddInterfaceToNetplan
  <2>10. CASE PortsDone
    BY <2>10 DEF PortsDone
  <2>11. CASE SkipCharms
    BY <2>11 DEF SkipCharms
  <2>12. CASE SetApplicationConfig
    BY <2>12 DEF SetApplicationConfig
  <2>13. CASE ModelSettled
    BY <2>13 DEF ModelSettled
  <2>14. CASE GFail
    BY <2>14 DEF GFail
  <2> QED
    BY <1>1, <2>1, <2>2, <2>3, <2>4, <2>5, <2>6, <2>7, <2>8, <2>9, <2>10, <2>11,
       <2>12, <2>13, <2>14 DEF GNext
<1> QED
  BY <1>1, MachineStep DEF Rerun

-----------------------------------------------------------------------------
(* One external port per machine *)

\* A port is created only for a machine without an attached one, and nothing
\* else is attached before it; on lxd the device of a machine is always the same.
OnePort ==
  /\ deploy.provider \in {"openstack", "maas", "lxd", "other"}
  /\ gpc \in {"openstack", "attach", "netplan"} => deploy.provider = "openstack"
  /\ gpc = "lxd" => deploy.provider = "lxd"
  /\ \A p \in attached : p = <<p[1], p[2]>>
  /\ deploy.provider = "lxd" => \A p \in attached : p[2] = 1
  /\ gpc = "attach" => port = <<port[1], port[2]>> /\ \A p \in attached : p[1] # port[1]
  /\ OneExtPort

\* Every step keeps OnePort.
LEMMA OnePortStep == OnePort /\ [Next]_vars => OnePort'
<1> SUFFICES ASSUME OnePort, [Next]_vars PROVE OnePort'
  OBVIOUS
<1> USE DEF OnePort, OneExtPort
<1>1. CASE GNext
  <2>1. CASE UndercloudAndCharmSetup
    BY <2>1 DEF UndercloudAndCharmSetup
  <2>2. CASE OnMaas
    BY <2>2 DEF OnMaas
  <2>3. CASE OnLxd
    BY <2>3 DEF OnLxd
  <2>4. CASE LxdDone
    BY <2>4 DEF LxdDone
  <2>5. CASE SkipMachine
    BY <2>5 DEF SkipMachine
  <2>6. CASE CreateExtPort
    BY <2>6 DEF CreateExtPort, HasExtPort
  <2>7. CASE InterfaceAttach
    BY <2>7 DEF InterfaceAttach
  <2>8. CASE NicAppears
    BY <2>8 DEF NicAppears
  <2>9. CASE AddInterfaceToNetplan
    BY <2>9 DEF AddInterfaceToNetplan
  <2>10. CASE PortsDone
    BY <2>10 DEF PortsDone
  <2>11. CASE SkipCharms
    BY <2>11 DEF SkipCharms
  <2>12. CASE SetApplicationConfig
    BY <2>12 DEF SetApplicationConfig
  <2>13. CASE ModelSettled
    BY <2>13 DEF ModelSettled
  <2>14. CASE GFail
    BY <2>14 DEF GFail
  <2> QED
    BY <1>1, <2>1, <2>2, <2>3, <2>4, <2>5, <2>6, <2>7, <2>8, <2>9, <2>10, <2>11,
       <2>12, <2>13, <2>14 DEF GNext
<1>2. CASE Rerun
  BY <1>2 DEF Rerun
<1>3. CASE UNCHANGED <<deploy, gpc, todo, macs, undercloud, config, toSet>>
  BY <1>3
<1> QED
  BY <1>1, <1>2, <1>3, MachineStep

\* No machine ever has two external ports attached, however often the setup was
\* stopped and run again, for any number of machines and providers.
THEOREM OneExtPortPerMachine == Spec => []OneExtPort
<1>1. Init => OnePort
  BY DeploymentsAssumption DEF DeploymentType, Init, GInit, OnePort, OneExtPort
<1>2. OnePort => OneExtPort
  BY DEF OnePort
<1> QED
  BY <1>1, <1>2, OnePortStep, PTL DEF Spec

-----------------------------------------------------------------------------
(* Resources looked up by name *)

\* How many resources neutron has of each name is a number.
OneOfName == have \in [Resources -> Nat] /\ NamedOnce

\* A resource that is looked up is created only if there is none.
LEMMA GetOrCreateOnce ==
  ASSUME OneOfName, NEW r, GetOrCreate(r)
  PROVE  OneOfName'
<1>1. have \in [Resources -> Nat] /\ \A x \in Looked : have[x] <= 1
  BY DEF OneOfName, NamedOnce
<1>2. CASE UNCHANGED have
  BY <1>1, <1>2 DEF OneOfName, NamedOnce
<1>3. CASE have[r] = 0 /\ have' = [have EXCEPT ![r] = @ + 1]
  <2>1. CASE r \in Resources
    BY <1>1, <1>3, <2>1 DEF OneOfName, NamedOnce, Resources
  <2>2. CASE r \notin Resources
    <3>1. have' = have
      BY <1>1, <1>3, <2>2
    <3> QED
      BY <1>2, <3>1
  <2> QED
    BY <2>1, <2>2
<1> QED
  BY <1>2, <1>3 DEF GetOrCreate, CreateAnyway

\* Every step keeps OneOfName.
LEMMA OneOfNameStep == OneOfName /\ [Next]_vars => OneOfName'
<1> SUFFICES ASSUME OneOfName, [Next]_vars PROVE OneOfName'
  OBVIOUS
<1>1. CASE NeutronCalls
  <2>1. GetOrCreate(Arg)
    BY <1>1 DEF NeutronCalls, CreateProviderNetwork, CreateProviderSubnet,
       CreateProviderRouter,
       CreateAddressScope, CreateSubnetpool, CreateProjectNetwork, CreateProjectSubnet,
       CreateBgpSpeaker, CreateBgpPeer, CreatePort, CreateFloatingIp, AddNeutronSecgroupRules, Make
  <2> QED
    BY <2>1, GetOrCreateOnce
<1>2. CASE CentralizedFip
  <2>1. Arg \in LbFip /\ have' = [have EXCEPT ![Arg] = @ + 1]
    BY <1>2 DEF CentralizedFip, CreateAnyway
  <2>2. LbFip \cap Looked = {} /\ LbFip \subseteq Resources /\ Looked \subseteq Resources
    BY DEF LbFip, Looked, Resources
  <2> QED
    BY <2>1, <2>2 DEF OneOfName, NamedOnce
<1>3. CASE UNCHANGED have
  BY <1>3 DEF OneOfName, NamedOnce
<1> QED
  BY <1>1, <1>2, <1>3 DEF Next, NeutronCalls, PlugExtnetIntoRouter, PlugSubnetIntoRouter,
     UpdateSubnetDns, RestartDragent, SpeakerScheduled, AssertSpeakerAdded, AddNetworkToBgpSpeaker,
     AddPeerToBgpSpeaker, CharmSetup, Fail, Finish, Rerun, Terminated, vars

\* There is never a second network, subnet, router, rule, port or floating IP of
\* a name that is looked up, for every request and every number of stopped runs.
THEOREM NamesUnique == Spec => []NamedOnce
<1>1. Init => OneOfName
  BY DEF Init, OneOfName, NamedOnce, Resources
<1>2. OneOfName => NamedOnce
  BY DEF OneOfName
<1> QED
  BY <1>1, <1>2, OneOfNameStep, PTL DEF Spec

-----------------------------------------------------------------------------
(* The charms are configured for every machine *)

\* The machines of a sequence are its head and those of its tail.
LEMMA HeadAndTail ==
  ASSUME NEW S, NEW s \in Seq(S), s # <<>>
  PROVE  /\ Head(s) \in S /\ Tail(s) \in Seq(S)
         /\ ToSet(s) = {Head(s)} \cup ToSet(Tail(s))
<1>1. Head(s) \in S /\ Tail(s) \in Seq(S)
  OBVIOUS
<1>2. \A i \in DOMAIN s : i = 1 \/ (i - 1 \in DOMAIN Tail(s) /\ s[i] = Tail(s)[i - 1])
  OBVIOUS
<1>3. \A i \in DOMAIN Tail(s) : i + 1 \in DOMAIN s /\ s[i + 1] = Tail(s)[i]
  OBVIOUS
<1>4. 1 \in DOMAIN s /\ s[1] = Head(s)
  OBVIOUS
<1>5. ASSUME NEW x \in ToSet(s) PROVE x \in {Head(s)} \cup ToSet(Tail(s))
  <2>1. PICK i \in DOMAIN s : x = s[i]
    BY DEF ToSet
  <2> QED
    BY <1>2, <1>4, <2>1 DEF ToSet
<1>6. ASSUME NEW x \in {Head(s)} \cup ToSet(Tail(s)) PROVE x \in ToSet(s)
  BY <1>3, <1>4 DEF ToSet
<1> QED
  BY <1>1, <1>5, <1>6

\* An empty sequence has no machines.
LEMMA NoMachines == ToSet(<<>>) = {}
  BY DEF ToSet

\* The machines selected depend on the deployment alone.
LEMMA SelectionFixed ==
  ASSUME deploy' = deploy
  PROVE  UnitMachineIds' = UnitMachineIds
  BY DEF UnitMachineIds, Take, Units, DvrEnabled, NgwPresent

\* They are a sequence of machines.
LEMMA SelectionType ==
  ASSUME deploy \in Deployments
  PROVE  UnitMachineIds \in Seq(Machines)
<1>1. deploy.limit \in Nat
  BY DeploymentsAssumption DEF DeploymentType
<1>2. ASSUME NEW a \in NetworkingCharms PROVE Units(a) \in Seq(Machines)
  BY DeploymentsAssumption DEF Units
<1>3. ASSUME NEW s \in Seq(Machines) PROVE Take(s) \in Seq(Machines)
  BY <1>1 DEF Take
<1>4. /\ Units("neutron-openvswitch") \in Seq(Machines) /\ Units("neutron-gateway") \in Seq(Machines)
      /\ Units("ovn-chassis") \in Seq(Machines) /\ Units("ovn-dedicated-chassis") \in Seq(Machines)
  BY <1>2 DEF NetworkingCharms
<1>5. /\ Units("neutron-openvswitch") \o Units("neutron-gateway") \in Seq(Machines)
      /\ Units("ovn-chassis") \o Units("ovn-dedicated-chassis") \in Seq(Machines)
  BY <1>4
<1> QED
  BY <1>3, <1>4, <1>5 DEF UnitMachineIds

\* Every selected machine has an attached port among those of S.
Covers(S) == \A m \in ToSet(UnitMachineIds) : \E p \in attached \cap S : p[1] = m

\* A machine that the loop has left behind has its port.
LoopCovers ==
  /\ gpc = "lxd" =>
       \A m \in ToSet(UnitMachineIds) \ ToSet(todo) : <<m, 1>> \in attached \cap macs
  /\ gpc \in {"openstack", "attach", "netplan"} =>
       \A m \in ToSet(UnitMachineIds) \ ToSet(todo) : \E p \in attached : p[1] = m

Covered ==
  /\ deploy \in Deployments /\ deploy.provider \in {"openstack", "maas", "lxd", "other"}
  /\ todo \in Seq(Machines) /\ DOMAIN config = NetworkingCharms
  /\ attached \subseteq ports
  /\ gpc = "maas" => deploy.provider = "maas"
  /\ gpc = "attach" => todo # <<>> /\ port \in ports /\ port[1] = Head(todo)
  /\ LoopCovers
  /\ gpc = "charms" /\ deploy.provider # "maas" => Covers(macs)
  /\ deploy.provider # "maas" => \A a \in NetworkingCharms : config[a] # {} => Covers(config[a])

\* Every step keeps Covered.
LEMMA CoveredStep == Covered /\ [Next]_vars => Covered'
<1> SUFFICES ASSUME Covered, [Next]_vars PROVE Covered'
  OBVIOUS
<1>0. deploy' = deploy
  BY DeployFixed
<1>a. UnitMachineIds' = UnitMachineIds
  BY <1>0, SelectionFixed
<1> USE <1>0, <1>a DEF Covered, LoopCovers, Covers
<1>1. CASE GNext
  <2>1. CASE UndercloudAndCharmSetup
    BY <2>1, SelectionType DEF UndercloudAndCharmSetup
  <2>2. CASE OnMaas
    BY <2>2 DEF OnMaas
  <2>3. CASE OnLxd
    <3>1. /\ Head(todo) \in Machines /\ Tail(todo) \in Seq(Machines)
          /\ ToSet(todo) = {Head(todo)} \cup ToSet(Tail(todo))
      BY <2>3, HeadAndTail DEF OnLxd
    <3> HIDE DEF Covers, LoopCovers
    <3>2. LoopCovers'
      BY <2>3, <3>1 DEF OnLxd, LoopCovers
    <3> QED
      BY <2>3, <3>1, <3>2 DEF OnLxd, Covers
  <2>4. CASE LxdDone
    <3>1. Covers(macs)
      <4>1. ASSUME NEW m \in ToSet(UnitMachineIds) PROVE \E p \in attached \cap macs : p[1] = m
        <5>1. <<m, 1>> \in attached \cap macs
          BY <2>4, NoMachines DEF LxdDone
        <5> QED
          BY <5>1
      <4> QED
        BY <4>1
    <3> QED
      BY <2>4, <3>1 DEF LxdDone
  <2>5. CASE SkipMachine
    BY <2>5, HeadAndTail DEF SkipMachine, HasExtPort
  <2>6. CASE CreateExtPort
    BY <2>6 DEF CreateExtPort, HasExtPort
  <2>7. CASE InterfaceAttach
    <3>1. /\ Head(todo) \in Machines /\ Tail(todo) \in Seq(Machines)
          /\ ToSet(todo) = {Head(todo)} \cup ToSet(Tail(todo))
      BY <2>7, HeadAndTail DEF InterfaceAttach
    <3> HIDE DEF Covers, LoopCovers
    <3>2. LoopCovers'
      BY <2>7, <3>1 DEF InterfaceAttach, LoopCovers
    <3> QED
      BY <2>7, <3>1, <3>2 DEF InterfaceAttach, Covers
  <2>8. CASE NicAppears
    BY <2>8 DEF NicAppears
  <2>9. CASE AddInterfaceToNetplan
    BY <2>9 DEF AddInterfaceToNetplan
  <2>10. CASE PortsDone
    BY <2>10, NoMachines DEF PortsDone, ExtPorts
  <2>11. CASE SkipCharms
    BY <2>11 DEF SkipCharms
  <2>12. CASE SetApplicationConfig
    BY <2>12 DEF SetApplicationConfig
  <2>13. CASE ModelSettled
    BY <2>13 DEF ModelSettled
  <2>14. CASE GFail
    BY <2>14 DEF GFail
  <2> QED
    BY <1>1, <2>1, <2>2, <2>3, <2>4, <2>5, <2>6, <2>7, <2>8, <2>9, <2>10, <2>11,
       <2>12, <2>13, <2>14 DEF GNext
<1>2. CASE Rerun
  BY <1>2 DEF Rerun
<1>3. CASE UNCHANGED <<deploy, gpc, todo, macs, undercloud, config, toSet>>
  BY <1>3
<1> QED
  BY <1>1, <1>2, <1>3, MachineStep

\* A charm is never configured before every machine selected for external
\* networking has its port, nor with fewer ports, for any selection of machines.
THEOREM ConfigCoversMachines == Spec => []CoversMachines
<1>1. Init => Covered
  BY DeploymentsAssumption DEF Init, GInit, Covered, LoopCovers, Covers, DeploymentType
<1>2. Covered => CoversMachines
  BY DEF Covered, Covers, CoversMachines
<1> QED
  BY <1>1, <1>2, CoveredStep, PTL DEF Spec

-----------------------------------------------------------------------------
(* What the calls that returned have left *)

\* What holds from the return of a call on, of links, have, scheduled and mishaps.
Effect(call, l, h, speaker, m) ==
  /\ call[1] = "plug_extnet_into_router" => <<"gateway", "provider-router">> \in l
  /\ call[1] = "plug_subnet_into_router" => <<"interface", "provider-router", call[3]>> \in l
  /\ call[1] = "update_subnet_dns" => <<"dns", call[2]>> \in l
  /\ call[1] = "add_neutron_secgroup_rules" => h[call[2]] > 0
  /\ call[1] = "assert_speaker_added" => speaker \/ "stale_line" \in m
  /\ call[1] = "add_network_to_bgp_speaker" =>
       "server_error" \in m \/ "stale_line" \in m \/ <<"taken_up", call[2]>> \in l
  /\ call[1] = "add_peer_to_bgp_speaker" => <<"peer", "bgp-speaker">> \in l

\* The calls before the current one have returned in this run.
PassedInv ==
  /\ at \in Nat /\ 1 <= at /\ at <= Len(Script) + 1
  /\ \A i \in 1..(at - 1) : Effect(Script[i], links, have, scheduled, mishaps)
  /\ status = "done" => at = Len(Script) + 1

\* The first gateway is the provider router's, which is the only router a subnet is
\* plugged into, and a network is advertised only once the agent has the speaker, or a
\* line of an agent before it was taken to say so.
LinksInv ==
  /\ \A r \in Resources : <<"gateway", r>> \in links => <<"gateway", "provider-router">> \in links
  /\ \A r \in Resources : \A net \in {"private", "provider_vlan"} :
       <<"interface", r, net>> \in links => r = "provider-router"
  /\ \A net \in {"ext_net", "private"} :
       <<"advertised", net>> \in links =>
         <<"taken_up", net>> \in links \/ "stale_line" \in mishaps

ScriptInv == want \in Requests /\ OneOfName /\ PassedInv /\ LinksInv

-----------------------------------------------------------------------------
(* The calls of Script *)

\* The calls of two scripts, one after the other.
LEMMA Concatenated ==
  ASSUME NEW S, NEW s \in Seq(S), NEW t \in Seq(S)
  PROVE  /\ s \o t \in Seq(S)
         /\ ToSet(s \o t) = ToSet(s) \cup ToSet(t)
<1>1. s \o t \in Seq(S) /\ Len(s \o t) = Len(s) + Len(t)
  OBVIOUS
<1>2. \A i \in DOMAIN s : i \in DOMAIN (s \o t) /\ (s \o t)[i] = s[i]
  OBVIOUS
<1>3. \A i \in DOMAIN t : i + Len(s) \in DOMAIN (s \o t) /\ (s \o t)[i + Len(s)] = t[i]
  OBVIOUS
<1>4. \A i \in DOMAIN (s \o t) :
         \/ i \in DOMAIN s /\ (s \o t)[i] = s[i]
         \/ i - Len(s) \in DOMAIN t /\ (s \o t)[i] = t[i - Len(s)]
  OBVIOUS
<1>5. ASSUME NEW x \in ToSet(s \o t) PROVE x \in ToSet(s) \cup ToSet(t)
  <2>1. PICK i \in DOMAIN (s \o t) : x = (s \o t)[i]
    BY DEF ToSet
  <2> QED
    BY <1>4, <2>1 DEF ToSet
<1>6. ASSUME NEW x \in ToSet(s) PROVE x \in ToSet(s \o t)
  BY <1>2 DEF ToSet
<1>7. ASSUME NEW x \in ToSet(t) PROVE x \in ToSet(s \o t)
  BY <1>3 DEF ToSet
<1> QED
  BY <1>1, <1>5, <1>6, <1>7

\* Where the calls of two scripts are: those of the second come after all of the
\* first.
LEMMA ComesAfter ==
  ASSUME NEW S, NEW s \in Seq(S), NEW t \in Seq(S), NEW i \in DOMAIN (s \o t)
  PROVE  /\ i \in DOMAIN s => (s \o t)[i] = s[i]
         /\ i \notin DOMAIN s =>
              /\ i - Len(s) \in DOMAIN t /\ (s \o t)[i] = t[i - Len(s)]
              /\ \A c \in ToSet(s) : \E j \in 1..(i - 1) : (s \o t)[j] = c
<1>1. i \in DOMAIN s => (s \o t)[i] = s[i]
  OBVIOUS
<1>2. i \notin DOMAIN s => i - Len(s) \in DOMAIN t /\ (s \o t)[i] = t[i - Len(s)]
  OBVIOUS
<1>3. ASSUME i \notin DOMAIN s, NEW c \in ToSet(s)
      PROVE  \E j \in 1..(i - 1) : (s \o t)[j] = c
  <2>1. PICK j \in DOMAIN s : s[j] = c
    BY DEF ToSet
  <2>2. j \in 1..(i - 1) /\ (s \o t)[j] = s[j]
    BY <1>3
  <2> QED
    BY <2>1, <2>2
<1> QED
  BY <1>1, <1>2, <1>3

\* Which places they have.
InPlace(all, s, t) ==
  /\ Len(all) = Len(s) + Len(t)
  /\ \A i \in 1..Len(s) : all[i] = s[i]
  /\ \A i \in 1..Len(t) : all[Len(s) + i] = t[i]

\* The calls of the second come after all of the first.
LEMMA Places ==
  ASSUME NEW S, NEW s \in Seq(S), NEW t \in Seq(S)
  PROVE  s \o t \in Seq(S) /\ InPlace(s \o t, s, t)
BY DEF InPlace

\* The calls of a script that is written out.
LEMMA Written1 ==
  ASSUME NEW S, NEW a \in S
  PROVE  <<a>> \in Seq(S) /\ ToSet(<<a>>) = {a}
BY DEF ToSet

\* The same for two calls.
LEMMA Written2 ==
  ASSUME NEW S, NEW a \in S, NEW b \in S
  PROVE  <<a, b>> \in Seq(S) /\ ToSet(<<a, b>>) = {a, b}
BY DEF ToSet

\* The same for three calls.
LEMMA Written3 ==
  ASSUME NEW S, NEW a \in S, NEW b \in S, NEW c \in S
  PROVE  <<a, b, c>> \in Seq(S) /\ ToSet(<<a, b, c>>) = {a, b, c}
BY DEF ToSet

\* The same for four calls.
LEMMA Written4 ==
  ASSUME NEW S, NEW a \in S, NEW b \in S, NEW c \in S, NEW d \in S
  PROVE  <<a, b, c, d>> \in Seq(S) /\ ToSet(<<a, b, c, d>>) = {a, b, c, d}
BY DEF ToSet

\* The same for five calls.
LEMMA Written5 ==
  ASSUME NEW S, NEW a \in S, NEW b \in S, NEW c \in S, NEW d \in S, NEW e \in S
  PROVE  <<a, b, c, d, e>> \in Seq(S) /\ ToSet(<<a, b, c, d, e>>) = {a, b, c, d, e}
BY DEF ToSet

\* The same for six calls.
LEMMA Written6 ==
  ASSUME NEW S, NEW a \in S, NEW b \in S, NEW c \in S, NEW d \in S, NEW e \in S, NEW f \in S
  PROVE  <<a, b, c, d, e, f>> \in Seq(S) /\ ToSet(<<a, b, c, d, e, f>>) = {a, b, c, d, e, f}
BY DEF ToSet

\* The calls of the parts of Script.
FirstCalls ==
  { <<"undercloud_and_charm_setup">>,
    <<"create_provider_network", "ext_net">>,
    <<"create_provider_subnet", "fip_service_subnet">>,
    <<"create_provider_subnet", "ext_net_subnet">>,
    <<"create_provider_router", "provider-router">>,
    <<"plug_extnet_into_router", "provider-router">>,
    <<"create_address_scope", "address_scope">>,
    <<"create_subnetpool", "subnetpool">>,
    <<"create_project_network", "private">>,
    <<"create_project_subnet", "private_subnet">>,
    <<"update_subnet_dns", "private_subnet">>,
    <<"plug_subnet_into_router", want.router, "private">>,
    <<"add_neutron_secgroup_rules", "ssh_rule">>,
    <<"add_neutron_secgroup_rules", "icmp_rule">>,
    <<"create_provider_network", "provider_vlan">>,
    <<"create_provider_subnet", "provider_vlan_subnet">>,
    <<"plug_subnet_into_router", want.router, "provider_vlan">> }

FipCalls ==
  { <<"create", "private_lb_fip_network">>, <<"create", "private_lb_fip_subnet">>,
    <<"create", "lb_fip_router">>, <<"create", "lb_fip_interface">> }

BgpCalls ==
  { <<"restart_dragent">>,
    <<"create_bgp_speaker", "bgp-speaker">>, <<"assert_speaker_added">>,
    <<"add_network_to_bgp_speaker", "ext_net">>,
    <<"add_network_to_bgp_speaker", "private">>,
    <<"create_bgp_peer", "bgp_peer">>, <<"add_peer_to_bgp_speaker">>,
    <<"create_port", "NDR_TEST_FIP">>, <<"create_floating_ip", "floating_ip">> }

Calls == FirstCalls \cup FipCalls \cup BgpCalls

\* A script that may be left out.
LEMMA Conditional ==
  ASSUME NEW S, NEW s \in Seq(S), NEW condition
  PROVE  /\ When(condition, s) \in Seq(S)
         /\ condition => When(condition, s) = s
         /\ ~condition => When(condition, s) = <<>>
<1>1. <<>> \in Seq(S)
  OBVIOUS
<1> QED
  BY <1>1 DEF When

\* What the arguments of a call are.
LEMMA Arguments ==
  ASSUME NEW call \in Calls
  PROVE  /\ call[1] = "plug_extnet_into_router" => call[2] = "provider-router"
         /\ call[1] = "plug_subnet_into_router" =>
              call[2] = want.router /\ call[3] \in {"private", "provider_vlan"}
         /\ call[1] = "add_neutron_secgroup_rules" => call[2] \in Resources
         /\ call[1] = "add_network_to_bgp_speaker" => call[2] \in {"ext_net", "private"}
<1>1. CASE call \in FirstCalls
  BY <1>1 DEF FirstCalls, Resources, Looked
<1>2. CASE call \in FipCalls
  BY <1>2 DEF FipCalls
<1>3. CASE call \in BgpCalls
  BY <1>3 DEF BgpCalls
<1> QED
  BY <1>1, <1>2, <1>3 DEF Calls

\* A script of some calls is one of more calls.
LEMMA MoreCalls ==
  ASSUME NEW S, NEW T, S \subseteq T, NEW s \in Seq(S)
  PROVE  s \in Seq(T) /\ \A i \in DOMAIN s : s[i] \in S
OBVIOUS

\* Which calls are not among the first.
LEMMA NotAmong ==
  /\ \A call \in FirstCalls :
       call[1] \notin {"create", "add_network_to_bgp_speaker", "restart_dragent",
                       "assert_speaker_added"}
  /\ \A call \in FipCalls :
       call[1] \notin {"add_network_to_bgp_speaker", "restart_dragent", "assert_speaker_added"}
<1>1. \A call \in FirstCalls :
        call[1] \notin {"create", "add_network_to_bgp_speaker", "restart_dragent",
                        "assert_speaker_added"}
  BY DEF FirstCalls
<1>2. \A call \in FipCalls :
        call[1] \notin {"add_network_to_bgp_speaker", "restart_dragent", "assert_speaker_added"}
  BY DEF FipCalls
<1> QED
  BY <1>1, <1>2

\* setup_sdn makes the networks of guests reachable.
LEMMA SdnCalls ==
  /\ SetupSdn \in Seq(FirstCalls)
  /\ { <<"plug_extnet_into_router", "provider-router">>,
       <<"update_subnet_dns", "private_subnet">>,
       <<"plug_subnet_into_router", want.router, "private">>,
       <<"add_neutron_secgroup_rules", "ssh_rule">>,
       <<"add_neutron_secgroup_rules", "icmp_rule">> } \subseteq ToSet(SetupSdn)
<1> DEFINE a == << <<"create_provider_network", "ext_net">> >>
           b == << <<"create_provider_subnet", "fip_service_subnet">> >>
           c == << <<"create_provider_subnet", "ext_net_subnet">>,
                   <<"create_provider_router", "provider-router">>,
                   <<"plug_extnet_into_router", "provider-router">> >>
           d == << <<"create_address_scope", "address_scope">>,
                   <<"create_subnetpool", "subnetpool">> >>
           e == << <<"create_project_network", "private">>,
                   <<"create_project_subnet", "private_subnet">>,
                   <<"update_subnet_dns", "private_subnet">>,
                   <<"plug_subnet_into_router", want.router, "private">>,
                   <<"add_neutron_secgroup_rules", "ssh_rule">>,
                   <<"add_neutron_secgroup_rules", "icmp_rule">> >>
<1>1. a \in Seq(FirstCalls)
  <2>1. <<"create_provider_network", "ext_net">> \in FirstCalls
    BY DEF FirstCalls
  <2> QED
    BY <2>1, Written1, Zenon
<1>2. b \in Seq(FirstCalls)
  <2>1. <<"create_provider_subnet", "fip_service_subnet">> \in FirstCalls
    BY DEF FirstCalls
  <2> QED
    BY <2>1, Written1, Zenon
<1>3. /\ c \in Seq(FirstCalls)
      /\ <<"plug_extnet_into_router", "provider-router">> \in ToSet(c)
  <2> DEFINE x == <<"create_provider_subnet", "ext_net_subnet">>
             y == <<"create_provider_router", "provider-router">>
             z == <<"plug_extnet_into_router", "provider-router">>
  <2>1. x \in FirstCalls /\ y \in FirstCalls /\ z \in FirstCalls
    BY DEF FirstCalls
  <2> HIDE DEF x, y, z
  <2>2. <<x, y, z>> \in Seq(FirstCalls) /\ z \in ToSet(<<x, y, z>>)
    BY <2>1, Written3
  <2> QED
    BY <2>2 DEF x, y, z
<1>4. d \in Seq(FirstCalls)
  <2>1. { <<"create_address_scope", "address_scope">>,
          <<"create_subnetpool", "subnetpool">> } \subseteq FirstCalls
    BY DEF FirstCalls
  <2> QED
    BY <2>1, Written2, Zenon
<1>5. /\ e \in Seq(FirstCalls)
      /\ { <<"update_subnet_dns", "private_subnet">>,
           <<"plug_subnet_into_router", want.router, "private">>,
           <<"add_neutron_secgroup_rules", "ssh_rule">>,
           <<"add_neutron_secgroup_rules", "icmp_rule">> } \subseteq ToSet(e)
  <2> DEFINE u == <<"create_project_network", "private">>
             v == <<"create_project_subnet", "private_subnet">>
             w == <<"update_subnet_dns", "private_subnet">>
             x == <<"plug_subnet_into_router", want.router, "private">>
             y == <<"add_neutron_secgroup_rules", "ssh_rule">>
             z == <<"add_neutron_secgroup_rules", "icmp_rule">>
  <2>1. /\ u \in FirstCalls /\ v \in FirstCalls /\ w \in FirstCalls
        /\ x \in FirstCalls /\ y \in FirstCalls /\ z \in FirstCalls
    BY DEF FirstCalls
  <2> HIDE DEF u, v, w, x, y, z
  <2>2. /\ <<u, v, w, x, y, z>> \in Seq(FirstCalls)
        /\ ToSet(<<u, v, w, x, y, z>>) = {u, v, w, x, y, z}
    BY <2>1, Written6
  <2>3. {w, x, y, z} \subseteq ToSet(<<u, v, w, x, y, z>>)
    BY <2>2
  <2> QED
    BY <2>2, <2>3, Zenon DEF u, v, w, x, y, z
<1> DEFINE wb == When(want.fip, b)
           wd == When(want.pool, d)
           ab == a \o wb
           abc == ab \o c
           abcd == abc \o wd
<1>6. SetupSdn = abcd \o e
  BY DEF SetupSdn
<1> HIDE DEF a, b, c, d, e
<1>7. wb \in Seq(FirstCalls) /\ wd \in Seq(FirstCalls)
  BY <1>2, <1>4, Conditional
<1> HIDE DEF wb, wd
<1>8. ab \in Seq(FirstCalls)
  BY <1>1, <1>7, Concatenated
<1> HIDE DEF ab
<1>9. abc \in Seq(FirstCalls) /\ ToSet(c) \subseteq ToSet(abc)
  BY <1>3, <1>8, Concatenated
<1> HIDE DEF abc
<1>10. abcd \in Seq(FirstCalls) /\ ToSet(abc) \subseteq ToSet(abcd)
  BY <1>7, <1>9, Concatenated
<1> HIDE DEF abcd
<1>11. SetupSdn \in Seq(FirstCalls) /\ ToSet(SetupSdn) = ToSet(abcd) \cup ToSet(e)
  BY <1>5, <1>6, <1>10, Concatenated
<1> QED
  BY <1>3, <1>5, <1>9, <1>10, <1>11

\* setup_sdn_provider_vlan plugs its subnet in.
LEMMA VlanCalls ==
  /\ SetupSdnProviderVlan \in Seq(FirstCalls)
  /\ <<"plug_subnet_into_router", want.router, "provider_vlan">> \in ToSet(SetupSdnProviderVlan)
<1> DEFINE v == <<"create_provider_network", "provider_vlan">>
           w == <<"create_provider_subnet", "provider_vlan_subnet">>
           x == <<"plug_subnet_into_router", want.router, "provider_vlan">>
           y == <<"add_neutron_secgroup_rules", "ssh_rule">>
           z == <<"add_neutron_secgroup_rules", "icmp_rule">>
<1>1. /\ v \in FirstCalls /\ w \in FirstCalls /\ x \in FirstCalls
      /\ y \in FirstCalls /\ z \in FirstCalls
  BY DEF FirstCalls
<1>2. SetupSdnProviderVlan = <<v, w, x, y, z>>
  BY DEF SetupSdnProviderVlan
<1> HIDE DEF v, w, x, y, z
<1>3. <<v, w, x, y, z>> \in Seq(FirstCalls) /\ x \in ToSet(<<v, w, x, y, z>>)
  BY <1>1, Written5
<1> QED
  BY <1>2, <1>3, Zenon DEF v, w, x, y, z

\* centralized_fip_network only creates.
LEMMA FipNetworkCalls == CentralizedFipNetwork \in Seq(FipCalls)
<1> DEFINE w == <<"create", "private_lb_fip_network">>
           x == <<"create", "private_lb_fip_subnet">>
           y == <<"create", "lb_fip_router">>
           z == <<"create", "lb_fip_interface">>
<1>1. w \in FipCalls /\ x \in FipCalls /\ y \in FipCalls /\ z \in FipCalls
  BY DEF FipCalls
<1>2. CentralizedFipNetwork = <<w, x, y, z>>
  BY DEF CentralizedFipNetwork
<1> HIDE DEF w, x, y, z
<1>3. <<w, x, y, z>> \in Seq(FipCalls)
  BY <1>1, Written4
<1> QED
  BY <1>2, <1>3

\* The BGP setup restarts the agent first of all, and adds the networks after it has
\* seen the speaker.
LEMMA SpeakerCalls ==
  /\ DragentSetup \in Seq(BgpCalls)
  /\ { <<"add_network_to_bgp_speaker", "ext_net">>,
       <<"add_network_to_bgp_speaker", "private">>,
       <<"add_peer_to_bgp_speaker">> } \subseteq ToSet(DragentSetup)
  /\ \A i \in DOMAIN DragentSetup :
       DragentSetup[i][1] = "add_network_to_bgp_speaker" => i > 3
  /\ 3 \in DOMAIN DragentSetup /\ DragentSetup[3] = <<"assert_speaker_added">>
  /\ \A i \in DOMAIN DragentSetup : DragentSetup[i][1] = "restart_dragent" => i = 1
<1> DEFINE r == <<"restart_dragent">>
           s == <<"create_bgp_speaker", "bgp-speaker">>
           t == <<"assert_speaker_added">>
           u == <<"add_network_to_bgp_speaker", "ext_net">>
           v == <<"add_network_to_bgp_speaker", "private">>
           w == <<"create_bgp_peer", "bgp_peer">>
           x == <<"add_peer_to_bgp_speaker">>
           y == <<"create_port", "NDR_TEST_FIP">>
           z == <<"create_floating_ip", "floating_ip">>
           rest == <<s, t, u, v, w, x, y, z>>
           one == <<r>>
<1>1. /\ r \in BgpCalls /\ s \in BgpCalls /\ t \in BgpCalls /\ u \in BgpCalls /\ v \in BgpCalls
      /\ w \in BgpCalls /\ x \in BgpCalls /\ y \in BgpCalls /\ z \in BgpCalls
  BY DEF BgpCalls
<1>2. /\ r[1] # "add_network_to_bgp_speaker"
      /\ s[1] # "add_network_to_bgp_speaker" /\ t[1] # "add_network_to_bgp_speaker"
  OBVIOUS
<1>3. /\ s[1] # "restart_dragent" /\ t[1] # "restart_dragent" /\ u[1] # "restart_dragent"
      /\ v[1] # "restart_dragent" /\ w[1] # "restart_dragent" /\ x[1] # "restart_dragent"
      /\ y[1] # "restart_dragent" /\ z[1] # "restart_dragent"
  OBVIOUS
<1>5. DragentSetup = one \o rest
  BY DEF DragentSetup, SetupBgpSpeaker
<1> HIDE DEF r, s, t, u, v, w, x, y, z
<1>4. /\ rest \in Seq(BgpCalls) /\ Len(rest) = 8
      /\ rest[1] = s /\ rest[2] = t /\ rest[3] = u /\ rest[4] = v /\ rest[5] = w
      /\ rest[6] = x /\ rest[7] = y /\ rest[8] = z
  BY <1>1
<1>14. one \in Seq(BgpCalls) /\ Len(one) = 1 /\ one[1] = r
  BY <1>1
<1> HIDE DEF rest, one
<1>15. DragentSetup \in Seq(BgpCalls) /\ InPlace(DragentSetup, one, rest)
  <2>1. one \in Seq(BgpCalls)
    BY <1>14
  <2>2. rest \in Seq(BgpCalls)
    BY <1>4
  <2> QED
    BY <1>5, <2>1, <2>2, Places
<1> DEFINE all == DragentSetup
<1> HIDE DEF all
<1>16. DragentSetup = all
  BY DEF all
<1>17. Len(all) = 9 /\ all[1] = r /\ \A i \in 1..8 : all[1 + i] = rest[i]
  <2>1. /\ Len(all) = Len(one) + Len(rest)
        /\ \A i \in 1..Len(one) : all[i] = one[i]
        /\ \A i \in 1..Len(rest) : all[Len(one) + i] = rest[i]
    BY <1>15 DEF InPlace, all
  <2> QED
    BY <1>4, <1>14, <2>1
<1>6. all \in Seq(BgpCalls) /\ DOMAIN all = 1..9
  BY <1>15, <1>17 DEF all
<1>7. /\ all[1] = r /\ all[2] = s /\ all[3] = t /\ all[4] = u /\ all[5] = v /\ all[6] = w
      /\ all[7] = x /\ all[8] = y /\ all[9] = z
  <2>1. /\ all[1 + 1] = rest[1] /\ all[1 + 2] = rest[2] /\ all[1 + 3] = rest[3]
        /\ all[1 + 4] = rest[4] /\ all[1 + 5] = rest[5] /\ all[1 + 6] = rest[6]
        /\ all[1 + 7] = rest[7] /\ all[1 + 8] = rest[8]
    BY <1>17
  <2> QED
    BY <1>4, <1>17, <2>1
<1>8. u \in ToSet(all) /\ v \in ToSet(all) /\ x \in ToSet(all)
  BY <1>6, <1>7 DEF ToSet
<1>9. \A i \in DOMAIN all : all[i][1] = "add_network_to_bgp_speaker" => i > 3
  BY <1>2, <1>6, <1>7
<1>10. 3 \in DOMAIN all
  BY <1>6
<1>11. all[3] = <<"assert_speaker_added">>
  BY <1>7 DEF t
<1>12. { <<"add_network_to_bgp_speaker", "ext_net">>,
         <<"add_network_to_bgp_speaker", "private">>,
         <<"add_peer_to_bgp_speaker">> } \subseteq ToSet(all)
  BY <1>8, Zenon DEF u, v, x
<1>13. \A i \in DOMAIN all : all[i][1] = "restart_dragent" => i = 1
  BY <1>3, <1>6, <1>7
<1> QED
  BY <1>6, <1>9, <1>10, <1>11, <1>12, <1>13, <1>16, Zenon

\* All calls of Script, those it always has and the order of the three pairs that
\* matter: the provider router has its gateway before the router of the load
\* balancers, the speaker is seen before networks are added to it, and the agent is
\* not restarted after that.
LEMMA ScriptCalls ==
  /\ Script \in Seq(Calls)
  /\ { <<"plug_extnet_into_router", "provider-router">>,
       <<"update_subnet_dns", "private_subnet">>,
       <<"plug_subnet_into_router", want.router, "private">>,
       <<"add_neutron_secgroup_rules", "ssh_rule">>,
       <<"add_neutron_secgroup_rules", "icmp_rule">> } \subseteq ToSet(Script)
  /\ want.vlan =>
       <<"plug_subnet_into_router", want.router, "provider_vlan">> \in ToSet(Script)
  /\ want.bgp =>
       { <<"add_network_to_bgp_speaker", "ext_net">>,
         <<"add_network_to_bgp_speaker", "private">>,
         <<"add_peer_to_bgp_speaker">> } \subseteq ToSet(Script)
  /\ \A i \in DOMAIN Script : Script[i][1] = "create" =>
       \E j \in 1..(i - 1) : Script[j] = <<"plug_extnet_into_router", "provider-router">>
  /\ \A i \in DOMAIN Script : Script[i][1] = "add_network_to_bgp_speaker" =>
       \E j \in 1..(i - 1) : Script[j] = <<"assert_speaker_added">>
  /\ \A i \in DOMAIN Script : Script[i][1] = "restart_dragent" =>
       \A j \in 1..(i - 1) : Script[j][1] # "assert_speaker_added"
<1> DEFINE first == << <<"undercloud_and_charm_setup">> >>
           vlan == When(want.vlan, SetupSdnProviderVlan)
           fip == When(want.octavia /\ DvrEnabled, CentralizedFipNetwork)
           bgp == When(want.bgp, DragentSetup)
           sdn == first \o SetupSdn
           guests == sdn \o vlan
           most == guests \o fip
           plug == <<"plug_extnet_into_router", "provider-router">>
           Early == FirstCalls \cup FipCalls
<1>1. first \in Seq(FirstCalls)
  <2>1. <<"undercloud_and_charm_setup">> \in FirstCalls
    BY DEF FirstCalls
  <2> QED
    BY <2>1, Written1, Zenon
<1>2. vlan \in Seq(FirstCalls) /\ (want.vlan => vlan = SetupSdnProviderVlan)
  BY VlanCalls, Conditional
<1>3. fip \in Seq(FipCalls)
  BY FipNetworkCalls, Conditional
<1>4. /\ bgp \in Seq(BgpCalls)
      /\ want.bgp => bgp = DragentSetup
      /\ ~want.bgp => bgp = <<>>
  BY SpeakerCalls, Conditional
<1>5. Script = most \o bgp
  BY DEF Script
<1> HIDE DEF first, vlan, fip, bgp
<1>6. sdn \in Seq(FirstCalls) /\ ToSet(SetupSdn) \subseteq ToSet(sdn)
  BY <1>1, SdnCalls, Concatenated
<1> HIDE DEF sdn
<1>7. /\ guests \in Seq(FirstCalls)
      /\ ToSet(sdn) \subseteq ToSet(guests) /\ ToSet(vlan) \subseteq ToSet(guests)
  BY <1>2, <1>6, Concatenated
<1> HIDE DEF guests
<1>8. guests \in Seq(Early) /\ fip \in Seq(Early)
  BY <1>3, <1>7, MoreCalls
<1>9. most \in Seq(Early) /\ ToSet(guests) \subseteq ToSet(most)
  BY <1>8, Concatenated
<1>10. plug \in ToSet(guests)
  BY <1>6, <1>7, SdnCalls
<1> HIDE DEF plug
<1>11. ASSUME NEW i \in DOMAIN most, most[i][1] = "create"
       PROVE  \E j \in 1..(i - 1) : most[j] = plug
  <2>1. i \notin DOMAIN guests
    <3>1. ASSUME i \in DOMAIN guests PROVE FALSE
      <4>1. most[i] = guests[i]
        BY <1>8, <1>11, <3>1, ComesAfter
      <4>2. guests[i] \in FirstCalls
        BY <1>7, <3>1
      <4> QED
        BY <1>11, <4>1, <4>2, NotAmong
    <3> QED
      BY <3>1
  <2>2. i \in DOMAIN (guests \o fip)
    OBVIOUS
  <2>3. \A c \in ToSet(guests) : \E j \in 1..(i - 1) : (guests \o fip)[j] = c
    BY <1>8, <2>1, <2>2, ComesAfter
  <2> QED
    BY <1>10, <2>3
<1> HIDE DEF most
<1>12. most \in Seq(Calls) /\ bgp \in Seq(Calls)
  <2>1. Early \subseteq Calls /\ BgpCalls \subseteq Calls
    BY DEF Calls
  <2> QED
    BY <1>4, <1>9, <2>1, MoreCalls
<1>13. /\ Script \in Seq(Calls)
       /\ ToSet(most) \subseteq ToSet(Script) /\ ToSet(bgp) \subseteq ToSet(Script)
  BY <1>5, <1>12, Concatenated
<1>14. ToSet(SetupSdn) \subseteq ToSet(Script)
  BY <1>6, <1>7, <1>9, <1>13
<1>15. ToSet(vlan) \subseteq ToSet(Script)
  BY <1>7, <1>9, <1>13
<1>16. ASSUME NEW i \in DOMAIN Script, Script[i][1] = "create"
       PROVE  \E j \in 1..(i - 1) : Script[j] = plug
  <2>1. CASE i \in DOMAIN most
    <3>1. Script[i] = most[i]
      BY <1>5, <1>12, <2>1, ComesAfter
    <3>2. PICK j \in 1..(i - 1) : most[j] = plug
      BY <1>11, <1>16, <2>1, <3>1
    <3>3. j \in DOMAIN most /\ j \in DOMAIN Script
      BY <1>12, <1>13, <2>1
    <3>4. Script[j] = most[j]
      BY <1>5, <1>12, <3>3, ComesAfter
    <3> QED
      BY <3>2, <3>4
  <2>2. CASE i \notin DOMAIN most
    <3>1. plug \in ToSet(most)
      BY <1>9, <1>10
    <3> QED
      BY <1>5, <1>12, <2>2, <3>1, ComesAfter
  <2> QED
    BY <2>1, <2>2
<1> DEFINE n == Len(most)
<1>17. ASSUME NEW i \in DOMAIN Script,
              Script[i][1] \in {"add_network_to_bgp_speaker", "restart_dragent"}
       PROVE  /\ i \notin DOMAIN most /\ i - n \in DOMAIN bgp /\ Script[i] = bgp[i - n]
              /\ want.bgp /\ bgp = DragentSetup
  <2>1. i \notin DOMAIN most
    <3>1. ASSUME i \in DOMAIN most PROVE FALSE
      <4>1. Script[i] = most[i]
        BY <1>5, <1>12, <3>1, ComesAfter
      <4>2. most[i] \in Early
        BY <1>9, <3>1
      <4> QED
        BY <1>17, <4>1, <4>2, NotAmong
    <3> QED
      BY <3>1
  <2>2. i - n \in DOMAIN bgp /\ Script[i] = bgp[i - n]
    BY <1>5, <1>12, <2>1, ComesAfter
  <2>3. want.bgp /\ bgp = DragentSetup
    BY <1>4, <2>2
  <2> QED
    BY <2>1, <2>2, <2>3
<1>21. ASSUME NEW i \in DOMAIN Script, Script[i][1] = "add_network_to_bgp_speaker"
       PROVE  \E j \in 1..(i - 1) : Script[j] = <<"assert_speaker_added">>
  <2>1. /\ i \notin DOMAIN most /\ i - n \in DOMAIN bgp /\ Script[i] = bgp[i - n]
        /\ want.bgp /\ bgp = DragentSetup
    BY <1>17, <1>21
  <2>2. i - n > 3
    BY <1>21, <2>1, SpeakerCalls
  <2>3. n + 3 \in DOMAIN Script /\ n + 3 \notin DOMAIN most /\ n + 3 \in 1..(i - 1)
    BY <1>12, <1>13, <2>2
  <2>4. Script[n + 3] = bgp[(n + 3) - n]
    BY <1>5, <1>12, <2>3, ComesAfter
  <2>5. (n + 3) - n = 3
    BY <1>12
  <2> QED
    BY <2>1, <2>3, <2>4, <2>5, SpeakerCalls
<1>22. ASSUME NEW i \in DOMAIN Script, Script[i][1] = "restart_dragent", NEW j \in 1..(i - 1)
       PROVE  Script[j][1] # "assert_speaker_added"
  <2>1. /\ i - n \in DOMAIN bgp /\ Script[i] = bgp[i - n] /\ bgp = DragentSetup
    BY <1>17, <1>22
  <2>2. i - n = 1
    BY <1>22, <2>1, SpeakerCalls
  <2>6. n \in Nat /\ DOMAIN most = 1..n /\ i \in Nat /\ DOMAIN Script = 1..Len(Script)
    BY <1>12, <1>13
  <2>7. i = n + 1
    BY <2>2, <2>6
  <2>3. j \in DOMAIN most /\ j \in DOMAIN Script
    BY <1>13, <2>6, <2>7
  <2>4. Script[j] = most[j]
    BY <1>5, <1>12, <2>3, ComesAfter
  <2>5. most[j] \in Early
    BY <1>9, <2>3
  <2> QED
    BY <2>4, <2>5, NotAmong
<1>18. want.vlan =>
         <<"plug_subnet_into_router", want.router, "provider_vlan">> \in ToSet(Script)
  BY <1>2, <1>15, VlanCalls
<1>19. want.bgp =>
         { <<"add_network_to_bgp_speaker", "ext_net">>,
           <<"add_network_to_bgp_speaker", "private">>,
           <<"add_peer_to_bgp_speaker">> } \subseteq ToSet(Script)
  BY <1>4, <1>13, SpeakerCalls
<1>20. { <<"plug_extnet_into_router", "provider-router">>,
         <<"update_subnet_dns", "private_subnet">>,
         <<"plug_subnet_into_router", want.router, "private">>,
         <<"add_neutron_secgroup_rules", "ssh_rule">>,
         <<"add_neutron_secgroup_rules", "icmp_rule">> } \subseteq ToSet(Script)
  BY <1>14, SdnCalls, Zenon
<1> QED
  BY <1>13, <1>16, <1>18, <1>19, <1>20, <1>21, <1>22, Zenon DEF plug

-----------------------------------------------------------------------------
(* Every step keeps ScriptInv *)

\* An effect stays as long as nothing is taken away.
LEMMA EffectStays ==
  ASSUME NEW call, NEW l, NEW h, NEW p, NEW m, NEW l2, NEW h2, NEW p2, NEW m2,
         Effect(call, l, h, p, m),
         l \subseteq l2, m \subseteq m2,
         call[1] = "assert_speaker_added" => (p => p2),
         h \in [Resources -> Nat], h2 \in [Resources -> Nat],
         \A r \in Resources : h[r] <= h2[r],
         call[1] = "add_neutron_secgroup_rules" => call[2] \in Resources
  PROVE  Effect(call, l2, h2, p2, m2)
<1>1. call[1] = "add_neutron_secgroup_rules" => h2[call[2]] > 0
  BY DEF Effect
<1> QED
  BY <1>1 DEF Effect

\* No step takes anything away, but for the restart that takes the agent's speaker.
LEMMA NothingTaken ==
  ASSUME OneOfName, [Next]_vars
  PROVE  /\ links \subseteq links' /\ mishaps \subseteq mishaps'
         /\ scheduled => scheduled' \/ Calling("restart_dragent")
         /\ \A r \in Resources : have[r] <= have'[r]
         /\ want' = want
<1>1. CASE NeutronCalls
  <2>1. /\ links' = links /\ scheduled' = scheduled /\ mishaps' = mishaps /\ want' = want
        /\ GetOrCreate(Arg)
    BY <1>1 DEF NeutronCalls, CreateProviderNetwork, CreateProviderSubnet,
       CreateProviderRouter,
       CreateAddressScope, CreateSubnetpool, CreateProjectNetwork, CreateProjectSubnet,
       CreateBgpSpeaker, CreateBgpPeer, CreatePort, CreateFloatingIp, AddNeutronSecgroupRules, Make
  <2>2. have' = have \/ have' = [have EXCEPT ![Arg] = @ + 1]
    BY <2>1 DEF GetOrCreate, CreateAnyway
  <2>3. \A r \in Resources : have[r] <= have'[r]
    BY <2>2 DEF OneOfName
  <2> QED
    BY <2>1, <2>3
<1>2. CASE CentralizedFip
  <2>1. have' = [have EXCEPT ![Arg] = @ + 1]
    BY <1>2 DEF CentralizedFip, CreateAnyway
  <2>2. \A r \in Resources : have[r] <= have'[r]
    BY <2>1 DEF OneOfName
  <2> QED
    BY <1>2, <2>2 DEF CentralizedFip
<1>3. CASE GNext /\ UNCHANGED <<want, overcloud>>
  <2>1. mishaps \subseteq mishaps'
    BY <1>3 DEF GNext, UndercloudAndCharmSetup, OnMaas, OnLxd, LxdDone, SkipMachine,
       CreateExtPort, InterfaceAttach, NicAppears, AddInterfaceToNetplan, PortsDone,
       SkipCharms, SetApplicationConfig, ModelSettled, GFail
  <2> QED
    BY <1>3, <2>1 DEF OneOfName
<1>4. CASE CharmSetup
  BY <1>3, <1>4 DEF CharmSetup, OneOfName
<1>5. CASE PlugExtnetIntoRouter \/ PlugSubnetIntoRouter \/ UpdateSubnetDns
           \/ AddPeerToBgpSpeaker \/ AddNetworkToBgpSpeaker
  BY <1>5 DEF PlugExtnetIntoRouter, PlugSubnetIntoRouter, UpdateSubnetDns,
     AddPeerToBgpSpeaker, AddNetworkToBgpSpeaker, Link, OneOfName
<1>6. CASE RestartDragent \/ SpeakerScheduled \/ AssertSpeakerAdded \/ Fail \/ Finish \/ Rerun
           \/ Terminated \/ UNCHANGED vars
  BY <1>6 DEF RestartDragent, SpeakerScheduled, AssertSpeakerAdded, Fail, Finish, Rerun,
     Terminated, vars, OneOfName
<1> QED
  BY <1>1, <1>2, <1>4, <1>5, <1>6 DEF Next, NeutronCalls

\* The script of a run stays the same.
LEMMA ScriptFixed ==
  ASSUME want' = want, deploy' = deploy
  PROVE  Script' = Script
BY DEF Script, SetupSdn, SetupSdnProviderVlan, CentralizedFipNetwork, DragentSetup,
       SetupBgpSpeaker, When, DvrEnabled

\* What is known of the call the configuration is at.
LEMMA AtCall ==
  ASSUME ScriptInv, NEW function, Calling(function)
  PROVE  /\ at \in DOMAIN Script /\ Script[at] \in Calls /\ Script[at][1] = function
         /\ at <= Len(Script)
<1>1. Script \in Seq(Calls)
  BY ScriptCalls
<1>2. at \in DOMAIN Script
  BY <1>1 DEF ScriptInv, PassedInv, Calling
<1> QED
  BY <1>1, <1>2 DEF Calling

\* The index of the call moves on by one or starts again.
LEMMA PassedStep ==
  ASSUME ScriptInv, [Next]_vars,
         \/ at' = at /\ (status' = "done" => at = Len(Script) + 1)
         \/ at' = 1 /\ status' # "done"
         \/ /\ at' = at + 1 /\ at <= Len(Script) /\ status' # "done"
            /\ Effect(Script[at], links', have', scheduled', mishaps')
  PROVE  PassedInv'
<1>1. Script' = Script
  BY ScriptFixed, DeployFixed, NothingTaken DEF ScriptInv
<1>2. Script \in Seq(Calls) /\ Len(Script) \in Nat
  BY ScriptCalls
<1>3. /\ at \in Nat /\ 1 <= at /\ at <= Len(Script) + 1
      /\ \A i \in 1..(at - 1) : Effect(Script[i], links, have, scheduled, mishaps)
  BY DEF ScriptInv, PassedInv
<1>4. \A i \in 1..(at - 1) : Effect(Script[i], links', have', scheduled', mishaps')
  <2> SUFFICES ASSUME NEW i \in 1..(at - 1)
               PROVE  Effect(Script[i], links', have', scheduled', mishaps')
    OBVIOUS
  <2>1. Script[i] \in Calls
    BY <1>2, <1>3
  <2>2. Script[i][1] = "add_neutron_secgroup_rules" => Script[i][2] \in Resources
    BY <2>1, Arguments
  <2>3. have \in [Resources -> Nat] /\ have' \in [Resources -> Nat]
    BY OneOfNameStep DEF ScriptInv, OneOfName
  <2>4. /\ links \subseteq links' /\ mishaps \subseteq mishaps'
        /\ scheduled => scheduled' \/ Calling("restart_dragent")
        /\ \A r \in Resources : have[r] <= have'[r]
    BY NothingTaken DEF ScriptInv
  <2>5. Effect(Script[i], links, have, scheduled, mishaps)
    BY <1>3
  <2>6. Calling("restart_dragent") => Script[i][1] # "assert_speaker_added"
    BY AtCall, ScriptCalls
  <2> QED
    BY <2>2, <2>3, <2>4, <2>5, <2>6, EffectStays
<1>5. CASE at' = at /\ (status' = "done" => at = Len(Script) + 1)
  BY <1>1, <1>3, <1>4, <1>5 DEF PassedInv
<1>6. CASE at' = 1 /\ status' # "done"
  BY <1>1, <1>2, <1>6 DEF PassedInv
<1>7. CASE /\ at' = at + 1 /\ at <= Len(Script) /\ status' # "done"
           /\ Effect(Script[at], links', have', scheduled', mishaps')
  <2>1. \A i \in 1..(at' - 1) : i \in 1..(at - 1) \/ i = at
    BY <1>3, <1>7
  <2>2. \A i \in 1..(at' - 1) : Effect(Script[i], links', have', scheduled', mishaps')
    BY <1>4, <1>7, <2>1
  <2> QED
    BY <1>1, <1>2, <1>3, <1>7, <2>2 DEF PassedInv
<1> QED
  BY <1>5, <1>6, <1>7

\* Calls without an effect the invariant speaks of.
LEMMA PlainCall ==
  ASSUME NEW call, NEW l, NEW h, NEW p, NEW m,
         call[1] \notin {"plug_extnet_into_router", "plug_subnet_into_router",
                         "update_subnet_dns", "add_neutron_secgroup_rules",
                         "assert_speaker_added", "add_network_to_bgp_speaker",
                         "add_peer_to_bgp_speaker"}
  PROVE  Effect(call, l, h, p, m)
BY DEF Effect

\* What the order of the calls gives: a gateway on the external network before the
\* router of the load balancers, and the speaker before its networks.
LEMMA EarlierCall ==
  ASSUME ScriptInv
  PROVE  /\ Calling("create") => <<"gateway", "provider-router">> \in links
         /\ Calling("add_network_to_bgp_speaker") => scheduled \/ "stale_line" \in mishaps
<1>1. \A i \in 1..(at - 1) : Effect(Script[i], links, have, scheduled, mishaps)
  BY DEF ScriptInv, PassedInv
<1>2. ASSUME Calling("create") PROVE <<"gateway", "provider-router">> \in links
  <2>1. at \in DOMAIN Script /\ Script[at][1] = "create"
    BY <1>2, AtCall
  <2>2. PICK j \in 1..(at - 1) : Script[j] = <<"plug_extnet_into_router", "provider-router">>
    BY <2>1, ScriptCalls
  <2>3. Effect(Script[j], links, have, scheduled, mishaps)
    BY <1>1
  <2>4. Script[j][1] = "plug_extnet_into_router"
    BY <2>2
  <2> QED
    BY <2>3, <2>4 DEF Effect
<1>3. ASSUME Calling("add_network_to_bgp_speaker") PROVE scheduled \/ "stale_line" \in mishaps
  <2>1. at \in DOMAIN Script /\ Script[at][1] = "add_network_to_bgp_speaker"
    BY <1>3, AtCall
  <2>2. PICK j \in 1..(at - 1) : Script[j] = <<"assert_speaker_added">>
    BY <2>1, ScriptCalls
  <2>3. Effect(Script[j], links, have, scheduled, mishaps)
    BY <1>1
  <2>4. Script[j][1] = "assert_speaker_added"
    BY <2>2
  <2> QED
    BY <2>3, <2>4 DEF Effect
<1> QED
  BY <1>2, <1>3

\* The calls that connect something.
LEMMA LinkSteps ==
  ASSUME ScriptInv, [Next]_vars,
         \/ PlugExtnetIntoRouter \/ PlugSubnetIntoRouter \/ UpdateSubnetDns
         \/ CentralizedFip \/ AddNetworkToBgpSpeaker \/ AddPeerToBgpSpeaker
  PROVE  LinksInv' /\ PassedInv'
<1>0. /\ want.router \in {"provider-router", "other-router"} /\ LinksInv
      /\ mishaps \subseteq mishaps'
  BY RequestsAssumption, NothingTaken DEF ScriptInv, RequestType
<1>1. CASE PlugExtnetIntoRouter
  <2>1. Script[at] \in Calls /\ Script[at][1] = "plug_extnet_into_router" /\ at <= Len(Script)
    BY <1>1, AtCall DEF PlugExtnetIntoRouter
  <2>2. Arg = "provider-router" /\ Arg \in Resources
    BY <2>1, Arguments DEF Arg, Resources, Looked
  <2>3. /\ <<"gateway", "provider-router">> \in links'
        /\ links' \in {links, links \cup {<<"gateway", "provider-router">>}}
    BY <1>0, <1>1, <2>2 DEF PlugExtnetIntoRouter, Link, LinksInv
  <2>4. LinksInv'
    BY <1>0, <2>3 DEF LinksInv
  <2>5. Effect(Script[at], links', have', scheduled', mishaps')
    BY <2>1, <2>3 DEF Effect
  <2>6. (at' = at /\ status' = "raised") \/ (at' = at + 1 /\ status' = "running")
    BY <1>1 DEF PlugExtnetIntoRouter, Link, Calling
  <2> QED
    BY <2>1, <2>4, <2>5, <2>6, PassedStep
<1>2. CASE PlugSubnetIntoRouter
  <2> DEFINE net == Script[at][3]
  <2>1. Script[at] \in Calls /\ Script[at][1] = "plug_subnet_into_router" /\ at <= Len(Script)
    BY <1>2, AtCall DEF PlugSubnetIntoRouter
  <2>2. Script[at][2] = want.router /\ net \in {"private", "provider_vlan"}
    BY <2>1, Arguments
  <2>3. "other-router" \notin Resources
    BY DEF Resources, Looked, LbFip
  <2>4. \/ links' = links /\ at' = at /\ status' = "raised"
        \/ /\ want.router = "provider-router"
           /\ <<"interface", "provider-router", net>> \in links'
           /\ links' \in {links, links \cup {<<"interface", "provider-router", net>>}}
           /\ (at' = at /\ status' = "raised") \/ (at' = at + 1 /\ status' = "running")
    <3> HIDE DEF net
    <3>1. CASE want.router \notin Resources
      BY <1>2, <2>2, <3>1 DEF PlugSubnetIntoRouter
    <3>2. CASE want.router \in Resources
      <4>1. want.router = "provider-router"
        BY <1>0, <2>3, <3>2
      <4>2. IF InterfacePort(net) THEN Return /\ UNCHANGED links
                                  ELSE Link(<<"interface", "provider-router", net>>)
        BY <1>2, <2>2, <3>2, <4>1 DEF PlugSubnetIntoRouter, net
      <4>3. InterfacePort(net) => <<"interface", "provider-router", net>> \in links
        BY <1>0, <2>2 DEF InterfacePort, LinksInv
      <4>4. status = "running"
        BY <1>2 DEF PlugSubnetIntoRouter, Calling
      <4> QED
        BY <4>1, <4>2, <4>3, <4>4 DEF Link
    <3> QED
      BY <3>1, <3>2
  <2>5. LinksInv'
    BY <1>0, <2>2, <2>4 DEF LinksInv
  <2>6. at' # at => Effect(Script[at], links', have', scheduled', mishaps')
    BY <2>1, <2>4 DEF Effect
  <2> QED
    BY <2>1, <2>4, <2>5, <2>6, PassedStep DEF ScriptInv, PassedInv
<1>3. CASE UpdateSubnetDns
  <2>1. Script[at] \in Calls /\ Script[at][1] = "update_subnet_dns" /\ at <= Len(Script)
    BY <1>3, AtCall DEF UpdateSubnetDns
  <2>2. links' = links \cup {<<"dns", Script[at][2]>>}
    BY <1>3 DEF UpdateSubnetDns, Link, Arg
  <2>3. LinksInv'
    BY <1>0, <2>2 DEF LinksInv
  <2>4. Effect(Script[at], links', have', scheduled', mishaps')
    BY <2>1, <2>2 DEF Effect
  <2>5. (at' = at /\ status' = "raised") \/ (at' = at + 1 /\ status' = "running")
    BY <1>3 DEF UpdateSubnetDns, Link, Calling
  <2> QED
    BY <2>1, <2>3, <2>4, <2>5, PassedStep
<1>4. CASE CentralizedFip
  <2>1. Script[at][1] = "create" /\ at <= Len(Script)
    BY <1>4, AtCall DEF CentralizedFip
  <2>2. <<"gateway", "provider-router">> \in links
    BY <1>4, EarlierCall DEF CentralizedFip
  <2>3. links' = links \/ links' = links \cup {<<"gateway", Arg>>}
    BY <1>4 DEF CentralizedFip
  <2>4. LinksInv'
    BY <1>0, <2>2, <2>3 DEF LinksInv
  <2>5. Effect(Script[at], links', have', scheduled', mishaps')
    BY <2>1, PlainCall
  <2>6. (at' = at /\ status' = "raised") \/ (at' = at + 1 /\ status' = "running")
    BY <1>4 DEF CentralizedFip, CreateAnyway, Calling
  <2> QED
    BY <2>1, <2>4, <2>5, <2>6, PassedStep
<1>5. CASE AddNetworkToBgpSpeaker
  <2>1. /\ Script[at] \in Calls /\ Script[at][1] = "add_network_to_bgp_speaker"
        /\ at <= Len(Script)
    BY <1>5, AtCall DEF AddNetworkToBgpSpeaker
  <2>2. scheduled \/ "stale_line" \in mishaps
    BY <1>5, EarlierCall DEF AddNetworkToBgpSpeaker
  <2>3. Arg \in {"ext_net", "private"} /\ Arg = Script[at][2]
    BY <2>1, Arguments DEF Arg
  <2> HIDE DEF Arg
  <2>4. /\ \/ links' = links \cup {<<"advertised", Arg>>, <<"taken_up", Arg>>}
           \/ /\ links' = links \cup {<<"advertised", Arg>>}
              /\ "stale_line" \in mishaps
           \/ /\ links' = links
              /\ \/ "server_error" \in mishaps' \/ "stale_line" \in mishaps
                 \/ <<"taken_up", Arg>> \in links
        /\ mishaps \subseteq mishaps'
    BY <1>0, <1>5, <2>2, <2>3 DEF AddNetworkToBgpSpeaker, LinksInv
  <2>5. LinksInv'
    BY <1>0, <2>4 DEF LinksInv
  <2>6. Effect(Script[at], links', have', scheduled', mishaps')
    BY <2>1, <2>3, <2>4 DEF Effect
  <2>7. (at' = at /\ status' = "raised") \/ (at' = at + 1 /\ status' = "running")
    BY <1>5 DEF AddNetworkToBgpSpeaker, Calling
  <2> QED
    BY <2>1, <2>5, <2>6, <2>7, PassedStep
<1>6. CASE AddPeerToBgpSpeaker
  <2>1. Script[at][1] = "add_peer_to_bgp_speaker" /\ at <= Len(Script)
    BY <1>6, AtCall DEF AddPeerToBgpSpeaker
  <2>2. links' = links \cup {<<"peer", "bgp-speaker">>}
    BY <1>6 DEF AddPeerToBgpSpeaker, Link
  <2>3. LinksInv'
    BY <1>0, <2>2 DEF LinksInv
  <2>4. Effect(Script[at], links', have', scheduled', mishaps')
    BY <2>1, <2>2 DEF Effect
  <2>5. (at' = at /\ status' = "raised") \/ (at' = at + 1 /\ status' = "running")
    BY <1>6 DEF AddPeerToBgpSpeaker, Link, Calling
  <2> QED
    BY <2>1, <2>3, <2>4, <2>5, PassedStep
<1> QED
  BY <1>1, <1>2, <1>3, <1>4, <1>5, <1>6

\* The calls that create a resource of a name.
LEMMA NeutronCallSteps ==
  ASSUME ScriptInv, [Next]_vars, NeutronCalls
  PROVE  LinksInv' /\ PassedInv'
<1>1. PICK f \in {"create_provider_network", "create_provider_subnet",
                  "create_provider_router", "create_address_scope", "create_subnetpool",
                  "create_project_network", "create_project_subnet",
                  "create_bgp_speaker", "create_bgp_peer", "create_port",
                  "create_floating_ip", "add_neutron_secgroup_rules"} : Make(f)
  BY DEF NeutronCalls, CreateProviderNetwork, CreateProviderSubnet, CreateProviderRouter,
     CreateAddressScope, CreateSubnetpool, CreateProjectNetwork, CreateProjectSubnet,
     CreateBgpSpeaker, CreateBgpPeer, CreatePort, CreateFloatingIp, AddNeutronSecgroupRules
<1>2. Script[at] \in Calls /\ Script[at][1] = f /\ at <= Len(Script)
  BY <1>1, AtCall DEF Make
<1>3. LinksInv'
  BY <1>1 DEF Make, ScriptInv, LinksInv
<1>4. (at' = at /\ status' = "raised") \/ (at' = at + 1 /\ status' = "running")
  BY <1>1 DEF Make, GetOrCreate, CreateAnyway, Calling
<1>5. Effect(Script[at], links', have', scheduled', mishaps')
  <2>1. CASE f = "add_neutron_secgroup_rules"
    <3>1. Arg \in Resources /\ Arg = Script[at][2]
      BY <1>2, <2>1, Arguments DEF Arg
    <3> HIDE DEF Arg
    <3>2. have'[Arg] > 0
      BY <1>1, <3>1 DEF Make, GetOrCreate, CreateAnyway, ScriptInv, OneOfName
    <3> QED
      BY <1>2, <2>1, <3>1, <3>2 DEF Effect
  <2>2. CASE f # "add_neutron_secgroup_rules"
    BY <1>1, <1>2, <2>2, PlainCall
  <2> QED
    BY <2>1, <2>2
<1> QED
  BY <1>2, <1>3, <1>4, <1>5, PassedStep

\* The steps that leave the overcloud alone, but for the agent.
LEMMA RunSteps ==
  ASSUME ScriptInv, [Next]_vars,
         \/ CharmSetup \/ RestartDragent \/ SpeakerScheduled \/ AssertSpeakerAdded
         \/ Fail \/ Finish
         \/ Rerun \/ Terminated \/ UNCHANGED vars
  PROVE  LinksInv' /\ PassedInv'
<1>1. LinksInv'
  <2>1. links' = links /\ mishaps \subseteq mishaps'
    BY NothingTaken DEF ScriptInv, CharmSetup, RestartDragent, SpeakerScheduled, AssertSpeakerAdded, Fail, Finish, Rerun, Terminated,
       vars
  <2> QED
    BY <2>1 DEF ScriptInv, LinksInv
<1>2. CASE CharmSetup
  <2>1. Script[at][1] = "undercloud_and_charm_setup" /\ at <= Len(Script)
    BY <1>2, AtCall DEF CharmSetup
  <2>2. Effect(Script[at], links', have', scheduled', mishaps')
    BY <2>1, PlainCall
  <2>3. \/ at' = at /\ status' \in {"raised", "running"}
        \/ at' = at + 1 /\ status' = "running"
    BY <1>2 DEF CharmSetup, Calling
  <2> QED
    BY <1>1, <2>1, <2>2, <2>3, PassedStep
<1>3. CASE AssertSpeakerAdded
  <2>1. Script[at][1] = "assert_speaker_added" /\ at <= Len(Script)
    BY <1>3, AtCall DEF AssertSpeakerAdded
  <2>2. \/ at' = at /\ status' = "raised"
        \/ /\ at' = at + 1 /\ status' = "running"
           /\ scheduled' \/ "stale_line" \in mishaps'
    BY <1>3 DEF AssertSpeakerAdded, Calling
  <2>3. scheduled' \/ "stale_line" \in mishaps' => Effect(Script[at], links', have', scheduled', mishaps')
    BY <2>1 DEF Effect
  <2> QED
    BY <1>1, <2>1, <2>2, <2>3, PassedStep
<1>4. CASE Fail \/ Finish \/ Rerun
  <2>1. \/ at' = at /\ (status' = "done" => at = Len(Script) + 1)
        \/ at' = 1 /\ status' # "done"
    BY <1>4 DEF Fail, Finish, Rerun
  <2> QED
    BY <1>1, <2>1, PassedStep
<1>5. CASE SpeakerScheduled \/ Terminated \/ UNCHANGED vars
  <2>1. at' = at /\ status' = status
    BY <1>5 DEF SpeakerScheduled, Terminated, vars
  <2>2. status' = "done" => at = Len(Script) + 1
    BY <2>1 DEF ScriptInv, PassedInv
  <2> QED
    BY <1>1, <2>1, <2>2, PassedStep
<1>6. CASE RestartDragent
  <2>1. Script[at][1] = "restart_dragent" /\ at <= Len(Script)
    BY <1>6, AtCall DEF RestartDragent
  <2>2. Effect(Script[at], links', have', scheduled', mishaps')
    BY <2>1, PlainCall
  <2>3. (at' = at /\ status' = "raised") \/ (at' = at + 1 /\ status' = "running")
    BY <1>6 DEF RestartDragent, Calling
  <2> QED
    BY <1>1, <2>1, <2>2, <2>3, PassedStep
<1> QED
  BY <1>2, <1>3, <1>4, <1>5, <1>6

\* ScriptInv is inductive.
LEMMA ScriptStep == ScriptInv /\ [Next]_vars => ScriptInv'
<1> SUFFICES ASSUME ScriptInv, [Next]_vars PROVE ScriptInv'
  OBVIOUS
<1>1. LinksInv' /\ PassedInv'
  BY LinkSteps, NeutronCallSteps, RunSteps DEF Next, NeutronCalls
<1>2. OneOfName'
  BY OneOfNameStep DEF ScriptInv
<1>3. want' \in Requests
  BY NothingTaken DEF ScriptInv
<1> QED
  BY <1>1, <1>2, <1>3 DEF ScriptInv

\* It holds before the first call.
LEMMA ScriptInit == Init => ScriptInv
<1> SUFFICES ASSUME Init PROVE ScriptInv
  OBVIOUS
<1>1. OneOfName
  BY DEF Init, OneOfName, NamedOnce, Resources
<1>2. Len(Script) \in Nat
  BY ScriptCalls
<1>3. PassedInv
  BY <1>2 DEF Init, PassedInv
<1>4. LinksInv
  BY DEF Init, LinksInv
<1> QED
  BY <1>1, <1>3, <1>4 DEF Init, ScriptInv

\* ScriptInv holds in every state.
THEOREM ScriptInvariant == Spec => []ScriptInv
BY ScriptInit, ScriptStep, PTL DEF Spec

\* The effect of every call of the script is there when the configuration is done.
LEMMA AllPassed ==
  ASSUME ScriptInv, status = "done", NEW call \in ToSet(Script)
  PROVE  Effect(call, links, have, scheduled, mishaps)
<1>1. Script \in Seq(Calls) /\ Len(Script) \in Nat
  BY ScriptCalls
<1>2. PICK i \in DOMAIN Script : call = Script[i]
  BY DEF ToSet
<1>3. i \in 1..(at - 1)
  BY <1>1, <1>2 DEF ScriptInv, PassedInv
<1> QED
  BY <1>2, <1>3 DEF ScriptInv, PassedInv

\* Guests can be reached once the configuration is done, whatever is asked for and
\* however often runs before it stopped, at whatever calls.
THEOREM GuestsAreReachable == Spec => []GuestsReachable
<1>1. ASSUME ScriptInv PROVE GuestsReachable
  <2> SUFFICES ASSUME status = "done"
               PROVE  /\ \A net \in {"private"} \cup (IF want.vlan THEN {"provider_vlan"} ELSE {}) :
                           \E r \in Resources :
                             {<<"gateway", r>>, <<"interface", r, net>>} \subseteq links
                      /\ <<"dns", "private_subnet">> \in links
                      /\ have["ssh_rule"] > 0 /\ have["icmp_rule"] > 0
    BY DEF GuestsReachable
  <2>1. <<"gateway", "provider-router">> \in links
    BY <1>1, AllPassed, ScriptCalls DEF Effect
  <2>2. <<"dns", "private_subnet">> \in links
    BY <1>1, AllPassed, ScriptCalls DEF Effect
  <2>3. have["ssh_rule"] > 0 /\ have["icmp_rule"] > 0
    BY <1>1, AllPassed, ScriptCalls DEF Effect
  <2>4. <<"interface", "provider-router", "private">> \in links
    BY <1>1, AllPassed, ScriptCalls DEF Effect
  <2>5. want.vlan => <<"interface", "provider-router", "provider_vlan">> \in links
    BY <1>1, AllPassed, ScriptCalls DEF Effect
  <2>6. "provider-router" \in Resources
    BY DEF Resources, Looked
  <2> QED
    BY <2>1, <2>2, <2>3, <2>4, <2>5, <2>6
<1> QED
  BY <1>1, ScriptInvariant, PTL

\* Both networks were added while the agent had the speaker once the BGP setup is done,
\* unless an error of the server was taken for "already advertised" or a run for the
\* log line of an agent before: also where an earlier run added them, as that had
\* waited for the speaker too.
THEOREM RoutesAreTakenUp == Spec => []RoutesTakenUp
<1>1. ASSUME ScriptInv PROVE RoutesTakenUp
  <2> SUFFICES ASSUME status = "done", want.bgp, "server_error" \notin mishaps,
                      "stale_line" \notin mishaps
               PROVE  /\ <<"taken_up", "ext_net">> \in links
                      /\ <<"taken_up", "private">> \in links
                      /\ <<"peer", "bgp-speaker">> \in links
    BY DEF RoutesTakenUp
  <2>1. <<"taken_up", "ext_net">> \in links
    BY <1>1, AllPassed, ScriptCalls DEF Effect
  <2>2. <<"taken_up", "private">> \in links
    BY <1>1, AllPassed, ScriptCalls DEF Effect
  <2>3. <<"peer", "bgp-speaker">> \in links
    BY <1>1, AllPassed, ScriptCalls DEF Effect
  <2> QED
    BY <2>1, <2>2, <2>3
<1> QED
  BY <1>1, ScriptInvariant, PTL

-----------------------------------------------------------------------------
(* The charms are configured when the configuration is done *)

\* undercloud_and_charm_setup is the first call, and the others wait for it.
SetupInv ==
  /\ gpc \notin {"returned", "raised"} => status = "running" /\ at = 1
  /\ at > 1 => gpc = "returned"

\* No port is forgotten and none is missing in netplan, unless a mishap says so.
PortsInv ==
  /\ "orphan_port" \notin mishaps =>
       /\ ports \subseteq attached \cup (IF gpc = "attach" THEN {port} ELSE {})
       /\ gpc = "charms" => macs \subseteq attached
       /\ \A a \in NetworkingCharms : config[a] \subseteq attached
  /\ AddDataportToNetplan /\ "nic_missed" \notin mishaps =>
       attached \subseteq netplan \cup (IF gpc = "netplan" THEN {port} ELSE {})

AllSet == \A a \in ToSet(ApplicationNames) : config[a] # {}
NoneSet == \A a \in ToSet(ApplicationNames) : config[a] = {}

\* All applications are configured or none, unless a mishap says so; while they are
\* being configured, those that are still to be set are not.
AllOrNone ==
  /\ gpc \in {"openstack", "attach", "netplan", "charms", "returned"} => Topology # "unknown"
  /\ gpc \in {"openstack", "attach", "netplan"} => toSet = ApplicationNames
  /\ gpc = "charms" => macs # {} /\ toSet \in {ApplicationNames, Tail(ApplicationNames), <<>>}
  /\ \A a \in NetworkingCharms : config[a] # {} => a \in deploy.apps
  /\ "cut_in_config" \notin mishaps =>
       \/ AllSet
       \/ gpc \notin {"charms", "returned"} /\ NoneSet
       \/ gpc = "charms" /\ \A a \in ToSet(ApplicationNames) : config[a] = {} <=> a \in ToSet(toSet)

CharmsInv ==
  /\ ScriptInv /\ OnePort /\ Covered /\ SetupInv
  /\ deploy.provider = "openstack" => PortsInv /\ AllOrNone

\* The charms are set up by the first call.
LEMMA FirstCall == Script[1] = <<"undercloud_and_charm_setup">> /\ 1 \in DOMAIN Script
<1> DEFINE first == << <<"undercloud_and_charm_setup">> >>
           vlan == When(want.vlan, SetupSdnProviderVlan)
           fip == When(want.octavia /\ DvrEnabled, CentralizedFipNetwork)
           bgp == When(want.bgp, DragentSetup)
           sdn == first \o SetupSdn
           guests == sdn \o vlan
           most == guests \o fip
<1>1. first \in Seq(Calls) /\ 1 \in DOMAIN first /\ first[1] = <<"undercloud_and_charm_setup">>
  <2>1. <<"undercloud_and_charm_setup">> \in Calls
    BY DEF Calls, FirstCalls
  <2>2. first \in Seq(Calls)
    BY <2>1, Written1, Zenon
  <2>3. 1 \in DOMAIN first /\ first[1] = <<"undercloud_and_charm_setup">>
    OBVIOUS
  <2> QED
    BY <2>2, <2>3
<1>2. FirstCalls \subseteq Calls /\ FipCalls \subseteq Calls /\ BgpCalls \subseteq Calls
  BY DEF Calls
<1>3. /\ SetupSdn \in Seq(Calls) /\ SetupSdnProviderVlan \in Seq(Calls)
      /\ CentralizedFipNetwork \in Seq(Calls) /\ DragentSetup \in Seq(Calls)
  BY <1>2, MoreCalls, SdnCalls, VlanCalls, FipNetworkCalls, SpeakerCalls
<1>4. vlan \in Seq(Calls) /\ fip \in Seq(Calls) /\ bgp \in Seq(Calls)
  BY <1>3, Conditional
<1>5. Script = most \o bgp
  BY DEF Script
<1> HIDE DEF first, vlan, fip, bgp
<1>6. sdn \in Seq(Calls) /\ 1 \in DOMAIN sdn /\ sdn[1] = first[1]
  BY <1>1, <1>3
<1> HIDE DEF sdn
<1>7. guests \in Seq(Calls) /\ 1 \in DOMAIN guests /\ guests[1] = sdn[1]
  BY <1>4, <1>6
<1> HIDE DEF guests
<1>8. most \in Seq(Calls) /\ 1 \in DOMAIN most /\ most[1] = guests[1]
  BY <1>4, <1>7
<1> HIDE DEF most
<1>9. 1 \in DOMAIN Script /\ Script[1] = most[1]
  BY <1>4, <1>5, <1>8
<1> QED
  BY <1>1, <1>6, <1>7, <1>8, <1>9

\* So no other call is made before it has returned.
LEMMA SetupStep ==
  ASSUME ScriptInv, SetupInv, [Next]_vars
  PROVE  SetupInv'
<1>1. at \in Nat /\ 1 <= at /\ Len(Script) \in Nat /\ 1 <= Len(Script)
  BY FirstCall, ScriptCalls DEF ScriptInv, PassedInv
<1>2. ASSUME NEW f, Calling(f), f # "undercloud_and_charm_setup"
      PROVE  at > 1
  <2>1. Script[1][1] = "undercloud_and_charm_setup"
    BY FirstCall
  <2>2. at # 1
    BY <1>2, <2>1 DEF Calling
  <2> QED
    BY <1>1, <2>2
<1>3. CASE CharmSetup
  <2>1. CASE GNext /\ UNCHANGED <<status, at>>
    <3>1. CASE NicAppears
      BY <2>1, <3>1 DEF NicAppears, SetupInv
    <3>2. CASE ~NicAppears
      <4>1. gpc \notin {"returned", "raised"}
        BY <2>1, <3>2 DEF GNext, UndercloudAndCharmSetup, OnMaas, OnLxd, LxdDone, SkipMachine,
           CreateExtPort, InterfaceAttach, AddInterfaceToNetplan, PortsDone,
           SkipCharms, SetApplicationConfig, ModelSettled, GFail
      <4>2. status = "running" /\ at = 1
        BY <4>1 DEF SetupInv
      <4> QED
        BY <2>1, <4>2 DEF SetupInv
    <3> QED
      BY <3>1, <3>2
  <2>2. CASE ~(GNext /\ UNCHANGED <<status, at>>)
    <3>1. gpc' = gpc /\ ((gpc = "returned" /\ at' = at + 1) \/ (gpc = "raised" /\ at' = at))
      BY <1>3, <2>2 DEF CharmSetup
    <3> QED
      BY <1>1, <3>1 DEF SetupInv
  <2> QED
    BY <2>1, <2>2
<1>4. CASE NeutronCalls
  <2>1. at > 1 /\ gpc' = gpc
    <3>1. PICK f \in {"create_provider_network", "create_provider_subnet",
                  "create_provider_router", "create_address_scope", "create_subnetpool",
                  "create_project_network", "create_project_subnet",
                  "create_bgp_speaker", "create_bgp_peer", "create_port",
                  "create_floating_ip", "add_neutron_secgroup_rules"} : Make(f)
      BY <1>4 DEF NeutronCalls, CreateProviderNetwork, CreateProviderSubnet,
         CreateProviderRouter, CreateAddressScope, CreateSubnetpool, CreateProjectNetwork,
         CreateProjectSubnet, CreateBgpSpeaker, CreateBgpPeer, CreatePort, CreateFloatingIp,
         AddNeutronSecgroupRules
    <3> QED
      BY <1>2, <3>1 DEF Make
  <2> QED
    BY <2>1 DEF SetupInv
<1>5. CASE \/ PlugExtnetIntoRouter \/ PlugSubnetIntoRouter \/ UpdateSubnetDns
           \/ CentralizedFip \/ RestartDragent \/ AssertSpeakerAdded \/ AddNetworkToBgpSpeaker
           \/ AddPeerToBgpSpeaker
  <2>1. at > 1 /\ gpc' = gpc
    BY <1>2, <1>5 DEF PlugExtnetIntoRouter, PlugSubnetIntoRouter, UpdateSubnetDns,
       CentralizedFip, RestartDragent, AssertSpeakerAdded, AddNetworkToBgpSpeaker,
       AddPeerToBgpSpeaker
  <2> QED
    BY <2>1 DEF SetupInv
<1>6. CASE Fail \/ Finish
  <2>1. at > 1 /\ gpc' = gpc
    BY <1>1, <1>6 DEF Fail, Finish
  <2> QED
    BY <2>1 DEF SetupInv
<1>7. CASE SpeakerScheduled \/ Rerun \/ Terminated \/ UNCHANGED vars
  BY <1>7 DEF SpeakerScheduled, Rerun, Terminated, vars, SetupInv
<1> QED
  BY <1>3, <1>4, <1>5, <1>6, <1>7 DEF Next, NeutronCalls

\* What the deployment alone decides stays.
LEMMA TopologyFixed ==
  ASSUME deploy' = deploy
  PROVE  /\ ApplicationNames' = ApplicationNames /\ Topology' = Topology
         /\ AddDataportToNetplan' = AddDataportToNetplan
BY DEF ApplicationNames, AddDataportToNetplan, Topology, BridgeMappingsKnown, DvrEnabled,
       NgwPresent, OvnPresent

\* A step on openstack is none of the other providers.
LEMMA OnOpenstack ==
  ASSUME OnePort, Covered, deploy.provider = "openstack"
  PROVE  ~OnMaas /\ ~OnLxd /\ ~LxdDone
BY DEF OnePort, Covered, OnMaas, OnLxd, LxdDone

\* A new run starts after the setup has ended.
LEMMA SetupEnded ==
  ASSUME SetupInv, Rerun
  PROVE  gpc \in {"returned", "raised"}
BY DEF SetupInv, Rerun

\* Every step keeps PortsInv.
LEMMA PortsStep ==
  ASSUME CharmsInv, deploy.provider = "openstack", [Next]_vars
  PROVE  PortsInv'
<1>1. /\ mishaps \subseteq mishaps' /\ deploy' = deploy
      /\ AddDataportToNetplan' = AddDataportToNetplan
  BY NothingTaken, DeployFixed, TopologyFixed DEF CharmsInv, ScriptInv
<1>2. /\ PortsInv /\ OnePort /\ Covered /\ SetupInv /\ DOMAIN config = NetworkingCharms
      /\ gpc = "attach" => port \in ports
  BY DEF CharmsInv, Covered
<1> USE DEF PortsInv
<1>3. CASE GNext
  <2>1. CASE UndercloudAndCharmSetup
    BY <1>1, <1>2, <2>1 DEF UndercloudAndCharmSetup
  <2>2. CASE SkipMachine
    BY <1>1, <1>2, <2>2 DEF SkipMachine
  <2>3. CASE CreateExtPort
    BY <1>1, <1>2, <2>3 DEF CreateExtPort
  <2>4. CASE InterfaceAttach
    <3>1. \/ gpc' = (IF AddDataportToNetplan THEN "netplan" ELSE "openstack")
          \/ gpc' = "raised" /\ "nic_missed" \in mishaps'
      BY <2>4 DEF InterfaceAttach
    <3>2. /\ gpc = "attach" /\ attached' = attached \cup {port} /\ ports' = ports
          /\ port' = port /\ netplan' = netplan /\ config' = config
      BY <2>4 DEF InterfaceAttach
    <3> QED
      BY <1>1, <1>2, <3>1, <3>2
  <2>5. CASE NicAppears
    BY <1>1, <1>2, <2>5 DEF NicAppears
  <2>6. CASE AddInterfaceToNetplan
    BY <1>1, <1>2, <2>6 DEF AddInterfaceToNetplan
  <2>7. CASE PortsDone
    BY <1>1, <1>2, <2>7 DEF PortsDone, ExtPorts
  <2>8. CASE SkipCharms
    BY <1>1, <1>2, <2>8 DEF SkipCharms
  <2>9. CASE SetApplicationConfig
    <3>1. /\ gpc = "charms" /\ gpc' \in {"charms", "raised"} /\ macs' = macs
          /\ ports' = ports /\ attached' = attached /\ netplan' = netplan
          /\ config' = [config EXCEPT ![Head(toSet)] = macs]
      BY <2>9 DEF SetApplicationConfig
    <3>2. \A a \in NetworkingCharms : config'[a] \in {config[a], macs}
      BY <1>2, <3>1
    <3> QED
      BY <1>1, <1>2, <3>1, <3>2
  <2>10. CASE ModelSettled
    BY <1>1, <1>2, <2>10 DEF ModelSettled
  <2>11. CASE GFail
    BY <1>1, <1>2, <2>11 DEF GFail
  <2> QED
    BY <1>2, <1>3, <2>1, <2>2, <2>3, <2>4, <2>5, <2>6, <2>7, <2>8, <2>9, <2>10, <2>11,
       OnOpenstack DEF GNext
<1>4. CASE Rerun
  BY <1>1, <1>2, <1>4, SetupEnded DEF Rerun
<1>5. CASE UNCHANGED <<deploy, gpc, todo, macs, undercloud, config, toSet>>
  BY <1>1, <1>2, <1>5
<1> QED
  BY <1>3, <1>4, <1>5, MachineStep

\* There are one or two applications to configure, and the second is deployed.
LEMMA NamesShape ==
  ASSUME Topology # "unknown"
  PROVE  \E x \in NetworkingCharms :
           \/ ApplicationNames = <<x>>
           \/ \E y \in NetworkingCharms :
                x # y /\ y \in deploy.apps /\ ApplicationNames = <<x, y>>
<1>1. CASE DvrEnabled
  BY <1>1 DEF Topology, BridgeMappingsKnown, ApplicationNames, NetworkingCharms
<1>2. CASE ~DvrEnabled
  BY <1>2 DEF Topology, BridgeMappingsKnown, ApplicationNames, NetworkingCharms
<1> QED
  BY <1>1, <1>2

\* What that makes of the applications still to be configured.
LEMMA StillToSet ==
  ASSUME Topology # "unknown", toSet \in {ApplicationNames, Tail(ApplicationNames), <<>>},
         toSet # <<>>
  PROVE  /\ Head(toSet) \in NetworkingCharms /\ Head(toSet) \in ToSet(ApplicationNames)
         /\ Tail(toSet) \in {ApplicationNames, Tail(ApplicationNames), <<>>}
         /\ ToSet(toSet) = {Head(toSet)} \cup ToSet(Tail(toSet))
         /\ Head(toSet) \notin ToSet(Tail(toSet))
         /\ toSet = ApplicationNames \/ Head(toSet) \in deploy.apps
         /\ Len(toSet) > 1 \/ ToSet(Tail(toSet)) = {}
<1>1. PICK x \in NetworkingCharms :
        \/ ApplicationNames = <<x>>
        \/ \E y \in NetworkingCharms :
             x # y /\ y \in deploy.apps /\ ApplicationNames = <<x, y>>
  BY NamesShape
<1>2. ASSUME NEW z, toSet = <<z>>
      PROVE  /\ Head(toSet) = z /\ Tail(toSet) = <<>> /\ ToSet(toSet) = {z}
             /\ ToSet(Tail(toSet)) = {}
  <2>1. Head(toSet) = z /\ Tail(toSet) = <<>>
    BY <1>2
  <2> QED
    BY <1>2, <2>1, NoMachines, Written1
<1>3. CASE ApplicationNames = <<x>>
  <2>1. toSet = <<x>>
    <3>1. Tail(<<x>>) = <<>>
      OBVIOUS
    <3> QED
      BY <1>3, <3>1
  <2> QED
    BY <1>2, <1>3, <2>1
<1>4. ASSUME NEW y \in NetworkingCharms, x # y, y \in deploy.apps, ApplicationNames = <<x, y>>
      PROVE  /\ Head(toSet) \in NetworkingCharms /\ Head(toSet) \in ToSet(ApplicationNames)
             /\ Tail(toSet) \in {ApplicationNames, Tail(ApplicationNames), <<>>}
             /\ ToSet(toSet) = {Head(toSet)} \cup ToSet(Tail(toSet))
             /\ Head(toSet) \notin ToSet(Tail(toSet))
             /\ toSet = ApplicationNames \/ Head(toSet) \in deploy.apps
             /\ Len(toSet) > 1 \/ ToSet(Tail(toSet)) = {}
  <2>1. Tail(<<x, y>>) = <<y>> /\ Head(<<x, y>>) = x /\ Len(<<x, y>>) = 2
    OBVIOUS
  <2>2. ToSet(<<x, y>>) = {x, y} /\ ToSet(<<y>>) = {y}
    BY Written1, Written2
  <2>3. CASE toSet = <<y>>
    BY <1>2, <1>4, <2>2, <2>3
  <2>4. CASE toSet = <<x, y>>
    BY <1>4, <2>1, <2>2, <2>4
  <2> QED
    BY <1>4, <2>1, <2>3, <2>4
<1> QED
  BY <1>1, <1>3, <1>4

\* Every step keeps AllOrNone.
LEMMA NamesStep ==
  ASSUME CharmsInv, deploy.provider = "openstack", [Next]_vars
  PROVE  AllOrNone'
<1>1. /\ mishaps \subseteq mishaps' /\ deploy' = deploy
      /\ ApplicationNames' = ApplicationNames /\ Topology' = Topology
  BY NothingTaken, DeployFixed, TopologyFixed DEF CharmsInv, ScriptInv
<1>2. /\ AllOrNone /\ OnePort /\ Covered /\ SetupInv /\ DOMAIN config = NetworkingCharms
  BY DEF CharmsInv, Covered
<1>3. config' = config => (AllSet' <=> AllSet) /\ (NoneSet' <=> NoneSet)
  BY <1>1 DEF AllSet, NoneSet
<1> USE DEF AllOrNone
<1>4. CASE GNext
  <2>1. CASE UndercloudAndCharmSetup
    BY <1>1, <1>2, <1>3, <2>1 DEF UndercloudAndCharmSetup
  <2>2. CASE SkipMachine
    BY <1>1, <1>2, <1>3, <2>2 DEF SkipMachine
  <2>3. CASE CreateExtPort
    BY <1>1, <1>2, <1>3, <2>3 DEF CreateExtPort
  <2>4. CASE InterfaceAttach
    <3>1. /\ gpc = "attach" /\ gpc' \in {"netplan", "openstack", "raised"}
          /\ config' = config /\ toSet' = toSet
      BY <2>4 DEF InterfaceAttach
    <3> QED
      BY <1>1, <1>2, <1>3, <3>1
  <2>5. CASE NicAppears
    BY <1>1, <1>2, <1>3, <2>5 DEF NicAppears
  <2>6. CASE AddInterfaceToNetplan
    BY <1>1, <1>2, <1>3, <2>6 DEF AddInterfaceToNetplan
  <2>7. CASE PortsDone
    <3>1. /\ gpc = "openstack" /\ toSet' = toSet /\ config' = config /\ macs' = ports
          /\ todo = <<>> /\ mishaps' = mishaps
          /\ gpc' = (IF UnitMachineIds = <<>> THEN "raised"
                     ELSE IF macs' = {} THEN "returned" ELSE "charms")
      BY <2>7 DEF PortsDone, ExtPorts
    <3>2. UnitMachineIds # <<>> => macs' # {}
      <4>1. SUFFICES ASSUME UnitMachineIds # <<>> PROVE ports # {}
        BY <3>1
      <4>2. Head(UnitMachineIds) \in ToSet(UnitMachineIds)
        BY <1>2, <4>1, SelectionType, HeadAndTail DEF Covered
      <4>3. \E p \in attached : p[1] = Head(UnitMachineIds)
        BY <1>2, <3>1, <4>2, NoMachines DEF Covered, LoopCovers
      <4> QED
        BY <1>2, <4>3 DEF Covered
    <3>3. gpc' \in {"raised", "charms"} /\ (gpc' = "charms" => macs' # {})
      BY <3>1, <3>2
    <3> QED
      BY <1>1, <1>2, <1>3, <3>1, <3>3 DEF NoneSet
  <2>8. CASE SkipCharms
    <3>1. /\ gpc = "charms" /\ toSet # <<>> /\ config' = config /\ toSet' = toSet
          /\ mishaps' = mishaps
          /\ \/ Head(toSet) \notin deploy.apps /\ gpc' = "raised"
             \/ config[Head(toSet)] # {} /\ gpc' = "returned"
      BY <2>8 DEF SkipCharms
    <3>2. /\ Head(toSet) \in ToSet(toSet) /\ Head(toSet) \in ToSet(ApplicationNames)
          /\ toSet = ApplicationNames \/ Head(toSet) \in deploy.apps
      BY <1>2, <3>1, StillToSet
    <3> QED
      BY <1>1, <1>2, <1>3, <3>1, <3>2 DEF NoneSet
  <2>9. CASE SetApplicationConfig
    <3> DEFINE h == Head(toSet)
    <3>1. /\ gpc = "charms" /\ toSet # <<>> /\ macs' = macs
          /\ h \in deploy.apps /\ config[h] = {}
          /\ config' = [config EXCEPT ![h] = macs]
          /\ \/ toSet' = Tail(toSet) /\ gpc' = gpc /\ mishaps' = mishaps
             \/ /\ gpc' = "raised" /\ toSet' = toSet
                /\ Len(toSet) > 1 => "cut_in_config" \in mishaps'
      BY <2>9 DEF SetApplicationConfig
    <3>2. /\ h \in NetworkingCharms /\ h \in ToSet(ApplicationNames)
          /\ Tail(toSet) \in {ApplicationNames, Tail(ApplicationNames), <<>>}
          /\ ToSet(toSet) = {h} \cup ToSet(Tail(toSet))
          /\ h \notin ToSet(Tail(toSet))
          /\ Len(toSet) > 1 \/ ToSet(Tail(toSet)) = {}
      BY <1>2, <3>1, StillToSet
    <3> HIDE DEF h
    <3>3. config'[h] = macs /\ \A a \in NetworkingCharms \ {h} : config'[a] = config[a]
      BY <1>2, <3>1, <3>2
    <3>4. macs # {} /\ Topology # "unknown"
      BY <1>2, <3>1
    <3>5. \A a \in NetworkingCharms : config'[a] # {} => a \in deploy.apps
      BY <1>2, <3>1, <3>3
    <3>6. ToSet(ApplicationNames) \subseteq NetworkingCharms
      BY <3>4, NamesShape, Written1, Written2
    <3>7. "cut_in_config" \notin mishaps =>
            \A a \in ToSet(ApplicationNames) : config'[a] = {} <=> a \in ToSet(Tail(toSet))
      <4>1. SUFFICES ASSUME "cut_in_config" \notin mishaps, NEW a \in ToSet(ApplicationNames)
                     PROVE  config'[a] = {} <=> a \in ToSet(Tail(toSet))
        OBVIOUS
      <4>2. config[a] = {} <=> a \in ToSet(toSet)
        BY <1>2, <3>1, <3>2, <4>1 DEF AllSet
      <4> QED
        BY <3>2, <3>3, <3>4, <3>6, <4>2
    <3>8. CASE toSet' = Tail(toSet) /\ gpc' = gpc /\ mishaps' = mishaps
      BY <1>1, <3>1, <3>2, <3>4, <3>5, <3>7, <3>8
    <3>9. CASE gpc' = "raised" /\ (Len(toSet) > 1 => "cut_in_config" \in mishaps')
      BY <1>1, <3>2, <3>5, <3>7, <3>9 DEF AllSet
    <3> QED
      BY <3>1, <3>8, <3>9
  <2>10. CASE ModelSettled
    BY <1>1, <1>2, <1>3, <2>10, NoMachines DEF ModelSettled, AllSet
  <2>11. CASE GFail
    <3>1. /\ gpc \notin {"start", "returned", "raised"} /\ gpc' = "raised" /\ config' = config
          /\ gpc = "charms" /\ (\E a \in ToSet(toSet) : config[a] = {})
               /\ (\E b \in ToSet(ApplicationNames) : config[b] # {})
             => "cut_in_config" \in mishaps'
      BY <2>11 DEF GFail
    <3>2. CASE gpc # "charms"
      BY <1>1, <1>2, <1>3, <3>1, <3>2
    <3>3. CASE gpc = "charms"
      <4>1. SUFFICES ASSUME "cut_in_config" \notin mishaps' PROVE AllSet \/ NoneSet
        BY <1>1, <1>2, <1>3, <3>1
      <4>2. CASE \A a \in ToSet(ApplicationNames) : config[a] = {} <=> a \in ToSet(toSet)
        BY <3>1, <3>3, <4>1, <4>2 DEF AllSet, NoneSet
      <4> QED
        BY <1>1, <1>2, <3>3, <4>1, <4>2
    <3> QED
      BY <3>2, <3>3
  <2> QED
    BY <1>2, <1>4, <2>1, <2>2, <2>3, <2>4, <2>5, <2>6, <2>7, <2>8, <2>9, <2>10, <2>11,
       OnOpenstack DEF GNext
<1>5. CASE Rerun
  BY <1>1, <1>2, <1>3, <1>5, SetupEnded DEF Rerun
<1>6. CASE UNCHANGED <<deploy, gpc, todo, macs, undercloud, config, toSet>>
  BY <1>1, <1>2, <1>3, <1>6
<1> QED
  BY <1>4, <1>5, <1>6, MachineStep

\* CharmsInv is inductive.
LEMMA CharmsStep == CharmsInv /\ [Next]_vars => CharmsInv'
<1> SUFFICES ASSUME CharmsInv, [Next]_vars PROVE CharmsInv'
  OBVIOUS
<1>1. ScriptInv' /\ OnePort' /\ Covered' /\ SetupInv'
  BY ScriptStep, OnePortStep, CoveredStep, SetupStep DEF CharmsInv
<1>2. deploy' = deploy
  BY DeployFixed
<1> QED
  BY <1>1, <1>2, PortsStep, NamesStep DEF CharmsInv

\* It holds before the first call.
LEMMA CharmsInit == Init => CharmsInv
<1> SUFFICES ASSUME Init PROVE CharmsInv
  OBVIOUS
<1> USE DEF Init, GInit
<1>1. ScriptInv
  BY ScriptInit
<1>2. OnePort
  BY DeploymentsAssumption DEF OnePort, OneExtPort, DeploymentType
<1>3. Covered
  BY DeploymentsAssumption DEF Covered, LoopCovers, Covers, DeploymentType
<1>4. SetupInv
  BY DEF SetupInv
<1>5. PortsInv
  BY DEF PortsInv
<1>6. AllOrNone
  <2>1. NoneSet
    <3>1. CASE Topology = "unknown"
      BY <3>1, NoMachines DEF NoneSet, ApplicationNames
    <3>2. CASE Topology # "unknown"
      <4>1. ToSet(ApplicationNames) \subseteq NetworkingCharms
        BY <3>2, NamesShape, Written1, Written2
      <4> QED
        BY <4>1 DEF NoneSet
    <3> QED
      BY <3>1, <3>2
  <2> QED
    BY <2>1 DEF AllOrNone
<1> QED
  BY <1>1, <1>2, <1>3, <1>4, <1>5, <1>6 DEF CharmsInv

\* The charms whose machines get a port are among those that are configured.
LEMMA SelectedNamed ==
  ASSUME Topology # "unknown"
  PROVE  Selected \subseteq ToSet(ApplicationNames)
<1>1. \A x, y : ToSet(<<x>>) = {x} /\ ToSet(<<x, y>>) = {x, y}
  BY Written1, Written2
<1>2. CASE DvrEnabled
  BY <1>1, <1>2 DEF Topology, BridgeMappingsKnown, ApplicationNames, Selected, NgwPresent
<1>3. CASE ~DvrEnabled
  BY <1>1, <1>3 DEF Topology, BridgeMappingsKnown, ApplicationNames, Selected, NgwPresent
<1> QED
  BY <1>2, <1>3

\* When the configuration is done the selected charms are configured, with ports
\* that are attached and in netplan, unless one of the three mishaps explains why
\* not: for every deployment and number of runs, wherever those were stopped.
THEOREM CharmsAreConfigured == Spec => []CharmsConfigured
<1>1. ASSUME CharmsInv PROVE CharmsConfigured
  <2> SUFFICES ASSUME status = "done", deploy.provider = "openstack"
               PROVE  /\ \A a \in Selected :
                           /\ "cut_in_config" \notin mishaps => config[a] # {}
                           /\ "orphan_port" \notin mishaps => config[a] \subseteq attached
                      /\ AddDataportToNetplan /\ "nic_missed" \notin mishaps
                           => attached \subseteq netplan
    BY DEF CharmsConfigured
  <2>1. gpc = "returned"
    <3>1. Len(Script) \in Nat /\ 1 <= Len(Script) /\ at > Len(Script)
      BY <1>1, FirstCall, ScriptCalls DEF CharmsInv, ScriptInv, PassedInv
    <3> QED
      BY <1>1, <3>1 DEF CharmsInv, SetupInv, ScriptInv, PassedInv
  <2>2. PortsInv /\ AllOrNone
    BY <1>1 DEF CharmsInv
  <2>3. Selected \subseteq ToSet(ApplicationNames) /\ Selected \subseteq NetworkingCharms
    <3>1. Selected \subseteq NetworkingCharms
      BY DEF Selected, NetworkingCharms
    <3> QED
      BY <2>1, <2>2, <3>1, SelectedNamed DEF AllOrNone
  <2>4. "cut_in_config" \notin mishaps => AllSet
    BY <2>1, <2>2 DEF AllOrNone
  <2> QED
    BY <2>1, <2>2, <2>3, <2>4 DEF PortsInv, AllSet
<1> QED
  BY <1>1, CharmsInit, CharmsStep, PTL DEF Spec

=============================================================================
