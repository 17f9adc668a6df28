------------------------- MODULE MCOvercloudNetwork -------------------------
(***************************************************************************)
(* The topologies of get_charm_networking_data on three machines, and the  *)
(* providers, with the configurations that the bundles run.                *)
(***************************************************************************)
EXTENDS OvercloudNetwork

MCMachinesOf ==
  [a \in NetworkingCharms |->
     CASE a \in {"neutron-openvswitch", "ovn-chassis"} -> <<"m1", "m2">>
       [] OTHER -> <<"m3">>]

On(provider, apps, dvr, persist, limit, nics) ==
  [provider |-> provider, apps |-> apps, dvr |-> dvr, netplan |-> persist,
   limit |-> limit, nics |-> nics]

Gateway == {"neutron-gateway", "neutron-openvswitch"}
Ovn == {"ovn-chassis", "ovn-dedicated-chassis"}

MCDeployments ==
  {On("openstack", Gateway, TRUE, TRUE, NoLimit, <<>>),
   On("openstack", Gateway, FALSE, TRUE, NoLimit, <<>>),
   On("openstack", {"neutron-openvswitch"}, TRUE, FALSE, 1, <<>>),
   On("openstack", Ovn, FALSE, TRUE, 2, <<>>),
   On("openstack", {"ovn-dedicated-chassis"}, FALSE, TRUE, 1, <<>>),
   On("openstack", {"ovn-chassis"}, FALSE, FALSE, NoLimit, <<>>),
   On("openstack", {"neutron-gateway"}, TRUE, TRUE, NoLimit, <<>>),
   On("openstack", {}, FALSE, TRUE, NoLimit, <<>>),
   On("maas", Ovn, FALSE, TRUE, NoLimit, << <<"m1", 1>>, <<"m1", 2>>, <<"m2", 1>> >>),
   On("lxd", Ovn, FALSE, TRUE, NoLimit, <<>>),
   On("other", Gateway, TRUE, TRUE, NoLimit, <<>>)}

Asking(pool, fip, vlan, octavia, bgp, router) ==
  [pool |-> pool, fip |-> fip, vlan |-> vlan, octavia |-> octavia, bgp |-> bgp,
   router |-> router]

MCRequests ==
  {Asking(TRUE, FALSE, TRUE, TRUE, FALSE, "provider-router"),
   Asking(TRUE, TRUE, FALSE, FALSE, TRUE, "provider-router"),
   Asking(FALSE, FALSE, FALSE, FALSE, FALSE, "other-router")}

=============================================================================
