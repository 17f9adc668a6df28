-------------------------- MODULE MCCloudResources --------------------------
(***************************************************************************)
(* Two images from one URL, as add_cirros_image and add_cirros_alt_image   *)
(* add them, one with properties, and two flavors.                         *)
(***************************************************************************)
EXTENDS CloudResources

MCImages == <<"cirros", "cirros_alt">>
MCUrlOf == [n \in {"cirros", "cirros_alt"} |-> "cirros_url"]

=============================================================================
