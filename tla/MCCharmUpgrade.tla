--------------------------- MODULE MCCharmUpgrade ---------------------------
(***************************************************************************)
(* Charm upgrades of every model of up to two applications and of a cloud  *)
(* with applications in four phases of SERVICE_GROUPS and one in none.     *)
(* The groups of the other kinds of upgrade are computed for the same      *)
(* models, as their callers ask for them.                                  *)
(***************************************************************************)
EXTENDS CharmUpgrade

CONSTANTS Charms   \* the charms of the small models

Deployed(charm, subordinate) ==
  [charm |-> [path |-> "ch:amd64/jammy", name |-> charm, revision |-> 7],
   subordinate |-> subordinate, source |-> ~subordinate]

Cloud ==
  [glance |-> Deployed("glance", FALSE),
   hacluster |-> Deployed("hacluster", TRUE),
   keystone |-> Deployed("keystone", FALSE),
   mysql |-> Deployed("mysql-innodb-cluster", FALSE),
   placement |-> Deployed("placement", FALSE)]

MCNames == <<"glance", "hacluster", "keystone", "mysql", "placement", "vault">>

SmallModels ==
  UNION {[S -> [charm : [path : {"ch:amd64/jammy"}, name : Charms, revision : {7}],
                subordinate : BOOLEAN, source : BOOLEAN]] :
           S \in SUBSET {"mysql", "vault"}}

MCModels == {Cloud} \cup SmallModels

\* zed, the last track named after a codename, and the last release but one.
MCStarts == {23, 29}

=============================================================================
