---------------------------- MODULE MCVaultSetup ----------------------------
(***************************************************************************)
(* Three vault units on either storage, with and without a virtual IP.     *)
(***************************************************************************)
EXTENDS VaultSetup

MCUnits == <<"vault/0", "vault/1", "vault/2">>

=============================================================================
