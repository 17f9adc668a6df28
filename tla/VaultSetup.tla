----------------------------- MODULE VaultSetup -----------------------------
(***************************************************************************)
(* Initialising and unsealing vault: VaultFacade of charm_tests/vault/     *)
(* utils.py and the functions of charm_tests/vault/setup.py that bundles   *)
(* run, each of which may be stopped by an error and run again.            *)
(*                                                                         *)
(* A vault is known by the number of the init that made its keys.  Units   *)
(* on a shared storage are all initialised by one init; with raft the      *)
(* others join one that is unsealed.  A unit that was given its key is     *)
(* unsealed some time later, a restarted unit is sealed, and a virtual IP  *)
(* may move at any time.                                                   *)
(***************************************************************************)
EXTENDS Naturals, Sequences, FiniteSets, Functions

CONSTANTS
  Units,        \* the vault units, in the order of juju's status
  Polls,        \* polls of the waits, 12 in the code
  MaxRuns,      \* bound on the runs
  MaxRestarts   \* bound on the restarts of units

Names == Range(Units)
Vaults == 0..MaxRuns   \* 0 for none

ASSUME VaultAssumption ==
  /\ Units \in Seq(STRING) /\ Len(Units) > 0 /\ IsInjective(Units)
  /\ {"none", "vip"} \cap Names = {}
  /\ {Polls, MaxRuns} \subseteq Nat \ {0} /\ MaxRestarts \in Nat

Entries == {"basic_setup", "basic_setup_and_unseal", "auto_initialize", "unseal_by_unit"}

VARIABLES
  storage,    \* "shared" or "raft"
  vip,        \* the unit that has the virtual IP, or "none" if there is none
  validate,   \* validation_application is set
  entry,      \* the function being run
  runs,       \* runs started
  pc,         \* the call it is at
  at, polls,  \* index of the client and polls of the loop it is in
  client,     \* unseal_client: a unit, or "vip"
  creds,      \* vault_creds
  inits,      \* inits so far
  vault,      \* [Names -> the vault the unit is part of]
  sealed,     \* units that are sealed
  unsealing,  \* those of them that were given their key
  file,       \* [Names -> the credentials stored on the unit]
  authorized, \* the charm has access to vault
  ca,         \* the certificate of the CA that vault issues from, or NoCa
  restarts,   \* restarts so far
  disturbed   \* a unit was restarted in this run

setup == <<validate, entry, runs, at, polls, client, creds>>
units == <<storage, vip, inits, vault, sealed, unsealing, file, authorized, ca, restarts,
           disturbed>>
vars == <<pc, setup, units>>

Calls ==
  {"check", "init", "store", "wait_client", "get_credentials", "unseal_first", "wait_all",
   "unseal_all", "ha_settled", "ha_settled_again", "authorize", "get_csr", "upload", "validate"}
Ended == {"done", "raised"}

FlagsOK ==
  validate \in BOOLEAN /\ authorized \in BOOLEAN /\ disturbed \in BOOLEAN

\* Every variable keeps its type; in particular no more inits are made than runs.
TypeOK ==
  /\ pc \in Calls \cup Ended
  /\ storage \in {"shared", "raft"} /\ vip \in Names \cup {"none"}
  /\ entry \in Entries /\ runs \in 1..MaxRuns /\ inits \in Vaults
  /\ at \in 1..(Len(Units) + 1) /\ polls \in 0..Polls
  /\ client \in Names \cup {"vip"} /\ creds \in Vaults
  /\ vault \in [Names -> Vaults] /\ file \in [Names -> Vaults]
  /\ sealed \subseteq Names /\ unsealing \subseteq sealed
  /\ ca \in [key : Vaults, signedWith : Vaults]
  /\ FlagsOK

\* A certificate is known by the run that made its key and the run that made
\* the key it was signed with.
NoCa == [key |-> 0, signedWith |-> 0]

\* generate_cert: a new root in every run, signed with its own key.
GenerateCert == [key |-> runs, signedWith |-> runs]

\* sign_csr keeps the key of the request.
SignCsr(csr, root) == [key |-> csr, signedWith |-> root.key]

Start(e) == IF e = "unseal_by_unit" THEN "get_credentials" ELSE "check"

LeadUnitClient == IF vip = "none" THEN Units[(runs % Len(Units)) + 1] ELSE "vip"

\* The client a facade is made with: that of the virtual IP, or the first.
UnsealClient == IF vip = "none" THEN Units[1] ELSE "vip"

Init ==
  /\ storage \in {"shared", "raft"}
  /\ vip \in Names \cup {"none"}
  /\ validate \in BOOLEAN
  /\ entry \in Entries /\ pc = Start(entry)
  /\ runs = 1 /\ at = 1 /\ polls = 0
  /\ client = UnsealClient
  /\ creds = 0 /\ inits = 0
  /\ vault = [u \in Names |-> 0] /\ sealed = Names /\ unsealing = {}
  /\ file = [u \in Names |-> 0]
  /\ authorized = FALSE /\ ca = NoCa
  /\ restarts = 0 /\ disturbed = FALSE

\* The unit that answers a client.
Unit(c) == IF c = "vip" THEN vip ELSE c

\* The client that a loop over get_clients is at, one for each unit.
Client == Units[at]

Goto(l) == pc' = l /\ at' = 1 /\ polls' = 0

-----------------------------------------------------------------------------
(* VaultFacade.initialize *)

IsInitialized(c) == vault[Unit(c)] # 0

CheckInitialized ==
  /\ pc = "check"
  /\ Goto(IF IsInitialized(client) THEN "get_credentials" ELSE "init")
  /\ UNCHANGED <<validate, entry, runs, client, creds, units>>

\* A vault that has been initialised refuses to be so again.
Refuses(u) == vault[u] # 0

\* init_vault.  When its answer is lost so are the keys.
InitVault ==
  /\ pc = "init"
  /\ \/ Refuses(Unit(client)) /\ Goto("raised") /\ UNCHANGED <<creds, inits, vault>>
     \/ /\ ~Refuses(Unit(client))
        /\ inits' = inits + 1 /\ creds' = inits + 1
        /\ vault' = [u \in Names |-> IF storage = "shared" \/ u = Unit(client)
                                       THEN inits + 1 ELSE vault[u]]
        /\ Goto("store") \/ Goto("raised")
  /\ UNCHANGED <<validate, entry, runs, client, storage, vip, sealed, unsealing, file,
                 authorized, ca, restarts, disturbed>>

\* store_credentials, on the first unit.
StoreCredentials ==
  /\ pc = "store"
  /\ file' = [file EXCEPT ![Units[1]] = creds]
  /\ Goto("wait_client") \/ Goto("raised")
  /\ UNCHANGED <<validate, entry, runs, client, creds, storage, vip, inits, vault, sealed,
                 unsealing, authorized, ca, restarts, disturbed>>

AfterCreds ==
  IF entry = "basic_setup" THEN "done"
  ELSE IF entry = "unseal_by_unit" THEN "unseal_all" ELSE "unseal_first"

\* wait_and_get_initialized_client: the first initialised unit.
GetInitializedClient ==
  /\ pc = "wait_client"
  /\ \E i \in DOMAIN Units :
       /\ IsInitialized(Units[i]) /\ \A j \in 1..(i - 1) : ~IsInitialized(Units[j])
       /\ client' = Units[i]
  /\ Goto(AfterCreds)
  /\ UNCHANGED <<validate, entry, runs, creds, units>>

\* The unit whose home directory has the credentials.
HasCreds(u) == file[u] # 0

\* get_credentials: from the unit that has them; scp from None raises.
GetCredentials ==
  /\ pc = "get_credentials"
  /\ \/ \E u \in Names :
          HasCreds(u) /\ creds' = file[u] /\ Goto(AfterCreds)
     \/ (\A u \in Names : ~HasCreds(u)) /\ Goto("raised") /\ UNCHANGED creds
  /\ UNCHANGED <<validate, entry, runs, client, units>>

-----------------------------------------------------------------------------
(* VaultFacade.unseal *)

\* A sealed unit is given the key: only that of its vault is accepted, and it
\* is unsealed later.
Unseal(u, next) ==
  \/ u \notin sealed /\ next /\ UNCHANGED unsealing
  \/ u \in sealed /\ vault[u] = creds /\ unsealing' = unsealing \cup {u}
       /\ (next \/ Goto("raised"))
  \/ u \in sealed /\ vault[u] # creds /\ Goto("raised") /\ UNCHANGED unsealing

UnsealFirst ==
  /\ pc = "unseal_first"
  /\ Unseal(Unit(client), Goto("wait_all"))
  /\ UNCHANGED <<validate, entry, runs, client, creds, storage, vip, inits, vault, sealed, file,
                 authorized, ca, restarts, disturbed>>

PollForever(reached, after) ==
  /\ at <= Len(Units)
  /\ \/ reached /\ at < Len(Units) /\ at' = at + 1 /\ polls' = 0 /\ UNCHANGED pc
     \/ reached /\ at = Len(Units) /\ Goto(after)
     \/ ~reached /\ UNCHANGED <<pc, at, polls>>

\* One poll of a wait for every client in turn.
Poll(reached, after) ==
  /\ at <= Len(Units)
  /\ \/ reached /\ at < Len(Units) /\ at' = at + 1 /\ polls' = 0 /\ UNCHANGED pc
     \/ reached /\ at = Len(Units) /\ Goto(after)
     \/ ~reached /\ polls + 1 < Polls /\ polls' = polls + 1 /\ UNCHANGED <<pc, at>>
     \/ ~reached /\ polls + 1 = Polls /\ Goto("raised")

WaitUntilAllInitialised ==
  /\ pc = "wait_all"
  /\ Poll(IsInitialized(Client), "unseal_all")
  /\ UNCHANGED <<validate, entry, runs, client, creds, units>>

AfterUnseal == IF entry = "unseal_by_unit" THEN "done" ELSE "ha_settled"

\* unseal_all, and the loop of unseal_by_unit with its update-status hooks.
UnsealAll ==
  /\ pc = "unseal_all"
  /\ Unseal(Client, IF at < Len(Units) THEN at' = at + 1 /\ UNCHANGED <<pc, polls>>
                                          ELSE Goto(AfterUnseal))
  /\ UNCHANGED <<validate, entry, runs, client, creds, storage, vip, inits, vault, sealed, file,
                 authorized, ca, restarts, disturbed>>

AfterSettled ==
  IF pc = "ha_settled_again" THEN "authorize"
  ELSE IF entry = "auto_initialize" THEN "ha_settled_again" ELSE "done"

SettledAtOnce ==
  /\ pc \in {"ha_settled", "ha_settled_again"} /\ Goto(AfterSettled)
  /\ UNCHANGED <<validate, entry, runs, client, creds, units>>

\* wait_for_ha_settled: a raft unit that is still sealed has no ha_status, and
\* one that is not may have no leader yet; on a storage without HA it is a no-op.
WaitForHaSettled ==
  /\ pc \in {"ha_settled", "ha_settled_again"}
  /\ \E settled \in BOOLEAN :
       /\ settled /\ storage = "raft" => Client \notin sealed
       /\ Poll(settled, AfterSettled)
  /\ UNCHANGED <<validate, entry, runs, client, creds, units>>

-----------------------------------------------------------------------------
(* authorize and auto_initialize *)

\* Juju's leader, any of the units, can use vault.
LeaderUnsealed == \E u \in Names : u \notin sealed /\ vault[u] = creds

\* run_charm_authorize; that the action failed is not noticed.
RunCharmAuthorize ==
  /\ pc = "authorize"
  /\ \/ LeaderUnsealed /\ authorized' = TRUE
     \/ UNCHANGED authorized
  /\ Goto("get_csr") \/ Goto("raised")
  /\ UNCHANGED <<validate, entry, runs, client, creds, storage, vip, inits, vault, sealed,
                 unsealing, file, ca, restarts, disturbed>>

\* run_get_csr.  It fails with GET_CSR_FAIL_MSG once a CA was uploaded, which
\* ends auto_initialize; after another failure there is no 'output'.
RunGetCsr ==
  /\ pc = "get_csr"
  /\ \/ ca # NoCa /\ Goto("done")
     \/ ca = NoCa /\ authorized /\ Goto("upload")
     \/ ca = NoCa /\ Goto("raised")
  /\ UNCHANGED <<validate, entry, runs, client, creds, units>>

\* run_upload_signed_csr, for the request that vault made in this run; that the
\* action failed is not noticed.
RunUploadSignedCsr ==
  /\ pc = "upload"
  /\ ca' \in {SignCsr(runs, GenerateCert), ca}
  /\ Goto(IF validate THEN "validate" ELSE "done") \/ Goto("raised")
  /\ UNCHANGED <<validate, entry, runs, client, creds, storage, vip, inits, vault, sealed,
                 unsealing, file, authorized, restarts, disturbed>>

ValidateNothing ==
  /\ pc = "validate" /\ Goto("done")
  /\ UNCHANGED <<validate, entry, runs, client, creds, units>>

\* block_until_ca_exists: every unit of the application has this root; it is the
\* one that came with the certificate vault issues from.
CaExists(root) == ca.signedWith = root.key

\* validate_ca: the application gets the root of this run, and its certificate then
\* leads to it, or the wait times out and validate_ca raises.
ValidateCa ==
  /\ pc = "validate"
  /\ Goto(IF CaExists(GenerateCert) THEN "done" ELSE "raised")
  /\ UNCHANGED <<validate, entry, runs, client, creds, units>>

-----------------------------------------------------------------------------
(* The environment *)

\* A call raises without an effect, a connection is refused too often, or the
\* run is killed.
Fail ==
  /\ pc \notin Ended
  /\ Goto("raised")
  /\ UNCHANGED <<validate, entry, runs, client, creds, units>>

\* A unit that was given its key has unsealed.
FinishUnseal ==
  /\ \E u \in unsealing : sealed' = sealed \ {u} /\ unsealing' = unsealing \ {u}
  /\ UNCHANGED <<pc, setup, storage, vip, inits, vault, file, authorized, ca, restarts,
                 disturbed>>

RestartUnit ==
  /\ restarts < MaxRestarts
  /\ \E u \in (Names \ sealed) \cup unsealing :
       sealed' = sealed \cup {u} /\ unsealing' = unsealing \ {u}
  /\ restarts' = restarts + 1 /\ disturbed' = TRUE
  /\ UNCHANGED <<pc, setup, storage, vip, inits, vault, file, authorized, ca>>

\* A unit without a vault joins that of a unit that is unsealed.
JoinRaft ==
  /\ storage = "raft"
  /\ \E u \in Names, v \in Names \ sealed :
       vault[u] = 0 /\ vault[v] # 0 /\ vault' = [vault EXCEPT ![u] = vault[v]]
  /\ UNCHANGED <<pc, setup, storage, vip, inits, sealed, unsealing, file, authorized, ca, restarts,
                 disturbed>>

MoveVip ==
  /\ vip # "none"
  /\ \E u \in Names \ {vip} : vip' = u
  /\ UNCHANGED <<pc, setup, storage, inits, vault, sealed, unsealing, file, authorized, ca, restarts,
                 disturbed>>

Rerun ==
  /\ pc \in Ended /\ runs < MaxRuns
  /\ runs' = runs + 1 /\ at' = 1 /\ polls' = 0 /\ creds' = 0
  /\ entry' \in Entries /\ pc' = Start(entry')
  /\ client' = UnsealClient
  /\ disturbed' = FALSE
  /\ UNCHANGED <<validate, storage, vip, inits, vault, sealed, unsealing, file, authorized, ca, restarts>>

Terminated == pc \in Ended /\ runs = MaxRuns /\ UNCHANGED vars

Run ==
  \/ CheckInitialized \/ InitVault \/ StoreCredentials \/ GetInitializedClient
  \/ GetCredentials \/ UnsealFirst \/ WaitUntilAllInitialised \/ UnsealAll
  \/ WaitForHaSettled \/ RunCharmAuthorize \/ RunGetCsr \/ RunUploadSignedCsr
  \/ ValidateCa

Next == Run \/ Fail \/ FinishUnseal \/ RestartUnit \/ JoinRaft \/ MoveVip \/ Rerun \/ Terminated

Spec == Init /\ [][Next]_vars /\ WF_vars(Run)

-----------------------------------------------------------------------------
\* Vault is initialised once, and the stored credentials are those of every unit,
\* however often and where the setup was stopped and run again.  With raft and a
\* virtual IP this is not so: the IP may move to a unit that has not joined yet,
\* which is then initialised a second time and its keys stored over the first.
OneVault ==
  storage = "shared" \/ vip = "none" =>
    \A u, v \in Names : vault[u] # 0 =>
      vault[v] \in {0, vault[u]} /\ file[v] \in {0, vault[u]}

\* When a function that unseals has returned every unit was given the key of its
\* vault, whichever the virtual IP led to and when units joined, unless one was
\* restarted meanwhile; with raft basic_setup_and_unseal and auto_initialize have
\* also waited until none is sealed, which unseal_by_unit does not.
UnsealedWhenDone ==
  pc = "done" /\ entry # "basic_setup" /\ ~disturbed =>
    /\ sealed \subseteq unsealing
    /\ storage = "raft" /\ entry # "unseal_by_unit" => sealed = {}

\* auto_initialize with a validation application returns only if vault has a CA
\* certificate that a root signed for it in the run that requested it, although
\* it does not look at the results of the actions.
CaUploaded ==
  pc = "done" /\ entry = "auto_initialize" /\ validate =>
    ca # NoCa /\ ca.key = ca.signedWith

\* Every run ends: the waits give up.
Termination == []<>(pc \in Ended)

=============================================================================
