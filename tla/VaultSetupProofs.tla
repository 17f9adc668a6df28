-------------------------- MODULE VaultSetupProofs --------------------------
(***************************************************************************)
(* Proofs about VaultSetup, for any number of units, runs and restarts.    *)
(***************************************************************************)
EXTENDS VaultSetup, TLAPS

USE DEF Goto, Ended, Calls, setup, units

\* Clients are made for the units of juju's status, of which there is one.
LEMMA UnitsType ==
  /\ Len(Units) \in Nat \ {0}
  /\ \A i \in 1..Len(Units) : Units[i] \in Names
  /\ Units[1] \in Names
  /\ \A u \in Names : \E i \in 1..Len(Units) : u = Units[i]
  /\ "none" \notin Names /\ "vip" \notin Names
  /\ Polls \in Nat \ {0} /\ MaxRuns \in Nat \ {0} /\ MaxRestarts \in Nat
<1>1. Units \in Seq(STRING) /\ Len(Units) > 0
  BY VaultAssumption
<1>2. DOMAIN Units = 1..Len(Units) /\ Len(Units) \in Nat
  BY <1>1
<1>3. Names = {Units[i] : i \in 1..Len(Units)}
  BY <1>2 DEF Names, Range
<1>4. "none" \notin Names /\ "vip" \notin Names
  BY VaultAssumption
<1>5. Polls \in Nat \ {0} /\ MaxRuns \in Nat \ {0} /\ MaxRestarts \in Nat
  BY VaultAssumption
<1> QED
  BY <1>1, <1>2, <1>3, <1>4, <1>5

\* The same without the units other than the first.
LEMMA BoundsType ==
  /\ Len(Units) \in Nat \ {0} /\ Units[1] \in Names
  /\ "none" \notin Names /\ "vip" \notin Names
  /\ Polls \in Nat \ {0} /\ MaxRuns \in Nat \ {0}
  BY UnitsType

\* A client that uses the virtual IP is made only where there is one; a run
\* makes at most one init, and only at its beginning.
TypeInv ==
  /\ TypeOK
  /\ client = "vip" => vip # "none"
  /\ inits <= runs
  /\ pc \in {"check", "init"} => inits < runs
  /\ pc \in {"wait_all", "unseal_all", "ha_settled", "ha_settled_again"} => at <= Len(Units)
  /\ polls < Polls

\* A loop over the clients stays within the units.
LEMMA PollType ==
  ASSUME TypeInv, NEW reached \in BOOLEAN, NEW after \in Calls \cup Ended,
         Poll(reached, after),
         pc \in {"wait_all", "unseal_all", "ha_settled", "ha_settled_again"},
         after \notin {"check", "init"}
  PROVE  /\ pc' \in Calls \cup Ended /\ pc' \notin {"check", "init"}
         /\ at' \in 1..Len(Units) /\ polls' \in 0..Polls /\ polls' < Polls
BY UnitsType DEF TypeInv, TypeOK, Poll

\* The flags, on their own as they are Boolean.
LEMMA FlagsStep == FlagsOK /\ [Next]_vars => FlagsOK'
<1> SUFFICES ASSUME FlagsOK, [Next]_vars PROVE FlagsOK'
  OBVIOUS
<1> USE DEF FlagsOK
<1>1. CASE CheckInitialized
  BY <1>1 DEF CheckInitialized
<1>2. CASE InitVault
  BY <1>2 DEF InitVault
<1>3. CASE StoreCredentials
  BY <1>3 DEF StoreCredentials
<1>4. CASE GetInitializedClient
  BY <1>4 DEF GetInitializedClient
<1>5. CASE GetCredentials
  BY <1>5 DEF GetCredentials
<1>6. CASE UnsealFirst
  BY <1>6 DEF UnsealFirst
<1>7. CASE WaitUntilAllInitialised
  BY <1>7 DEF WaitUntilAllInitialised
<1>8. CASE UnsealAll
  BY <1>8 DEF UnsealAll
<1>9. CASE WaitForHaSettled
  BY <1>9 DEF WaitForHaSettled
<1>10. CASE RunCharmAuthorize
  BY <1>10 DEF RunCharmAuthorize
<1>11. CASE RunGetCsr
  BY <1>11 DEF RunGetCsr
<1>12. CASE RunUploadSignedCsr
  BY <1>12 DEF RunUploadSignedCsr
<1>13. CASE ValidateCa
  BY <1>13 DEF ValidateCa, CaExists
<1>14. CASE Fail
  BY <1>14 DEF Fail
<1>15. CASE RestartUnit
  BY <1>15 DEF RestartUnit
<1>16. CASE JoinRaft
  BY <1>16 DEF JoinRaft
<1>17. CASE MoveVip
  BY <1>17 DEF MoveVip
<1>18. CASE Rerun
  BY <1>18 DEF Rerun, UnsealClient
<1>21. CASE FinishUnseal
  BY <1>21 DEF FinishUnseal
<1>19. CASE Terminated
  BY <1>19 DEF Terminated, vars
<1>20. CASE UNCHANGED vars
  BY <1>20 DEF vars
<1> QED
  BY <1>1, <1>2, <1>3, <1>4, <1>5, <1>6, <1>7, <1>8, <1>9, <1>10, <1>11, <1>12, <1>13,
     <1>14, <1>15, <1>16, <1>17, <1>18, <1>19, <1>20, <1>21 DEF Next, Run

\* Every step keeps the types.
LEMMA TypeInvStep == TypeInv /\ [Next]_vars => TypeInv'
<1> SUFFICES ASSUME TypeInv, [Next]_vars PROVE TypeInv'
  OBVIOUS
<1> USE DEF TypeInv, TypeOK, Vaults
<1>0. FlagsOK'
  BY FlagsStep
<1>1. CASE CheckInitialized
  BY BoundsType, <1>0, <1>1 DEF CheckInitialized, IsInitialized, Unit
<1>2. CASE InitVault
  <2>1. CASE Refuses(Unit(client)) /\ Goto("raised") /\ UNCHANGED <<creds, inits, vault>>
    BY BoundsType, <1>0, <1>2, <2>1 DEF InitVault
  <2>2. CASE ~Refuses(Unit(client)) /\ inits' = inits + 1
    <3>1. inits + 1 \in Vaults /\ pc = "init" /\ creds' = inits + 1
      BY <1>2, <2>2, BoundsType DEF InitVault
    <3>2. vault' \in [Names -> Vaults]
      BY <1>2, <2>2, <3>1 DEF InitVault
    <3>3. pc' \in {"store", "raised"} /\ at' = 1 /\ polls' = 0
      BY <1>2, <2>2 DEF InitVault
    <3>4. UNCHANGED <<validate, entry, runs, client, storage, vip, sealed, unsealing, file, ca>>
      BY <1>2 DEF InitVault
    <3> QED
      BY <1>0, <2>2, <3>1, <3>2, <3>3, <3>4, BoundsType
  <2> QED
    BY <1>2, <2>1, <2>2 DEF InitVault
<1>3. CASE StoreCredentials
  BY BoundsType, <1>0, <1>3 DEF StoreCredentials
<1>4. CASE GetInitializedClient
  <2>1. client' \in Names
    BY <1>4, UnitsType DEF GetInitializedClient
  <2>2. pc' \in {"done", "unseal_all", "unseal_first"} /\ at' = 1 /\ polls' = 0
    BY <1>4 DEF GetInitializedClient, AfterCreds
  <2>3. UNCHANGED <<validate, entry, runs, creds, units>>
    BY <1>4 DEF GetInitializedClient
  <2> QED
    BY <1>0, <2>1, <2>2, <2>3, BoundsType
<1>5. CASE GetCredentials
  <2>1. creds' \in Vaults
    BY <1>5 DEF GetCredentials
  <2>2. pc' \in {"done", "unseal_all", "unseal_first", "raised"} /\ at' = 1 /\ polls' = 0
    BY <1>5 DEF GetCredentials, AfterCreds
  <2>3. UNCHANGED <<validate, entry, runs, client, units>>
    BY <1>5 DEF GetCredentials
  <2> QED
    BY <1>0, <2>1, <2>2, <2>3, BoundsType
<1>6. CASE UnsealFirst
  <2>1. unsealing' \subseteq sealed /\ sealed' = sealed
    BY <1>6 DEF UnsealFirst, Unseal
  <2>2. pc' \in {"wait_all", "raised"} /\ at' = 1 /\ polls' = 0
    BY <1>6 DEF UnsealFirst, Unseal
  <2>3. UNCHANGED <<validate, entry, runs, client, creds, storage, vip, inits, vault, file, ca>>
    BY <1>6 DEF UnsealFirst
  <2> QED
    BY <1>0, <2>1, <2>2, <2>3, BoundsType
<1>7. CASE WaitUntilAllInitialised
  <2>1. (vault[Units[at]] # 0) \in BOOLEAN /\ IsInitialized(Client) = (vault[Units[at]] # 0)
    BY <1>7, UnitsType DEF IsInitialized, Client, Unit, WaitUntilAllInitialised
  <2>2. Poll(vault[Units[at]] # 0, "unseal_all")
    BY <1>7, <2>1 DEF WaitUntilAllInitialised, Poll
  <2>3. pc = "wait_all"
    BY <1>7 DEF WaitUntilAllInitialised
  <2> HIDE DEF TypeInv, TypeOK
  <2>4. /\ pc' \in Calls \cup Ended /\ pc' \notin {"check", "init"}
        /\ at' \in 1..Len(Units) /\ polls' \in 0..Polls /\ polls' < Polls
    BY <2>1, <2>2, <2>3, PollType
  <2>5. UNCHANGED <<validate, entry, runs, client, creds, units>>
    BY <1>7 DEF WaitUntilAllInitialised
  <2>6. TypeOK'
    <3>1. at' \in 1..(Len(Units) + 1)
      BY <2>4, BoundsType
    <3> QED
      BY <1>0, <2>4, <2>5, <3>1 DEF TypeInv, TypeOK
  <2> QED
    BY <2>4, <2>5, <2>6, BoundsType DEF TypeInv
<1>8. CASE UnsealAll
  <2>1. unsealing' \subseteq sealed /\ sealed' = sealed
    BY <1>8 DEF UnsealAll, Unseal
  <2>2. \/ pc' \in {"done", "ha_settled", "raised"} /\ at' = 1 /\ polls' = 0
        \/ pc' = pc /\ at < Len(Units) /\ at' = at + 1 /\ polls' = polls
    BY <1>8 DEF UnsealAll, Unseal, AfterUnseal
  <2>3. /\ pc = "unseal_all"
        /\ UNCHANGED <<validate, entry, runs, client, creds, storage, vip, inits, vault, file, ca>>
    BY <1>8 DEF UnsealAll
  <2>4. at' \in 1..Len(Units) /\ polls' \in 0..Polls /\ polls' < Polls
    BY <2>2, <2>3, BoundsType
  <2>5. pc' \in Calls \cup Ended
    BY <2>2
  <2>6. TypeOK'
    BY <1>0, <2>1, <2>3, <2>4, <2>5
  <2> QED
    BY <2>2, <2>3, <2>4, <2>6
<1>9. CASE WaitForHaSettled
  <2>1. pc \in {"ha_settled", "ha_settled_again"}
    BY <1>9 DEF WaitForHaSettled
  <2>2. AfterSettled \in Calls \cup Ended /\ AfterSettled \notin {"check", "init"}
    BY DEF AfterSettled
  <2>3. PICK settled \in BOOLEAN : Poll(settled, AfterSettled)
    BY <1>9 DEF WaitForHaSettled
  <2> HIDE DEF TypeInv, TypeOK
  <2>4. /\ pc' \in Calls \cup Ended /\ pc' \notin {"check", "init"}
        /\ at' \in 1..Len(Units) /\ polls' \in 0..Polls /\ polls' < Polls
    BY <2>1, <2>2, <2>3, PollType
  <2>5. UNCHANGED <<validate, entry, runs, client, creds, units>>
    BY <1>9 DEF WaitForHaSettled
  <2>6. TypeOK'
    <3>1. at' \in 1..(Len(Units) + 1)
      BY <2>4, BoundsType
    <3> QED
      BY <1>0, <2>4, <2>5, <3>1 DEF TypeInv, TypeOK
  <2> QED
    BY <2>4, <2>5, <2>6, BoundsType DEF TypeInv
<1>10. CASE RunCharmAuthorize
  BY BoundsType, <1>0, <1>10 DEF RunCharmAuthorize
<1>11. CASE RunGetCsr
  <2>1. pc' \in {"done", "upload", "raised"} /\ at' = 1 /\ polls' = 0
    BY <1>11 DEF RunGetCsr
  <2>2. UNCHANGED <<validate, entry, runs, client, creds, units>>
    BY <1>11 DEF RunGetCsr
  <2> QED
    BY <1>0, <2>1, <2>2, BoundsType
<1>12. CASE RunUploadSignedCsr
  <2>1. SignCsr(runs, GenerateCert) \in [key : Vaults, signedWith : Vaults]
    BY BoundsType DEF SignCsr, GenerateCert
  <2>2. ca' \in [key : Vaults, signedWith : Vaults]
    BY <1>12, <2>1 DEF RunUploadSignedCsr
  <2>3. pc' \in {"validate", "done", "raised"} /\ at' = 1 /\ polls' = 0
    BY <1>12 DEF RunUploadSignedCsr
  <2>4. UNCHANGED <<validate, entry, runs, client, creds, storage, vip, inits, vault, sealed, unsealing,
                 file>>
    BY <1>12 DEF RunUploadSignedCsr
  <2> QED
    BY <1>0, <2>2, <2>3, <2>4, BoundsType
<1>13. CASE ValidateCa
  BY BoundsType, <1>0, <1>13 DEF ValidateCa, CaExists, GenerateCert, NoCa
<1>14. CASE Fail
  BY BoundsType, <1>0, <1>14 DEF Fail
<1>15. CASE RestartUnit
  BY BoundsType, <1>0, <1>15 DEF RestartUnit
<1>16. CASE JoinRaft
  BY BoundsType, <1>0, <1>16 DEF JoinRaft
<1>17. CASE MoveVip
  <2>1. vip' \in Names /\ vip' # "none"
    BY <1>17, BoundsType DEF MoveVip
  <2>2. UNCHANGED <<pc, setup, storage, inits, vault, sealed, unsealing, file, ca>>
    BY <1>17 DEF MoveVip
  <2> QED
    BY <1>0, <2>1, <2>2
<1>18. CASE Rerun
  BY BoundsType, <1>0, <1>18 DEF Rerun, UnsealClient, Start, Entries
<1>21. CASE FinishUnseal
  BY BoundsType, <1>0, <1>21 DEF FinishUnseal
<1>19. CASE Terminated
  BY BoundsType, <1>0, <1>19 DEF Terminated, vars
<1>20. CASE UNCHANGED vars
  BY BoundsType, <1>0, <1>20 DEF vars
<1> QED
  BY <1>1, <1>2, <1>3, <1>4, <1>5, <1>6, <1>7, <1>8, <1>9, <1>10, <1>11, <1>12, <1>13,
     <1>14, <1>15, <1>16, <1>17, <1>18, <1>19, <1>20, <1>21 DEF Next, Run

\* The types hold at the start.
LEMMA InitTypeInv == Init => TypeInv
<1> SUFFICES ASSUME Init PROVE TypeInv
  OBVIOUS
<1>1. FlagsOK
  BY DEF Init, FlagsOK
<1>2. TypeOK
  BY <1>1, UnitsType DEF Init, UnsealClient, TypeOK, Vaults, Entries, Start, NoCa
<1> QED
  BY <1>2, UnitsType DEF Init, UnsealClient, TypeInv

\* Every variable of the vault setup keeps its type, for every number of units.
THEOREM TypeCorrect == Spec => []TypeOK
<1>1. Init => TypeInv
  BY InitTypeInv
<1>2. TypeInv => TypeOK
  BY DEF TypeInv
<1> QED
  BY <1>1, <1>2, TypeInvStep, PTL DEF Spec

\* Where all units share a storage, or each is asked by its own address, every
\* unit and every stored file has the keys of the first unit or none at all: an
\* init is made only where the first unit has no vault, and then nothing has.
OneKey ==
  storage = "shared" \/ vip = "none" =>
    /\ \A u \in Names : vault[u] \in {0, vault[Units[1]]} /\ file[u] \in {0, vault[Units[1]]}
    /\ pc = "store" => creds = vault[Units[1]]
    /\ storage = "shared" => \A u \in Names : vault[u] = vault[Units[1]]
    /\ storage = "raft" /\ pc \in {"check", "init"} => client = Units[1]

\* unseal_all has given the units it has passed their key, and all of them at its
\* end; with raft the wait after it leaves those it has passed unsealed, and the
\* calls after that rely on it.
UnsealedSoFar ==
  ~disturbed =>
    /\ pc = "unseal_all" => \A i \in 1..(at - 1) : Units[i] \in sealed => Units[i] \in unsealing
    /\ pc \in {"ha_settled", "ha_settled_again", "authorize", "get_csr", "upload", "validate"}
         => sealed \subseteq unsealing
    /\ pc = "done" /\ entry # "basic_setup" => sealed \subseteq unsealing
    /\ storage = "raft" =>
         /\ pc = "ha_settled" => \A i \in 1..(at - 1) : Units[i] \notin sealed
         /\ pc \in {"ha_settled_again", "authorize", "get_csr", "upload", "validate"}
              => sealed = {}
         /\ pc = "done" /\ entry \notin {"basic_setup", "unseal_by_unit"} => sealed = {}

\* Whatever vault issues from was signed in the run that requested it; and
\* auto_initialize ends only after it has found or validated it.
CaSigned ==
  /\ ca.key = ca.signedWith
  /\ pc = "done" /\ entry = "auto_initialize" /\ validate => ca # NoCa

\* Every step keeps OneKey.
LEMMA OneKeyStep == TypeInv /\ OneKey /\ [Next]_vars => OneKey'
<1> SUFFICES ASSUME TypeInv, OneKey, [Next]_vars PROVE OneKey'
  OBVIOUS
<1> USE DEF TypeInv, TypeOK, OneKey
<1>1. CASE CheckInitialized
  BY UnitsType, <1>1 DEF CheckInitialized, IsInitialized, Unit
<1>2. CASE InitVault
  BY UnitsType, <1>2 DEF InitVault, Refuses, Unit
<1>3. CASE StoreCredentials
  BY UnitsType, <1>3 DEF StoreCredentials
<1>4. CASE GetInitializedClient
  BY UnitsType, <1>4 DEF GetInitializedClient, IsInitialized, Unit, AfterCreds
<1>5. CASE GetCredentials
  BY UnitsType, <1>5 DEF GetCredentials, AfterCreds, HasCreds
<1>6. CASE UnsealFirst
  BY UnitsType, <1>6 DEF UnsealFirst, Unseal, Unit
<1>7. CASE WaitUntilAllInitialised
  BY UnitsType, <1>7 DEF WaitUntilAllInitialised, Poll
<1>8. CASE UnsealAll
  BY UnitsType, <1>8 DEF UnsealAll, Unseal, AfterUnseal, Client
<1>9. CASE WaitForHaSettled
  BY UnitsType, <1>9 DEF WaitForHaSettled, AfterSettled, Poll
<1>10. CASE RunCharmAuthorize
  BY UnitsType, <1>10 DEF RunCharmAuthorize
<1>11. CASE RunGetCsr
  BY UnitsType, <1>11 DEF RunGetCsr
<1>12. CASE RunUploadSignedCsr
  BY UnitsType, <1>12 DEF RunUploadSignedCsr, SignCsr, GenerateCert
<1>13. CASE ValidateCa
  BY UnitsType, <1>13 DEF ValidateCa, CaExists, GenerateCert, NoCa
<1>14. CASE Fail
  BY UnitsType, <1>14 DEF Fail
<1>15. CASE RestartUnit
  BY UnitsType, <1>15 DEF RestartUnit
<1>16. CASE JoinRaft
  BY UnitsType, <1>16 DEF JoinRaft
<1>17. CASE MoveVip
  BY UnitsType, <1>17 DEF MoveVip
<1>18. CASE Rerun
  BY UnitsType, <1>18 DEF Rerun, UnsealClient, Start, Entries
<1>21. CASE FinishUnseal
  BY UnitsType, <1>21 DEF FinishUnseal
<1>19. CASE Terminated
  BY UnitsType, <1>19 DEF Terminated, vars
<1>20. CASE UNCHANGED vars
  BY UnitsType, <1>20 DEF vars
<1> QED
  BY <1>1, <1>2, <1>3, <1>4, <1>5, <1>6, <1>7, <1>8, <1>9, <1>10, <1>11, <1>12, <1>13,
     <1>14, <1>15, <1>16, <1>17, <1>18, <1>19, <1>20, <1>21 DEF Next, Run

\* Vault is initialised once and the stored keys are those of every unit, for
\* every number of units and of runs that were stopped, unless raft units are
\* asked through a virtual IP.
THEOREM VaultInitialisedOnce == Spec => []OneVault
<1>1. Init => TypeInv /\ OneKey
  BY InitTypeInv, UnitsType DEF Init, UnsealClient, OneKey
<1>2. TypeInv /\ OneKey => OneVault
  BY UnitsType DEF TypeInv, TypeOK, OneKey, OneVault
<1> QED
  BY <1>1, <1>2, TypeInvStep, OneKeyStep, PTL DEF Spec

\* Every step keeps UnsealedSoFar.
LEMMA UnsealedStep == TypeInv /\ UnsealedSoFar /\ [Next]_vars => UnsealedSoFar'
<1> SUFFICES ASSUME TypeInv, UnsealedSoFar, [Next]_vars PROVE UnsealedSoFar'
  OBVIOUS
<1> USE DEF TypeInv, TypeOK, UnsealedSoFar
<1>1. CASE CheckInitialized
  BY UnitsType, <1>1 DEF CheckInitialized, IsInitialized, Unit
<1>2. CASE InitVault
  BY UnitsType, <1>2 DEF InitVault, Refuses, Unit
<1>3. CASE StoreCredentials
  BY UnitsType, <1>3 DEF StoreCredentials
<1>4. CASE GetInitializedClient
  BY UnitsType, <1>4 DEF GetInitializedClient, IsInitialized, Unit, AfterCreds
<1>5. CASE GetCredentials
  BY UnitsType, <1>5 DEF GetCredentials, AfterCreds, HasCreds
<1>6. CASE UnsealFirst
  BY UnitsType, <1>6 DEF UnsealFirst, Unseal, Unit
<1>7. CASE WaitUntilAllInitialised
  BY UnitsType, <1>7 DEF WaitUntilAllInitialised, Poll
<1>8. CASE UnsealAll
  <2>0. /\ pc = "unseal_all" /\ at \in 1..Len(Units)
        /\ UNCHANGED <<disturbed, entry, storage, sealed>>
    BY <1>8 DEF UnsealAll
  <2>1. unsealing \subseteq unsealing' /\ unsealing' \subseteq sealed
    BY <1>8 DEF UnsealAll, Unseal
  <2>2. CASE pc' = "raised"
    BY <2>2
  <2> DEFINE Given == Client \in sealed => Client \in unsealing'
  <2>3. CASE Given /\ at < Len(Units) /\ at' = at + 1 /\ pc' = pc
    BY <2>0, <2>1, <2>3, UnitsType DEF Client
  <2>4. CASE Given /\ at = Len(Units) /\ at' = 1 /\ pc' = AfterUnseal
    <3>1. ~disturbed => \A i \in 1..Len(Units) : Units[i] \in sealed => Units[i] \in unsealing'
      BY <2>0, <2>1, <2>4, UnitsType DEF Client
    <3>2. ~disturbed => sealed' \subseteq unsealing'
      BY <2>0, <3>1, UnitsType
    <3> QED
      BY <2>0, <2>4, <3>2, UnitsType DEF AfterUnseal
  <2> QED
    BY <1>8, <2>0, <2>2, <2>3, <2>4 DEF UnsealAll, Unseal
<1>9. CASE WaitForHaSettled
  <2>0. /\ pc \in {"ha_settled", "ha_settled_again"} /\ at \in 1..Len(Units)
        /\ UNCHANGED <<disturbed, entry, storage, sealed, unsealing>>
    BY <1>9 DEF WaitForHaSettled
  <2> DEFINE Settled == storage = "raft" => Client \notin sealed
  <2>1. CASE pc' = "raised"
    BY <2>1
  <2>2. CASE pc' = pc /\ at' = at
    BY <2>0, <2>2
  <2>3. CASE Settled /\ at < Len(Units) /\ at' = at + 1 /\ pc' = pc
    BY <2>0, <2>3, UnitsType DEF Client
  <2>4. CASE Settled /\ at = Len(Units) /\ at' = 1 /\ pc' = AfterSettled
    <3>1. ~disturbed /\ storage = "raft" /\ pc = "ha_settled" =>
            \A i \in 1..Len(Units) : Units[i] \notin sealed
      BY <2>0, <2>4, UnitsType DEF Client
    <3>2. ~disturbed /\ storage = "raft" => sealed = {}
      BY <2>0, <3>1, UnitsType
    <3> QED
      BY <2>0, <2>4, <3>2, UnitsType DEF AfterSettled
  <2> QED
    BY <1>9, <2>0, <2>1, <2>2, <2>3, <2>4 DEF WaitForHaSettled, Poll
<1>10. CASE RunCharmAuthorize
  BY UnitsType, <1>10 DEF RunCharmAuthorize
<1>11. CASE RunGetCsr
  BY UnitsType, <1>11 DEF RunGetCsr
<1>12. CASE RunUploadSignedCsr
  BY UnitsType, <1>12 DEF RunUploadSignedCsr, SignCsr, GenerateCert
<1>13. CASE ValidateCa
  BY UnitsType, <1>13 DEF ValidateCa, CaExists, GenerateCert, NoCa
<1>14. CASE Fail
  BY UnitsType, <1>14 DEF Fail
<1>15. CASE RestartUnit
  BY UnitsType, <1>15 DEF RestartUnit
<1>16. CASE JoinRaft
  BY UnitsType, <1>16 DEF JoinRaft
<1>17. CASE MoveVip
  BY UnitsType, <1>17 DEF MoveVip
<1>18. CASE Rerun
  BY UnitsType, <1>18 DEF Rerun, UnsealClient, Start, Entries
<1>21. CASE FinishUnseal
  BY UnitsType, <1>21 DEF FinishUnseal
<1>19. CASE Terminated
  BY UnitsType, <1>19 DEF Terminated, vars
<1>20. CASE UNCHANGED vars
  BY UnitsType, <1>20 DEF vars
<1> QED
  BY <1>1, <1>2, <1>3, <1>4, <1>5, <1>6, <1>7, <1>8, <1>9, <1>10, <1>11, <1>12, <1>13,
     <1>14, <1>15, <1>16, <1>17, <1>18, <1>19, <1>20, <1>21 DEF Next, Run

\* A function that unseals gives every unit its key, and with raft it returns only
\* when none is sealed any more unless it is unseal_by_unit, for every number of
\* units and wherever runs before it were stopped.
THEOREM AllUnsealed == Spec => []UnsealedWhenDone
<1>1. Init => TypeInv /\ UnsealedSoFar
  BY InitTypeInv, UnitsType DEF Init, UnsealedSoFar, Start
<1>2. UnsealedSoFar => UnsealedWhenDone
  BY DEF UnsealedSoFar, UnsealedWhenDone
<1> QED
  BY <1>1, <1>2, TypeInvStep, UnsealedStep, PTL DEF Spec

\* Every step keeps CaSigned.
LEMMA CaSignedStep == TypeInv /\ CaSigned /\ [Next]_vars => CaSigned'
<1> SUFFICES ASSUME TypeInv, CaSigned, [Next]_vars PROVE CaSigned'
  OBVIOUS
<1> USE DEF TypeInv, TypeOK, CaSigned
<1>1. CASE CheckInitialized
  BY UnitsType, <1>1 DEF CheckInitialized, IsInitialized, Unit
<1>2. CASE InitVault
  BY UnitsType, <1>2 DEF InitVault, Refuses, Unit
<1>3. CASE StoreCredentials
  BY UnitsType, <1>3 DEF StoreCredentials
<1>4. CASE GetInitializedClient
  BY UnitsType, <1>4 DEF GetInitializedClient, IsInitialized, Unit, AfterCreds
<1>5. CASE GetCredentials
  BY UnitsType, <1>5 DEF GetCredentials, AfterCreds, HasCreds
<1>6. CASE UnsealFirst
  BY UnitsType, <1>6 DEF UnsealFirst, Unseal, Unit
<1>7. CASE WaitUntilAllInitialised
  BY UnitsType, <1>7 DEF WaitUntilAllInitialised, Poll
<1>8. CASE UnsealAll
  BY UnitsType, <1>8 DEF UnsealAll, Unseal, AfterUnseal, Client
<1>9. CASE WaitForHaSettled
  BY UnitsType, <1>9 DEF WaitForHaSettled, AfterSettled, Poll
<1>10. CASE RunCharmAuthorize
  BY UnitsType, <1>10 DEF RunCharmAuthorize
<1>11. CASE RunGetCsr
  BY UnitsType, <1>11 DEF RunGetCsr
<1>12. CASE RunUploadSignedCsr
  BY UnitsType, <1>12 DEF RunUploadSignedCsr, SignCsr, GenerateCert
<1>13. CASE ValidateCa
  BY UnitsType, <1>13 DEF ValidateCa, CaExists, GenerateCert, NoCa
<1>14. CASE Fail
  BY UnitsType, <1>14 DEF Fail
<1>15. CASE RestartUnit
  BY UnitsType, <1>15 DEF RestartUnit
<1>16. CASE JoinRaft
  BY UnitsType, <1>16 DEF JoinRaft
<1>17. CASE MoveVip
  BY UnitsType, <1>17 DEF MoveVip
<1>18. CASE Rerun
  BY UnitsType, <1>18 DEF Rerun, UnsealClient, Start, Entries
<1>21. CASE FinishUnseal
  BY UnitsType, <1>21 DEF FinishUnseal
<1>19. CASE Terminated
  BY UnitsType, <1>19 DEF Terminated, vars
<1>20. CASE UNCHANGED vars
  BY UnitsType, <1>20 DEF vars
<1> QED
  BY <1>1, <1>2, <1>3, <1>4, <1>5, <1>6, <1>7, <1>8, <1>9, <1>10, <1>11, <1>12, <1>13,
     <1>14, <1>15, <1>16, <1>17, <1>18, <1>19, <1>20, <1>21 DEF Next, Run

\* auto_initialize with validation ends with a CA certificate in vault that was
\* signed in the run that requested it.
THEOREM CaInPlace == Spec => []CaUploaded
<1>1. Init => TypeInv /\ CaSigned
  BY InitTypeInv, UnitsType DEF Init, CaSigned, Start, NoCa
<1>2. CaSigned => CaUploaded
  BY DEF CaSigned, CaUploaded
<1> QED
  BY <1>1, <1>2, TypeInvStep, CaSignedStep, PTL DEF Spec

=============================================================================
