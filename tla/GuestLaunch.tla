----------------------------- MODULE GuestLaunch -----------------------------
(***************************************************************************)
(* How tests launch guests: launch_guests of charm_tests/test_utils.py as  *)
(* NeutronNetworkingTest uses it, and launch_instance_retryer of           *)
(* configure/guest.py, on top of launch_instance and the waits of          *)
(* utilities/openstack.py.                                                 *)
(*                                                                         *)
(* An attempt to launch may fail at every call; a server may stay in BUILD *)
(* or take its time to go away after it was deleted.  Every call of the    *)
(* nova client goes through ObjectRetrierWraps, so a create whose answer   *)
(* is lost is repeated and leaves a second server behind.  A failed test   *)
(* may be run again and finds what it left.                                *)
(***************************************************************************)
EXTENDS Naturals, FiniteSets, FiniteSetsExt

CONSTANTS
  Attempts,      \* stop_after_attempt of both launchers
  ActivePolls,   \* stop_after_attempt of resource_reaches_status
  RemovedPolls,  \* stop_after_attempt of resource_removed
  MaxServers,    \* bound on the servers ever created
  MaxLost,       \* bound on the creates whose answer is lost
  MaxRuns        \* bound on the runs of the test

ASSUME LaunchAssumption ==
  /\ {Attempts, ActivePolls, RemovedPolls, MaxRuns} \subseteq Nat \ {0}
  /\ {MaxServers, MaxLost} \subseteq Nat

VARIABLES
  launcher,  \* "launch_guest" or "launch_instance_retryer"
  run,       \* runs of the test started
  pc,        \* the call the test is at
  guest,     \* the guest being launched: 1 or 2
  attempt,   \* attempts made to launch it
  polls,     \* polls of the wait the test is in
  target,    \* the server awaited or deleted, or 0
  todo,      \* servers that resource_cleanup has not deleted yet
  checked,   \* the instances check_connectivity was called with
  gaveUp,    \* resource_cleanup gave up waiting
  lost,      \* creates whose answer was lost
  server,    \* [1..MaxServers -> status in nova, "none" before and "gone" after]
  owner      \* [1..MaxServers -> the guest whose name the server has, or 0]

test == <<run, guest, attempt, polls, target, todo, checked, gaveUp>>
cloud == <<lost, server, owner>>
vars == <<launcher, pc, test, cloud>>

Guests == {1, 2}
Servers == 1..MaxServers

Present(s) == server[s] \notin {"none", "gone"}

\* What servers.find(name=...) matches; a server that is being deleted is found.
Named(g) == {s \in Servers : Present(s) /\ owner[s] = g}

Starts == [launch_guest |-> "retrieve", launch_instance_retryer |-> "create"]

Init ==
  /\ launcher \in DOMAIN Starts
  /\ run = 1 /\ pc = Starts[launcher]
  /\ guest = 1 /\ attempt = 1 /\ polls = 0 /\ target = 0
  /\ todo = {} /\ checked = <<>> /\ gaveUp = FALSE /\ lost = 0
  /\ server = [s \in Servers |-> "none"]
  /\ owner = [s \in Servers |-> 0]

-----------------------------------------------------------------------------
(* The launchers *)

Ended == {"done", "raised", "callback_raised"}

AfterOnlyBetween ==
  IF attempt = Attempts
    THEN pc' = "raised" /\ UNCHANGED attempt
    ELSE /\ pc' = IF launcher = "launch_guest" THEN "find" ELSE "after"
         /\ attempt' = IF launcher = "launch_guest" THEN attempt + 1 ELSE attempt

\* An attempt raised.  launch_guest tries again, from the search for an old
\* instance; launch_instance_retryer runs remove_vm_on_failure first, after the
\* last attempt too.
AttemptFailed ==
  \/ launcher = "launch_instance_retryer" /\ pc' = "after" /\ UNCHANGED attempt
  \/ /\ launcher = "launch_guest"
     /\ attempt < Attempts
     /\ attempt' = attempt + 1 /\ pc' = "find"
  \/ /\ launcher = "launch_guest"
     /\ attempt = Attempts
     /\ pc' = "raised" /\ UNCHANGED attempt

\* resource.delete, the first half of delete_resource.
Delete(s) ==
  /\ server' = [server EXCEPT ![s] = "DELETING"]
  /\ target' = s /\ polls' = 0

DeleteIssued == TRUE
Removed == ~Present(target)

\* One poll of resource_removed: it returns, polls again or raises.
PollRemoved(l, returns, raises) ==
  /\ pc = l
  /\ \/ Removed /\ returns /\ UNCHANGED polls
     \/ /\ ~Removed /\ polls + 1 < RemovedPolls
        /\ polls' = polls + 1 /\ UNCHANGED <<pc, attempt>>
     \/ ~Removed /\ polls + 1 = RemovedPolls /\ raises /\ UNCHANGED polls

\* An attempt of launch_guest: retrieve_guest, and delete_resource for an old
\* instance.  Two instances of the name make find raise NoUniqueMatch.
FindOld ==
  /\ pc = "find"
  /\ \/ /\ Named(guest) = {}
        /\ pc' = "create" /\ UNCHANGED <<attempt, polls, target, server>>
     \/ /\ Cardinality(Named(guest)) = 1
        /\ Delete(CHOOSE s \in Named(guest) : TRUE)
        /\ pc' = "removing" /\ UNCHANGED attempt
     \/ /\ Cardinality(Named(guest)) > 1
        /\ AttemptFailed /\ UNCHANGED <<polls, target, server>>
  /\ UNCHANGED <<launcher, run, guest, todo, checked, gaveUp, lost, owner>>

OldRemoved ==
  /\ PollRemoved("removing", pc' = "create" /\ UNCHANGED attempt, AttemptFailed)
  /\ UNCHANGED <<launcher, run, guest, target, todo, checked, gaveUp, cloud>>

\* launch_instance: servers.create, n times when the answers of the first ones
\* are lost.  It returns the last server, or raises.
Create(n, returns) ==
  LET used == Cardinality({s \in Servers : server[s] # "none"})
      new == (used + 1)..(used + n)
  IN /\ pc = "create"
     /\ used + n <= MaxServers
     /\ LET lostNow == IF returns THEN n - 1 ELSE n
        IN lost + lostNow <= MaxLost /\ lost' = lost + lostNow
     /\ server' = [s \in Servers |-> IF s \in new THEN "BUILD" ELSE server[s]]
     /\ owner' = [s \in Servers |-> IF s \in new THEN guest ELSE owner[s]]
     /\ IF returns
          THEN target' = used + n /\ polls' = 0 /\ pc' = "active" /\ UNCHANGED attempt
          ELSE AttemptFailed /\ UNCHANGED <<target, polls>>
     /\ UNCHANGED <<launcher, run, guest, todo, checked, gaveUp>>

ReachedStatus == server[target] = "ACTIVE"

PollUntilActive ==
  /\ pc = "active"
  /\ \/ ReachedStatus /\ pc' = "cloud_init" /\ UNCHANGED attempt
     \/ server[target] = "ERROR" /\ AttemptFailed
     \/ server[target] = "BUILD" /\ UNCHANGED <<pc, attempt>>
  /\ UNCHANGED <<launcher, run, guest, polls, target, todo, checked, gaveUp, cloud>>

\* resource_reaches_status with stop_status 'ERROR'.
PollActive ==
  /\ pc = "active"
  /\ \/ ReachedStatus /\ pc' = "cloud_init" /\ UNCHANGED <<attempt, polls>>
     \/ server[target] = "ERROR" /\ AttemptFailed /\ UNCHANGED polls
     \/ /\ server[target] = "BUILD" /\ polls + 1 < ActivePolls
        /\ polls' = polls + 1 /\ UNCHANGED <<pc, attempt>>
     \/ /\ server[target] = "BUILD" /\ polls + 1 = ActivePolls
        /\ AttemptFailed /\ UNCHANGED polls
  /\ UNCHANGED <<launcher, run, guest, target, todo, checked, gaveUp, cloud>>

CloudInitComplete ==
  /\ pc = "cloud_init"
  /\ pc' = "floating_ip"
  /\ UNCHANGED <<launcher, test, cloud>>

\* create_floating_ip.  The floating IPs are not kept: nothing here depends on them.
CreateFloatingIP ==
  /\ pc = "floating_ip"
  /\ pc' = "connect"
  /\ UNCHANGED <<launcher, test, cloud>>

\* ping_response and ssh_test succeed: the attempt returns, and launch_guests
\* goes on to the second guest.
Connect ==
  /\ pc = "connect"
  /\ IF launcher = "launch_guest" /\ guest = 1
       THEN guest' = 2 /\ attempt' = 1 /\ pc' = "find"
       ELSE /\ pc' = IF launcher = "launch_guest" THEN "retrieve_again" ELSE "done"
            /\ UNCHANGED <<guest, attempt>>
  /\ UNCHANGED <<launcher, run, polls, target, todo, checked, gaveUp, cloud>>

\* A call of the attempt raises in some other way: cloud_init_complete or
\* ping_response give up, a client call fails, also in the last poll of a wait.
AttemptRaises ==
  /\ pc \in {"find", "removing", "active", "cloud_init", "floating_ip", "connect"}
  /\ AttemptFailed
  /\ UNCHANGED <<launcher, run, guest, polls, target, todo, checked, gaveUp, cloud>>

\* remove_vm_on_failure.  find raises unless exactly one server has the name,
\* and an exception of the callback ends the retries.
RemoveVMOnFailure ==
  /\ pc = "after"
  /\ IF Cardinality(Named(guest)) = 1
       THEN Delete(CHOOSE s \in Named(guest) : TRUE) /\ pc' = "after_removing"
       ELSE pc' = "callback_raised" /\ UNCHANGED <<polls, target, server>>
  /\ UNCHANGED <<launcher, run, guest, attempt, todo, checked, gaveUp, lost, owner>>

VMRemoved ==
  /\ PollRemoved("after_removing",
                 IF attempt < Attempts
                   THEN pc' = "create" /\ attempt' = attempt + 1
                   ELSE pc' = "raised" /\ UNCHANGED attempt,
                 pc' = "callback_raised" /\ UNCHANGED attempt)
  /\ UNCHANGED <<launcher, run, guest, target, todo, checked, gaveUp, cloud>>

-----------------------------------------------------------------------------
(* The test *)

\* retrieve_guests: both look-ups are for the name of the first guest.
Retrieved == IF Cardinality(Named(1)) = 1
               THEN LET s == CHOOSE s \in Named(1) : TRUE IN <<s, s>>
               ELSE <<>>

\* test_instances_have_networking: guests that are there are used, whatever
\* their state; otherwise both are launched and retrieved again.
RetrieveGuests ==
  /\ pc \in {"retrieve", "retrieve_again"}
  /\ \/ /\ Cardinality(Named(1)) = 1
        /\ checked' = Retrieved
        /\ pc' = "check" /\ UNCHANGED <<guest, attempt>>
     \/ /\ Named(1) = {} /\ pc = "retrieve"
        /\ guest' = 1 /\ attempt' = 1
        /\ pc' = "find" /\ UNCHANGED checked
     \/ /\ Cardinality(Named(1)) > 1 \/ (Named(1) = {} /\ pc = "retrieve_again")
        /\ pc' = "raised" /\ UNCHANGED <<guest, attempt, checked>>
  /\ UNCHANGED <<launcher, run, polls, target, todo, gaveUp, cloud>>

OwnGuests == Named(1)
WithPrefix == {s \in Servers : Present(s)}

\* check_connectivity passes; tearDown runs resource_cleanup, which lists the
\* servers whose name has the prefix of the test.
CheckConnectivity ==
  /\ pc = "check"
  /\ todo' = WithPrefix
  /\ pc' = "cleanup"
  /\ UNCHANGED <<launcher, run, guest, attempt, polls, target, checked, gaveUp, cloud>>

\* delete_resource for the next server listed.  A delete of a server that went
\* since then raises what resource_cleanup does not catch.
CleanupDelete ==
  /\ pc = "cleanup"
  /\ \/ todo = {} /\ pc' = "done" /\ UNCHANGED <<todo, polls, target, server>>
     \/ /\ todo # {} /\ Present(Min(todo))
        /\ Delete(Min(todo))
        /\ todo' = todo \ {Min(todo)}
        /\ pc' = "cleanup_removing"
     \/ /\ todo # {} /\ ~Present(Min(todo))
        /\ pc' = "raised" /\ UNCHANGED <<todo, polls, target, server>>
  /\ UNCHANGED <<launcher, run, guest, attempt, checked, gaveUp, lost, owner>>

\* An AssertionError of resource_removed ends the loop, and is only logged.
CleanupRemoved ==
  /\ PollRemoved("cleanup_removing",
                 pc' = "cleanup" /\ UNCHANGED <<attempt, gaveUp>>,
                 pc' = "done" /\ gaveUp' = TRUE /\ UNCHANGED attempt)
  /\ pc' = "cleanup_removing" => UNCHANGED gaveUp
  /\ UNCHANGED <<launcher, run, guest, target, todo, checked, cloud>>

\* Any other call raises.  Of what the last poll of resource_removed raises,
\* resource_cleanup catches the AssertionError only.
Fail ==
  /\ pc \in {"retrieve", "retrieve_again", "check", "cleanup", "cleanup_removing",
             "after", "after_removing"}
  /\ pc' = IF pc \in {"after", "after_removing"} THEN "callback_raised" ELSE "raised"
  /\ UNCHANGED <<launcher, test, cloud>>

Rerun ==
  /\ pc \in Ended
  /\ launcher = "launch_guest" /\ run < MaxRuns
  /\ run' = run + 1
  /\ pc' = "retrieve"
  /\ guest' = 1 /\ attempt' = 1 /\ polls' = 0 /\ target' = 0
  /\ todo' = {} /\ checked' = <<>> /\ gaveUp' = FALSE
  /\ UNCHANGED <<launcher, cloud>>

-----------------------------------------------------------------------------
(* Nova *)

Build(s) ==
  /\ server[s] = "BUILD"
  /\ server' \in {[server EXCEPT ![s] = st] : st \in {"ACTIVE", "ERROR"}}
  /\ UNCHANGED <<launcher, pc, test, lost, owner>>

Remove(s) ==
  /\ server[s] = "DELETING"
  /\ server' = [server EXCEPT ![s] = "gone"]
  /\ UNCHANGED <<launcher, pc, test, lost, owner>>

Terminated ==
  /\ pc \in Ended
  /\ run = MaxRuns \/ launcher = "launch_instance_retryer"
  /\ UNCHANGED vars

LaunchStep ==
  \/ FindOld \/ OldRemoved \/ PollActive \/ CloudInitComplete
  \/ \E n \in 1..(MaxLost + 1) : Create(n, TRUE)
  \/ \E n \in 0..MaxLost : Create(n, FALSE)
  \/ CreateFloatingIP \/ Connect \/ RemoveVMOnFailure \/ VMRemoved

TestStep == RetrieveGuests \/ CheckConnectivity \/ CleanupDelete \/ CleanupRemoved

Next ==
  \/ LaunchStep \/ TestStep \/ AttemptRaises \/ Fail \/ Rerun
  \/ \E s \in Servers : Build(s) \/ Remove(s)
  \/ Terminated

Spec == Init /\ [][Next]_vars

\* The test goes on.  Nothing is assumed of nova, which may never build or remove
\* a server, nor of failures.
FairSpec == Spec /\ WF_vars(LaunchStep \/ TestStep)

-----------------------------------------------------------------------------
(* Properties *)

\* Every variable keeps its type, and no server is awaited before it exists.
TypeOK ==
  /\ launcher \in DOMAIN Starts /\ run \in 1..MaxRuns
  /\ guest \in Guests /\ attempt \in 1..Attempts
  /\ polls \in 0..Max({ActivePolls, RemovedPolls})
  /\ target \in 0..MaxServers /\ todo \subseteq Servers
  /\ checked = <<>> \/ checked \in Servers \X Servers
  /\ gaveUp \in BOOLEAN /\ lost \in 0..MaxLost
  /\ server \in [Servers -> {"none", "BUILD", "ACTIVE", "ERROR", "DELETING", "gone"}]
  /\ owner \in [Servers -> {0} \cup Guests]

\* No two servers have the same name as long as no answer to a create was lost:
\* launch_guest creates only after the old instance is gone from the list, also
\* when an attempt before that gave up waiting for it.
OneServerPerName == lost = 0 => \A g \in Guests : Cardinality(Named(g)) <= 1

\* When launch_instance_retryer has used up its attempts, no server of its name
\* is left, whatever the attempts failed at and also where answers were lost.
NothingLeftBehind ==
  launcher = "launch_instance_retryer" /\ pc = "raised" => Named(1) = {}

\* A test that passed has removed all its servers, also those it does not know
\* of because the answer to their create was lost, unless it gave up waiting.
CleanAfterPass ==
  launcher = "launch_guest" /\ pc = "done" /\ ~gaveUp =>
    \A s \in Servers : ~Present(s)

\* Every run of the test ends, even if nova neither builds nor removes servers.
Termination == []<>(pc \in Ended)

=============================================================================
