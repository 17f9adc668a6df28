--------------------------- MODULE GuestLaunchProofs ---------------------------
(***************************************************************************)
(* Proofs about GuestLaunch, for every number of attempts, polls, servers, *)
(* lost answers and runs of the test, and about ObjectRetrier.             *)
(***************************************************************************)
EXTENDS GuestLaunch, ObjectRetrier, FiniteSetTheorems, TLAPS

USE DEF test, cloud

-----------------------------------------------------------------------------
(* The inductive invariant *)

Statuses == {"none", "BUILD", "ACTIVE", "ERROR", "DELETING", "gone"}

\* What the proofs need of the types of the variables.
TypesInv ==
  /\ launcher \in {"launch_guest", "launch_instance_retryer"}
  /\ guest \in Guests
  /\ server \in [Servers -> Statuses]
  /\ owner \in [Servers -> {0} \cup Guests]
  /\ lost \in Nat

\* The calls each launcher makes.  launch_instance_retryer is used for one guest.
LauncherInv ==
  launcher = "launch_instance_retryer" =>
    /\ guest = 1
    /\ pc \in {"create", "active", "cloud_init", "floating_ip", "connect",
              "after", "after_removing", "done", "raised", "callback_raised"}

\* A server of the guest's name is created only when there is none, and a wait for
\* a removal waits for the only one.
NameInv ==
  /\ pc = "create" => Named(guest) = {}
  /\ pc \in {"removing", "after_removing"} => Named(guest) \subseteq {target}
  /\ NothingLeftBehind

\* OneServerPerName in the form that needs no counting.
UniqueInv == lost = 0 => \A g \in Guests : \A s, t \in Named(g) : s = t

\* resource_cleanup has listed every server there is, and works through the list.
CleanInv ==
  /\ pc \in {"cleanup", "cleanup_removing"} =>
       \A s \in Servers : Present(s) => s \in todo \/ (pc = "cleanup_removing" /\ s = target)
  /\ CleanAfterPass

LaunchInv == TypesInv /\ LauncherInv /\ NameInv /\ UniqueInv /\ CleanInv

-----------------------------------------------------------------------------
(* Counting servers *)

\* Every set of servers is finite.
LEMMA ServersFinite ==
  ASSUME NEW S \in SUBSET Servers
  PROVE  IsFiniteSet(S) /\ Cardinality(S) \in Nat
<1>1. MaxServers \in Int
  BY LaunchAssumption
<1>2. IsFiniteSet(Servers)
  BY <1>1, FS_Interval DEF Servers
<1>3. IsFiniteSet(S)
  BY <1>2, FS_Subset
<1> QED
  BY <1>3, FS_CardinalityType

\* What find returns when one server has the name is all there is of that name.
LEMMA FoundIsOnly ==
  ASSUME NEW g, Cardinality(Named(g)) = 1
  PROVE  /\ Named(g) = {CHOOSE s \in Named(g) : TRUE}
         /\ (CHOOSE s \in Named(g) : TRUE) \in Servers
<1>1. Named(g) \subseteq Servers
  BY DEF Named
<1>2. IsFiniteSet(Named(g))
  BY <1>1, ServersFinite
<1>3. PICK x : Named(g) = {x}
  BY <1>2, FS_Singleton
<1> QED
  BY <1>1, <1>3

\* A set without two different elements has at most one.
LEMMA AtMostOne ==
  ASSUME NEW S, \A s, t \in S : s = t
  PROVE  Cardinality(S) <= 1
<1>1. CASE S = {}
  BY <1>1, FS_EmptySet
<1>2. CASE S # {}
  <2>1. PICK x : x \in S
    BY <1>2
  <2>2. S = {x}
    BY <2>1
  <2> QED
    BY <2>2, FS_Singleton
<1> QED
  BY <1>1, <1>2

-----------------------------------------------------------------------------
(* Every step preserves the invariant *)

\* LaunchInv holds before the first call.
LEMMA LaunchInit == Init => LaunchInv
BY LaunchAssumption
   DEF Init, Starts, LaunchInv, TypesInv, LauncherInv, NameInv, UniqueInv, CleanInv,
       NothingLeftBehind, CleanAfterPass, Named, Present, Servers, Guests, Statuses

\* A step that makes no server appear keeps what is said of the names alone.
LEMMA NamesShrink ==
  ASSUME TypesInv, UniqueInv, owner' = owner, lost' = lost,
         \A s \in Servers : Present(s)' => Present(s)
  PROVE  /\ \A g : Named(g)' \subseteq Named(g)
         /\ UniqueInv'
<1>1. \A g : Named(g)' \subseteq Named(g)
  BY DEF Named
<1> QED
  BY <1>1 DEF UniqueInv

\* The launchers apart from their creates.
LEMMA LauncherPreserves ==
  ASSUME LaunchInv,
         \/ OldRemoved \/ PollActive \/ CloudInitComplete \/ CreateFloatingIP
         \/ Connect \/ AttemptRaises \/ VMRemoved
  PROVE  LaunchInv'
<1> USE DEF LaunchInv
<1>1. /\ server' = server /\ owner' = owner /\ lost' = lost /\ launcher' = launcher
      /\ todo' = todo /\ target' = target /\ gaveUp' = gaveUp
  BY DEF OldRemoved, PollActive, CloudInitComplete, CreateFloatingIP, Connect,
         AttemptRaises, VMRemoved
<1>2. UniqueInv' /\ \A g : Named(g)' = Named(g)
  BY <1>1 DEF UniqueInv, Named, Present
<1>3. CASE OldRemoved
  <2>1. launcher = "launch_guest"
    BY <1>3 DEF TypesInv, LauncherInv, OldRemoved, PollRemoved
  <2>2. guest' = guest /\ pc = "removing"
    BY <1>3 DEF OldRemoved, PollRemoved
  <2>3. \/ pc' = "create" /\ ~Present(target)
        \/ pc' = pc
        \/ pc' \in {"find", "raised"}
    BY <1>3, <2>1 DEF OldRemoved, PollRemoved, AttemptFailed, Removed
  <2>4. NameInv'
    BY <1>1, <1>2, <2>1, <2>2, <2>3 DEF NameInv, NothingLeftBehind, Named
  <2> QED
    BY <1>1, <1>2, <2>1, <2>2, <2>3, <2>4 DEF TypesInv, LauncherInv, CleanInv, CleanAfterPass
<1>4. CASE VMRemoved
  <2>1. guest' = guest /\ pc = "after_removing"
    BY <1>4 DEF VMRemoved, PollRemoved
  <2>2. \/ pc' \in {"create", "raised"} /\ ~Present(target)
        \/ pc' = pc
        \/ pc' = "callback_raised"
    BY <1>4 DEF VMRemoved, PollRemoved, Removed
  <2>3. NameInv'
    BY <1>1, <1>2, <2>1, <2>2 DEF NameInv, LauncherInv, NothingLeftBehind, Named
  <2> QED
    BY <1>1, <1>2, <2>1, <2>2, <2>3 DEF TypesInv, LauncherInv, CleanInv, CleanAfterPass
<1>5. CASE PollActive \/ CloudInitComplete \/ CreateFloatingIP \/ Connect \/ AttemptRaises
  <2>1. /\ guest' \in Guests
        /\ launcher = "launch_instance_retryer" => guest' = guest
    BY <1>5 DEF PollActive, CloudInitComplete, CreateFloatingIP, Connect, AttemptRaises,
                TypesInv, Guests
  <2>2. /\ pc' \in {"active", "cloud_init", "floating_ip", "connect", "find",
                     "retrieve_again", "after", "raised", "done"}
        /\ pc' \in {"find", "retrieve_again", "raised"} => launcher = "launch_guest"
        /\ pc' = "done" => launcher # "launch_guest"
    BY <1>5 DEF PollActive, CloudInitComplete, CreateFloatingIP, Connect, AttemptRaises,
                AttemptFailed, TypesInv
  <2>3. NameInv'
    BY <1>1, <1>2, <2>1, <2>2 DEF NameInv, NothingLeftBehind
  <2> QED
    BY <1>1, <1>2, <2>1, <2>2, <2>3 DEF TypesInv, LauncherInv, CleanInv, CleanAfterPass
<1> QED
  BY <1>3, <1>4, <1>5

\* The deletes of the launchers: the server deleted is the only one of its name.
LEMMA DeletePreserves ==
  ASSUME LaunchInv, FindOld \/ RemoveVMOnFailure
  PROVE  LaunchInv'
<1> USE DEF LaunchInv
<1> DEFINE found == CHOOSE s \in Named(guest) : TRUE
<1>1. /\ owner' = owner /\ lost' = lost /\ launcher' = launcher
      /\ todo' = todo /\ gaveUp' = gaveUp /\ guest' = guest
  BY DEF FindOld, RemoveVMOnFailure
<1>2. \/ /\ Cardinality(Named(guest)) = 1
         /\ server' = [server EXCEPT ![found] = "DELETING"] /\ target' = found
      \/ server' = server
  BY DEF FindOld, RemoveVMOnFailure, Delete
<1>3. Cardinality(Named(guest)) = 1 => Named(guest) = {found} /\ found \in Servers
  BY FoundIsOnly
<1>4. /\ server' \in [Servers -> Statuses]
      /\ \A s \in Servers : Present(s)' => Present(s)
  BY <1>2, <1>3 DEF TypesInv, Statuses, Present, Named
<1>5. UniqueInv' /\ \A g : Named(g)' \subseteq Named(g)
  BY <1>1, <1>4, NamesShrink
<1>6. CASE FindOld
  <2>1. launcher = "launch_guest"
    BY <1>6 DEF TypesInv, LauncherInv, FindOld
  <2>2. \/ pc' = "create" /\ Named(guest) = {}
        \/ pc' = "removing" /\ Cardinality(Named(guest)) = 1 /\ target' = found
        \/ pc' \in {"find", "raised"}
    BY <1>6, <2>1 DEF FindOld, AttemptFailed, Delete
  <2>3. NameInv'
    BY <1>1, <1>3, <1>5, <2>1, <2>2 DEF NameInv, NothingLeftBehind
  <2> QED
    BY <1>1, <1>4, <1>5, <2>1, <2>2, <2>3 DEF TypesInv, LauncherInv, CleanInv, CleanAfterPass
<1>7. CASE RemoveVMOnFailure
  <2>1. \/ pc' = "after_removing" /\ Cardinality(Named(guest)) = 1 /\ target' = found
        \/ pc' = "callback_raised"
    BY <1>7 DEF RemoveVMOnFailure, Delete
  <2>2. NameInv'
    BY <1>1, <1>3, <1>5, <2>1 DEF NameInv, NothingLeftBehind
  <2> QED
    BY <1>1, <1>4, <1>5, <2>1, <2>2 DEF TypesInv, LauncherInv, CleanInv, CleanAfterPass
<1> QED
  BY <1>6, <1>7

\* A create finds no server of the guest's name, and makes one unless an answer
\* is lost.
LEMMA CreatePreserves ==
  ASSUME LaunchInv, NEW n \in Nat, NEW returns \in BOOLEAN, Create(n, returns),
         returns => n > 0
  PROVE  LaunchInv'
<1> USE DEF LaunchInv
<1> DEFINE used == Cardinality({s \in Servers : server[s] # "none"})
           new == (used + 1)..(used + n)
<1>1. used \in Nat
  BY ServersFinite
<1> HIDE DEF used
<1>2. /\ pc = "create" /\ launcher' = launcher /\ guest' = guest
      /\ lost' = lost + (IF returns THEN n - 1 ELSE n)
      /\ server' = [s \in Servers |-> IF s \in new THEN "BUILD" ELSE server[s]]
      /\ owner' = [s \in Servers |-> IF s \in new THEN guest ELSE owner[s]]
  BY DEF Create, used
<1>3. IF returns THEN pc' = "active" ELSE AttemptFailed
  BY DEF Create
<1>4. /\ pc' \in {"active", "after", "find", "raised"}
      /\ pc' \in {"find", "raised"} => launcher = "launch_guest"
  BY <1>3 DEF AttemptFailed
<1>5. TypesInv'
  <2>1. lost' \in Nat
    BY <1>2 DEF TypesInv
  <2> QED
    BY <1>2, <2>1 DEF TypesInv, Statuses, Guests
<1>6. UniqueInv'
  <2> SUFFICES ASSUME lost' = 0, NEW g \in Guests,
                      NEW s \in Named(g)', NEW t \in Named(g)'
               PROVE  s = t
    BY DEF UniqueInv
  <2>1. lost = 0 /\ n <= 1
    BY <1>2 DEF TypesInv
  <2>2. \A x, y \in new : x = y
    BY <1>1, <2>1
  <2>3. Named(guest) = {}
    BY <1>2 DEF NameInv
  <2>4. \A x \in Named(g)' : IF x \in new THEN g = guest ELSE x \in Named(g)
    BY <1>2 DEF Named, Present
  <2>5. CASE g = guest
    BY <2>2, <2>3, <2>4, <2>5
  <2>6. CASE g # guest
    BY <2>1, <2>4, <2>6 DEF UniqueInv
  <2> QED
    BY <2>5, <2>6
<1> QED
  BY <1>2, <1>4, <1>5, <1>6
     DEF LauncherInv, NameInv, NothingLeftBehind, CleanInv, CleanAfterPass

\* The steps of the test itself.
LEMMA TestPreserves ==
  ASSUME LaunchInv,
         RetrieveGuests \/ CheckConnectivity \/ CleanupDelete \/ CleanupRemoved \/ Fail \/ Rerun
  PROVE  LaunchInv'
<1> USE DEF LaunchInv
<1>1. /\ owner' = owner /\ lost' = lost /\ launcher' = launcher
      /\ guest' \in Guests
  BY DEF RetrieveGuests, CheckConnectivity, CleanupDelete, CleanupRemoved, Fail, Rerun,
         TypesInv, Guests
<1>2. CASE CleanupDelete
  <2> DEFINE next == Min(todo)
  <2>1. /\ pc = "cleanup" /\ guest' = guest /\ gaveUp' = gaveUp
        /\ \/ todo = {} /\ pc' = "done" /\ server' = server
           \/ /\ Present(next) /\ server' = [server EXCEPT ![next] = "DELETING"]
              /\ todo' = todo \ {next} /\ pc' = "cleanup_removing" /\ target' = next
           \/ pc' = "raised" /\ server' = server
    BY <1>2 DEF CleanupDelete, Delete
  <2> HIDE DEF next
  <2>2. launcher = "launch_guest"
    BY <2>1 DEF TypesInv, LauncherInv
  <2>3. /\ server' \in [Servers -> Statuses]
        /\ \A s \in Servers : Present(s)' => Present(s)
    BY <2>1 DEF TypesInv, Statuses, Present
  <2>4. UniqueInv'
    BY <1>1, <2>3, NamesShrink
  <2>5. CleanInv'
    BY <2>1, <2>3 DEF CleanInv, CleanAfterPass
  <2> QED
    BY <1>1, <2>1, <2>2, <2>3, <2>4, <2>5 DEF TypesInv, LauncherInv, NameInv, NothingLeftBehind
<1>3. CASE CleanupRemoved
  <2>1. /\ pc = "cleanup_removing" /\ server' = server /\ todo' = todo /\ target' = target
        /\ \/ pc' = "cleanup" /\ ~Present(target)
           \/ pc' = pc
           \/ pc' = "done" /\ gaveUp'
    BY <1>3 DEF CleanupRemoved, PollRemoved, Removed
  <2>2. launcher = "launch_guest"
    BY <2>1 DEF TypesInv, LauncherInv
  <2>3. UniqueInv'
    BY <1>1, <2>1 DEF UniqueInv, Named, Present
  <2>4. CleanInv'
    BY <2>1 DEF CleanInv, CleanAfterPass, Present
  <2> QED
    BY <1>1, <2>1, <2>2, <2>3, <2>4 DEF TypesInv, LauncherInv, NameInv, NothingLeftBehind
<1>4. CASE RetrieveGuests \/ CheckConnectivity \/ Fail \/ Rerun
  <2>1. server' = server
    BY <1>4 DEF RetrieveGuests, CheckConnectivity, Fail, Rerun
  <2>2. UniqueInv'
    BY <1>1, <2>1 DEF UniqueInv, Named, Present
  <2>3. /\ pc' \in {"check", "find", "raised", "cleanup", "retrieve", "callback_raised"}
        /\ pc' = "cleanup" => todo' = WithPrefix
    BY <1>4 DEF RetrieveGuests, CheckConnectivity, Fail, Rerun
  <2>4. CASE pc \in {"after", "after_removing"} \/ launcher = "launch_guest"
    <3>1. launcher = "launch_instance_retryer" => pc' = "callback_raised" /\ guest' = guest
      BY <1>4, <2>4 DEF RetrieveGuests, CheckConnectivity, Fail, Rerun, TypesInv
    <3>2. NameInv'
      BY <1>1, <2>3, <3>1 DEF NameInv, NothingLeftBehind
    <3> QED
      BY <1>1, <2>1, <2>2, <2>3, <3>1, <3>2
         DEF TypesInv, LauncherInv, CleanInv, CleanAfterPass, WithPrefix, Present
  <2>5. CASE pc \notin {"after", "after_removing"} /\ launcher # "launch_guest"
    BY <1>4, <2>5 DEF RetrieveGuests, CheckConnectivity, Fail, Rerun, TypesInv, LauncherInv
  <2> QED
    BY <2>4, <2>5
<1> QED
  BY <1>2, <1>3, <1>4

\* Nova builds and removes servers but makes none.
LEMMA NovaPreserves ==
  ASSUME LaunchInv, NEW n \in Servers, Build(n) \/ Remove(n)
  PROVE  LaunchInv'
<1> USE DEF LaunchInv
<1>1. /\ owner' = owner /\ lost' = lost /\ launcher' = launcher /\ pc' = pc
      /\ todo' = todo /\ gaveUp' = gaveUp /\ guest' = guest /\ target' = target
  BY DEF Build, Remove
<1>2. /\ server' \in [Servers -> Statuses]
      /\ \A s \in Servers : Present(s)' => Present(s)
  BY DEF Build, Remove, TypesInv, Statuses, Present
<1>3. UniqueInv' /\ \A g : Named(g)' \subseteq Named(g)
  BY <1>1, <1>2, NamesShrink
<1> QED
  BY <1>1, <1>2, <1>3
     DEF TypesInv, LauncherInv, NameInv, NothingLeftBehind, CleanInv, CleanAfterPass

\* A stuttering step keeps LaunchInv.
LEMMA LaunchStutter ==
  ASSUME LaunchInv, UNCHANGED vars
  PROVE  LaunchInv'
BY DEF LaunchInv, vars, TypesInv, LauncherInv, NameInv, UniqueInv, CleanInv,
       NothingLeftBehind, CleanAfterPass, Named, Present

\* LaunchInv is inductive.
LEMMA LaunchNext == LaunchInv /\ [Next]_vars => LaunchInv'
<1> SUFFICES ASSUME LaunchInv, [Next]_vars PROVE LaunchInv'
  OBVIOUS
<1>1. CASE LaunchStep
  <2>1. CASE \E n \in 1..(MaxLost + 1) : Create(n, TRUE)
    <3>1. PICK n \in 1..(MaxLost + 1) : Create(n, TRUE)
      BY <2>1
    <3>2. n \in Nat /\ n > 0
      BY LaunchAssumption
    <3> QED
      BY <3>1, <3>2, CreatePreserves
  <2>2. CASE \E n \in 0..MaxLost : Create(n, FALSE)
    <3>1. PICK n \in 0..MaxLost : Create(n, FALSE)
      BY <2>2
    <3>2. n \in Nat
      BY LaunchAssumption
    <3> QED
      BY <3>1, <3>2, CreatePreserves
  <2> QED
    BY <1>1, <2>1, <2>2, DeletePreserves, LauncherPreserves DEF LaunchStep
<1>2. CASE TestStep \/ AttemptRaises \/ Fail \/ Rerun
  BY <1>2, TestPreserves, LauncherPreserves DEF TestStep
<1>3. CASE \E s \in Servers : Build(s) \/ Remove(s)
  BY <1>3, NovaPreserves
<1>4. CASE UNCHANGED vars
  BY <1>4, LaunchStutter
<1> QED
  BY <1>1, <1>2, <1>3, <1>4 DEF Next, Terminated

\* The invariant holds of every state of a run of the test.
THEOREM LaunchInvariant == Spec => []LaunchInv
BY LaunchInit, LaunchNext, PTL DEF Spec

-----------------------------------------------------------------------------
(* The theorems *)

\* As long as no answer to a create was lost no two servers have one name, however
\* many attempts and runs of the test fail and wherever they do.
THEOREM NamesAreUnique == Spec => []OneServerPerName
<1>1. UniqueInv => OneServerPerName
  BY AtMostOne DEF UniqueInv, OneServerPerName
<1> QED
  BY <1>1, LaunchInvariant, PTL DEF LaunchInv

\* launch_instance_retryer that used up its attempts has removed what they made:
\* its callback returns only when the one server of the name is gone.
THEOREM RetryerCleansUp == Spec => []NothingLeftBehind
<1>1. LaunchInv => NothingLeftBehind
  BY DEF LaunchInv, NameInv
<1> QED
  BY <1>1, LaunchInvariant, PTL

\* A test that passed without giving up in resource_cleanup leaves no server, also
\* none whose create was never answered.
THEOREM PassedTestCleansUp == Spec => []CleanAfterPass
<1>1. LaunchInv => CleanAfterPass
  BY DEF LaunchInv, CleanInv
<1> QED
  BY <1>1, LaunchInvariant, PTL

-----------------------------------------------------------------------------
(* ObjectRetrier: one call through a wrapped client, for every configuration of
   the wrapper and every set of exceptions *)

\* While the wrapper goes on it has made one call per retry and no retry too many;
\* once it ended it has made at most one call more than that.
RetryInv ==
  /\ kwargs \in Configs
  /\ {retry, calls, effects} \subseteq Nat
  /\ effects <= calls
  /\ rpc \in {"call", "sleep"} => calls = retry /\ retry <= kwargs.num_retries
  /\ rpc \in {"returned", "raised"} => calls <= kwargs.num_retries + 1
  /\ rpc \in {"call", "sleep", "returned", "raised"}
  /\ GivesUpOnlyWhenSpent

\* The number of retries of a configuration is a natural number.
LEMMA NumRetries == ASSUME kwargs \in Configs PROVE kwargs.num_retries \in Nat
BY RetrierAssumption

\* Every step keeps the count of calls in step with the count of retries.
LEMMA RetryStep == RetryInv /\ [RNext]_rvars => RetryInv'
<1> SUFFICES ASSUME RetryInv, [RNext]_rvars PROVE RetryInv'
  OBVIOUS
<1>0. kwargs.num_retries \in Nat
  BY NumRetries DEF RetryInv
<1> USE <1>0 DEF RetryInv, GivesUpOnlyWhenSpent, Listed
<1>1. CASE CallReturns
  BY <1>1 DEF CallReturns
<1>2. ASSUME NEW e \in Exceptions, CallRaises(e) PROVE RetryInv'
  <2>1. CASE Retriable(e)
    <3>1. retry' = retry + 1 /\ calls' = retry + 1
      BY <1>2, <2>1 DEF CallRaises
    <3>2. CASE retry' > kwargs.num_retries
      BY <1>2, <2>1, <3>1, <3>2 DEF CallRaises, Exceeded
    <3>3. CASE ~(retry' > kwargs.num_retries)
      BY <1>2, <2>1, <3>1, <3>3 DEF CallRaises, Exceeded
    <3> QED
      BY <3>2, <3>3
  <2>2. CASE ~Retriable(e)
    BY <1>2, <2>2 DEF CallRaises, Retriable
  <2> QED
    BY <2>1, <2>2
<1>3. CASE Sleep
  BY <1>3 DEF Sleep, WaitedEnough
<1>4. CASE UNCHANGED rvars
  BY <1>4 DEF rvars
<1> QED
  BY <1>1, <1>2, <1>3, <1>4 DEF RNext, RTerminated

\* The invariant holds from the first call to the end.
LEMMA RetryInvariant == RSpec => []RetryInv
<1>1. RInit => RetryInv
  BY NumRetries DEF RInit, RetryInv, GivesUpOnlyWhenSpent
<1> QED
  BY <1>1, RetryStep, PTL DEF RSpec

\* However the exceptions are mixed, the wrapped call is made at most
\* num_retries + 1 times, and the service carries the request out no more often.
THEOREM CallsAreBounded == RSpec => []CallsBounded
<1>1. RetryInv => CallsBounded
  BY NumRetries DEF RetryInv, CallsBounded
<1> QED
  BY <1>1, RetryInvariant, PTL

\* The wrapper never gives up early: an exception that is to be retried comes out
\* of it only when all the retries or all the time are used.
THEOREM NeverGivesUpEarly == RSpec => []GivesUpOnlyWhenSpent
<1>1. RetryInv => GivesUpOnlyWhenSpent
  BY DEF RetryInv
<1> QED
  BY <1>1, RetryInvariant, PTL

=============================================================================
