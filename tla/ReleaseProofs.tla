--------------------------- MODULE ReleaseProofs ---------------------------
(***************************************************************************)
(* Proofs about the groups of an upgrade and the charm upgrade that runs   *)
(* over them, for all models, and about the upgrade to the next release.   *)
(***************************************************************************)
EXTENDS CharmUpgrade, OpenStackUpgradeByOption, FiniteSetTheorems, TLAPS

-----------------------------------------------------------------------------
(* Sorting a group *)

\* How many elements of S are less than i.
RankIn(S, i) == Cardinality({j \in S : j < i})

\* The elements of a finite set of numbers have the ranks from 0 on, each its own.
LEMMA Ranks ==
  ASSUME NEW S \in SUBSET Nat, IsFiniteSet(S)
  PROVE  /\ Cardinality(S) \in Nat
         /\ \A i, j \in S : RankIn(S, i) = RankIn(S, j) => i = j
         /\ \A i \in S : RankIn(S, i) \in 0..(Cardinality(S) - 1)
         /\ \A k \in 1..Cardinality(S) : \E i \in S : RankIn(S, i) = k - 1
<1> DEFINE Below(i) == {j \in S : j < i}
           n == Cardinality(S)
<1>1. n \in Nat
  BY FS_CardinalityType
<1>2. ASSUME NEW i \in S
      PROVE  /\ IsFiniteSet(Below(i)) /\ RankIn(S, i) \in Nat /\ RankIn(S, i) < n
             /\ RankIn(S, i) = Cardinality(Below(i))
  <2>1. Below(i) \in SUBSET S /\ Below(i) # S
    OBVIOUS
  <2>2. IsFiniteSet(Below(i)) /\ Cardinality(Below(i)) <= n /\ n # Cardinality(Below(i))
    BY <2>1, FS_Subset
  <2>3. Cardinality(Below(i)) \in Nat
    BY <2>2, FS_CardinalityType
  <2>4. RankIn(S, i) = Cardinality(Below(i))
    BY DEF RankIn
  <2> HIDE DEF Below, n
  <2> QED
    BY <1>1, <2>2, <2>3, <2>4
<1>3. ASSUME NEW i \in S, NEW j \in S, i < j
      PROVE  RankIn(S, i) # RankIn(S, j)
  <2>1. Below(i) \in SUBSET Below(j) /\ Below(i) # Below(j)
    <3>1. i \in Below(j) /\ i \notin Below(i)
      BY <1>3
    <3>2. \A x \in Below(i) : x \in Below(j)
      BY <1>3
    <3> QED
      BY <3>1, <3>2
  <2>2. Cardinality(Below(j)) # Cardinality(Below(i))
    BY <1>2, <2>1, FS_Subset
  <2> QED
    BY <1>2, <2>2
<1>4. \A i, j \in S : RankIn(S, i) = RankIn(S, j) => i = j
  BY <1>3
<1> DEFINE f == [i \in S |-> RankIn(S, i) + 1]
<1> HIDE DEF Below, n
<1>5. f \in Injection(S, 1..n)
  <2>1. \A i \in S : RankIn(S, i) + 1 \in 1..n
    BY <1>1, <1>2
  <2>2. f \in [S -> 1..n]
    BY <2>1
  <2>3. \A i, j \in S : f[i] = f[j] => i = j
    BY <1>2, <1>4
  <2> QED
    BY <2>2, <2>3 DEF Injection, IsInjective
<1>6. IsFiniteSet(1..n) /\ Cardinality(1..n) = n
  BY <1>1, FS_Interval
<1>7. f \in Surjection(S, 1..n)
  BY <1>5, <1>6, FS_Injection DEF n
<1>8. \A k \in 1..n : \E i \in S : f[i] = k
  BY <1>7 DEF Surjection
<1>9. \A k \in 1..n : \E i \in S : RankIn(S, i) = k - 1
  <2>1. \A i \in S : f[i] = RankIn(S, i) + 1
    OBVIOUS
  <2> HIDE DEF f
  <2> SUFFICES ASSUME NEW k \in 1..n PROVE \E i \in S : RankIn(S, i) = k - 1
    OBVIOUS
  <2>2. PICK i \in S : f[i] = k
    BY <1>8
  <2>3. RankIn(S, i) = k - 1
    BY <1>1, <1>2, <2>1, <2>2
  <2> QED
    BY <2>3
<1> QED
  BY <1>1, <1>2, <1>4, <1>9 DEF n

\* A sorted group has every name of the group that there is, once.
LEMMA Sorted ==
  ASSUME NEW N, NEW names \in Seq(N), NEW G,
         \A i, j \in DOMAIN names : names[i] = names[j] => i = j
  PROVE  LET s == Sort(G, names)
         IN /\ {s[k] : k \in DOMAIN s} = G \cap {names[i] : i \in DOMAIN names}
            /\ \A k, l \in DOMAIN s : s[k] = s[l] => k = l
<1> DEFINE P == {i \in DOMAIN names : names[i] \in G}
           n == Cardinality(P)
           At(k) == CHOOSE i \in P : RankIn(P, i) = k - 1
           s == Sort(G, names)
<1>1. P \in SUBSET Nat /\ IsFiniteSet(P)
  <2>1. Len(names) \in Nat /\ DOMAIN names = 1..Len(names)
    OBVIOUS
  <2>2. IsFiniteSet(1..Len(names))
    BY <2>1, FS_Interval
  <2> QED
    BY <2>1, <2>2, FS_Subset
<1>2. s = [k \in 1..n |-> names[At(k)]]
  BY DEF Sort, RankIn
<1>3. /\ n \in Nat
      /\ \A i, j \in P : RankIn(P, i) = RankIn(P, j) => i = j
      /\ \A i \in P : RankIn(P, i) \in 0..(n - 1)
      /\ \A k \in 1..n : \E i \in P : RankIn(P, i) = k - 1
  BY <1>1, Ranks
<1>4. \A i \in P : i \in DOMAIN names /\ names[i] \in G
  OBVIOUS
<1>5. \A i \in DOMAIN names : names[i] \in G => i \in P
  OBVIOUS
<1> HIDE DEF P, n, s
<1>6. \A k \in 1..n : At(k) \in P /\ RankIn(P, At(k)) = k - 1
  BY <1>3
<1>7. \A i \in P : RankIn(P, i) + 1 \in 1..n /\ At(RankIn(P, i) + 1) = i
  <2> SUFFICES ASSUME NEW i \in P
               PROVE  RankIn(P, i) + 1 \in 1..n /\ At(RankIn(P, i) + 1) = i
    OBVIOUS
  <2>1. RankIn(P, i) + 1 \in 1..n /\ (RankIn(P, i) + 1) - 1 = RankIn(P, i)
    BY <1>3
  <2> QED
    BY <1>3, <1>6, <2>1
<1> HIDE DEF At
<1>8. DOMAIN s = 1..n /\ \A k \in 1..n : s[k] = names[At(k)]
  BY <1>2
<1>9. {s[k] : k \in DOMAIN s} = G \cap {names[i] : i \in DOMAIN names}
  BY <1>4, <1>5, <1>6, <1>7, <1>8
<1>10. \A k, l \in DOMAIN s : s[k] = s[l] => k = l
  <2> SUFFICES ASSUME NEW k \in 1..n, NEW l \in 1..n, s[k] = s[l] PROVE k = l
    BY <1>8
  <2>1. At(k) = At(l)
    BY <1>4, <1>6, <1>8
  <2>2. k - 1 = l - 1
    BY <1>6, <2>1
  <2> QED
    BY <1>3, <2>2
<1> QED
  BY <1>9, <1>10 DEF s

-----------------------------------------------------------------------------
(* The groups *)

\* No charm is in two phases.
LEMMA PhasesDiffer ==
  /\ Len(ServiceGroups) = 5 /\ DOMAIN ServiceGroups = 1..5
  /\ \A i, j \in 1..5 : i # j => ServiceGroups[i] \cap ServiceGroups[j] = {}
BY DEF ServiceGroups

\* What group i is made of.
Part(apps, C, i) == IF i <= 5 THEN InPhase(apps, C, i) ELSE SweepUp(apps, C)

\* Every candidate is in one part.
LEMMA PartsOf ==
  ASSUME NEW apps, NEW C
  PROVE  /\ \A i, j \in 1..6 : i # j => Part(apps, C, i) \cap Part(apps, C, j) = {}
         /\ \A a : a \in C <=> \E i \in 1..6 : a \in Part(apps, C, i)
<1>1. \A i \in 1..5 : Part(apps, C, i) = InPhase(apps, C, i)
  BY DEF Part
<1>2. Part(apps, C, 6) = C \ UNION {InPhase(apps, C, i) : i \in 1..5}
  BY PhasesDiffer DEF Part, SweepUp
<1>3. \A i, j \in 1..5 : i # j => InPhase(apps, C, i) \cap InPhase(apps, C, j) = {}
  BY PhasesDiffer DEF InPhase
<1>4. \A i \in 1..5 : InPhase(apps, C, i) \subseteq C
  BY DEF InPhase
<1>5. \A i \in 1..6 : i = 6 \/ i \in 1..5
  OBVIOUS
<1>6. 1..5 \subseteq 1..6 /\ 6 \in 1..6
  OBVIOUS
<1>7. ASSUME NEW i \in 1..6, NEW j \in 1..6, i # j
      PROVE  Part(apps, C, i) \cap Part(apps, C, j) = {}
  BY <1>1, <1>2, <1>3, <1>5, <1>7
<1>8. ASSUME NEW a PROVE a \in C <=> \E i \in 1..6 : a \in Part(apps, C, i)
  <2>1. CASE \E i \in 1..5 : a \in InPhase(apps, C, i)
    BY <1>1, <1>4, <1>6, <2>1
  <2>2. CASE ~ \E i \in 1..5 : a \in InPhase(apps, C, i)
    BY <1>1, <1>2, <1>5, <1>6, <2>2
  <2> QED
    BY <2>1, <2>2
<1> QED
  BY <1>7, <1>8

\* The groups are these parts, sorted.
LEMMA GroupsOf ==
  ASSUME NEW apps, NEW C, NEW names
  PROVE  LET groups == BuildServiceGroups(apps, C, names)
         IN /\ DOMAIN groups = 1..6
            /\ \A i \in 1..6 : groups[i] = Sort(Part(apps, C, i), names)
BY PhasesDiffer DEF BuildServiceGroups, Part

\* The names of applications are a list without duplicates.
LEMMA NamesListed ==
  /\ Names \in Seq({Names[i] : i \in DOMAIN Names})
  /\ \A i, j \in DOMAIN Names : Names[i] = Names[j] => i = j
BY CharmUpgradeAssumption

\* The groups of any kind of upgrade with any filters hold every candidate once and
\* nothing else.
LEMMA GroupsPartition ==
  ASSUME NEW apps, NEW kind, NEW target, NEW extra,
         DOMAIN apps \subseteq {Names[i] : i \in DOMAIN Names}
  PROVE  LET groups == GetUpgradeGroups(apps, kind, target, extra, Names)
             C == {a \in DOMAIN apps : ~Excluded(apps, a, kind, target, extra)}
         IN /\ DOMAIN groups = 1..6
            /\ \A i \in 1..6 : {groups[i][k] : k \in DOMAIN groups[i]} = Part(apps, C, i)
            /\ \A i, j \in 1..6 : \A k \in DOMAIN groups[i], l \in DOMAIN groups[j] :
                 groups[i][k] = groups[j][l] => i = j /\ k = l
            /\ UNION {{groups[i][k] : k \in DOMAIN groups[i]} : i \in 1..6} = C
<1> DEFINE groups == GetUpgradeGroups(apps, kind, target, extra, Names)
           C == {a \in DOMAIN apps : ~Excluded(apps, a, kind, target, extra)}
           All == {Names[i] : i \in DOMAIN Names}
           Of(i) == {groups[i][k] : k \in DOMAIN groups[i]}
<1>1. groups = BuildServiceGroups(apps, C, Names)
  BY DEF GetUpgradeGroups, GetUpgradeCandidates
<1>2. C \subseteq All
  OBVIOUS
<1> HIDE DEF groups, C
<1>3. DOMAIN groups = 1..6 /\ \A i \in 1..6 : groups[i] = Sort(Part(apps, C, i), Names)
  BY <1>1, GroupsOf
<1>4. /\ \A i, j \in 1..6 : i # j => Part(apps, C, i) \cap Part(apps, C, j) = {}
      /\ \A a : a \in C <=> \E i \in 1..6 : a \in Part(apps, C, i)
  BY PartsOf
<1>5. ASSUME NEW i \in 1..6
      PROVE  /\ Of(i) = Part(apps, C, i)
             /\ \A k, l \in DOMAIN groups[i] : groups[i][k] = groups[i][l] => k = l
  <2> DEFINE G == Part(apps, C, i)
             s == Sort(G, Names)
  <2>1. /\ {s[k] : k \in DOMAIN s} = G \cap All
        /\ \A k, l \in DOMAIN s : s[k] = s[l] => k = l
    <3> HIDE DEF G
    <3> QED
      BY NamesListed, Sorted
  <2>2. G \subseteq All
    BY <1>2, <1>4
  <2>3. groups[i] = s
    BY <1>3
  <2> HIDE DEF s, G, All
  <2> QED
    BY <2>1, <2>2, <2>3 DEF G
<1>6. ASSUME NEW i \in 1..6, NEW j \in 1..6, NEW k \in DOMAIN groups[i],
             NEW l \in DOMAIN groups[j], groups[i][k] = groups[j][l]
      PROVE  i = j /\ k = l
  <2>1. groups[i][k] \in Part(apps, C, i) /\ groups[j][l] \in Part(apps, C, j)
    BY <1>5
  <2>2. i = j
    BY <1>4, <1>6, <2>1
  <2> QED
    BY <1>5, <1>6, <2>2
<1>7. UNION {Of(i) : i \in 1..6} = C
  <2>1. \A i \in 1..6 : Of(i) = Part(apps, C, i)
    BY <1>5
  <2> HIDE DEF Of
  <2> QED
    BY <1>4, <2>1
<1> QED
  BY <1>3, <1>5, <1>6, <1>7 DEF groups, C

-----------------------------------------------------------------------------
(* The charm upgrade *)

\* What the proofs need of the types of the variables.
TypesInv ==
  /\ model \in Models
  /\ DOMAIN track = Applications
  /\ group \in 1..6 /\ left \subseteq GroupApps(group)

\* The run of the test that is under way has dealt with the application.
Reached(a) == PhaseOf(a) < group \/ (PhaseOf(a) = group /\ a \notin left)

\* What the run has reached is a release ahead of what it has not, if that is in a
\* later phase.
AheadInv ==
  status = "running" =>
    \A a, b \in Tracked :
      PhaseOf(a) < PhaseOf(b) /\ Reached(a) /\ ~Reached(b)
        => ReleaseOf(track[a]) > ReleaseOf(track[b])

\* The inductive invariant of the charm upgrade.
CharmInv == TypesInv /\ AheadInv /\ GroupsInOrder

\* A track is of one release at most, and latest is of none.
LEMMA TracksDiffer ==
  /\ DOMAIN OpenStackCodenames = 1..30 /\ Len(OpenStackCodenames) = 30
  /\ \A i, j \in 1..30 : \A t : t \in TrackNames(i) /\ t \in TrackNames(j) => i = j
  /\ ~IsRelease("latest")
<1>1. DOMAIN OpenStackCodenames = 1..30 /\ Len(OpenStackCodenames) = 30
  BY DEF OpenStackCodenames
<1>2. \A i, j \in 1..30 : OpenStackCodenames[i] = OpenStackCodenames[j] => i = j
  BY DEF OpenStackCodenames
<1>3. \A i, j \in 1..30 : OpenStackVersions[i] = OpenStackVersions[j] => i = j
  BY DEF OpenStackVersions
<1>4. \A i, j \in 1..30 : OpenStackCodenames[i] # OpenStackVersions[j]
  BY DEF OpenStackCodenames, OpenStackVersions
<1>5. \A i \in 1..30 : OpenStackCodenames[i] # "latest" /\ OpenStackVersions[i] # "latest"
  BY DEF OpenStackCodenames, OpenStackVersions
<1> QED
  BY <1>1, <1>2, <1>3, <1>4, <1>5 DEF TrackNames, IsRelease

\* The release of a track that has the name of one.
LEMMA ReleaseFound ==
  ASSUME NEW t, NEW i \in 1..30, t \in TrackNames(i)
  PROVE  IsRelease(t) /\ ReleaseOf(t) = i
<1>1. IsRelease(t)
  BY TracksDiffer DEF IsRelease
<1>2. ReleaseOf(t) \in 1..30 /\ t \in TrackNames(ReleaseOf(t))
  BY <1>1, TracksDiffer DEF IsRelease, ReleaseOf
<1> QED
  BY <1>1, <1>2, TracksDiffer

\* The track that is named after a release is that release's.
LEMMA TrackFound ==
  ASSUME NEW i \in 1..30
  PROVE  IsRelease(TrackOf(i)) /\ ReleaseOf(TrackOf(i)) = i
BY ReleaseFound DEF TrackOf, TrackNames

\* Releases are numbers.
LEMMA ReleaseType ==
  ASSUME NEW t, IsRelease(t)
  PROVE  ReleaseOf(t) \in 1..30
BY TracksDiffer DEF IsRelease, ReleaseOf

\* The next track is the one of the next release, also from the codename of zed to
\* the version of antelope.
LEMMA NextIsOneMore ==
  ASSUME NEW t, HasNext(t)
  PROVE  IsRelease(t) /\ IsRelease(NextTrack(t)) /\ ReleaseOf(NextTrack(t)) = ReleaseOf(t) + 1
<1>1. IsRelease(t) /\ ReleaseOf(t) \in 1..30 /\ ReleaseOf(t) < 30
  BY TracksDiffer, ReleaseType DEF HasNext
<1>2. ReleaseOf(t) + 1 \in 1..30
  BY <1>1
<1> QED
  BY <1>1, <1>2, TrackFound DEF NextTrack

\* The groups of the test hold the applications of one phase each.
LEMMA InGroup ==
  ASSUME model \in Models
  PROVE  /\ DOMAIN Groups = 1..6 /\ Len(Groups) = 6
         /\ \A i \in 1..6 : \A a \in GroupApps(i) : a \in Applications /\ PhaseOf(a) = i
<1> DEFINE extra == {"etcd", "easyrsa", "memcached"}
           C == {a \in DOMAIN model : ~Excluded(model, a, "charm", "none", extra)}
<1>1. DOMAIN model \subseteq {Names[i] : i \in DOMAIN Names}
  BY CharmUpgradeAssumption
<1>2. /\ DOMAIN Groups = 1..6
      /\ \A i \in 1..6 : GroupApps(i) = Part(model, C, i)
  <2> HIDE DEF extra
  <2> QED
    BY <1>1, GroupsPartition, Zenon DEF Groups, GroupApps, extra
<1>3. Len(Groups) = 6
  BY PhasesDiffer DEF Groups, GetUpgradeGroups, BuildServiceGroups
<1>4. C \subseteq Applications
  BY DEF Applications
<1> HIDE DEF C
<1>5. ASSUME NEW i \in 1..6, NEW a \in Part(model, C, i)
      PROVE  a \in Applications /\ PhaseOf(a) = i
  <2> DEFINE phases == {j \in DOMAIN ServiceGroups : model[a].charm.name \in ServiceGroups[j]}
  <2>1. a \in C
    BY <1>5, PartsOf
  <2>2. PhaseOf(a) = IF phases = {} THEN 6 ELSE CHOOSE j \in phases : TRUE
    BY PhasesDiffer DEF PhaseOf
  <2>3. \A j, k \in phases : j = k
    BY PhasesDiffer
  <2>4. CASE i \in 1..5
    <3>1. i \in phases
      BY <1>5, <2>4, PhasesDiffer DEF Part, InPhase, ExtractCharmName
    <3> HIDE DEF phases
    <3> QED
      BY <1>4, <2>1, <2>2, <2>3, <3>1
  <2>5. CASE i = 6
    <3>1. a \notin UNION {InPhase(model, C, j) : j \in DOMAIN ServiceGroups}
      BY <1>5, <2>5 DEF Part, SweepUp
    <3>2. phases = {}
      BY <2>1, <3>1 DEF InPhase, ExtractCharmName
    <3> QED
      BY <1>4, <2>1, <2>2, <2>5, <3>2
  <2> QED
    BY <2>4, <2>5
<1> QED
  BY <1>2, <1>3, <1>5

\* An application that the upgrade covers is in the group of its phase.
LEMMA TrackedInPhase ==
  ASSUME model \in Models, NEW a \in Tracked
  PROVE  /\ a \in Applications /\ PhaseOf(a) \in 1..6 /\ a \in GroupApps(PhaseOf(a))
         /\ IsRelease(track[a]) /\ ReleaseOf(track[a]) \in 1..30
<1>1. PICK i \in 1..6 : a \in GroupApps(i)
  BY InGroup DEF Tracked
<1>2. PhaseOf(a) = i
  BY <1>1, InGroup
<1> QED
  BY <1>1, <1>2, ReleaseType DEF Tracked

\* The deployment decides the groups and the phases.
LEMMA ModelKept ==
  ASSUME model' = model
  PROVE  /\ Applications' = Applications /\ Groups' = Groups
         /\ \A i : GroupApps(i)' = GroupApps(i)
         /\ \A a : PhaseOf(a)' = PhaseOf(a)
<1>1. Applications' = Applications
  BY DEF Applications
<1>2. Groups' = Groups
  BY DEF Groups
<1>3. \A i : GroupApps(i)' = GroupApps(i)
  BY <1>2 DEF GroupApps
<1>4. \A a : PhaseOf(a)' = PhaseOf(a)
  BY DEF PhaseOf
<1> QED
  BY <1>1, <1>2, <1>3, <1>4

\* At the start of a run nothing that the upgrade covers has been reached.
LEMMA NoneReached ==
  ASSUME model \in Models, group = 1, left = GroupApps(1), NEW a \in Tracked
  PROVE  ~Reached(a)
BY TrackedInPhase DEF Reached

\* All tracked applications start on the track of one release.
LEMMA CharmInit == Init => CharmInv
<1> SUFFICES ASSUME Init PROVE CharmInv
  OBVIOUS
<1>1. model \in Models /\ group = 1 /\ left = GroupApps(1)
  BY DEF Init
<1>2. PICK i \in Starts :
        track \in [Applications -> {TrackOf(i)}]
                    \cup {[a \in Applications |-> IF a = b THEN "latest" ELSE TrackOf(i)] :
                            b \in Applications}
  BY DEF Init
<1>3. i \in 1..30
  BY CharmUpgradeAssumption, TracksDiffer
<1>4. DOMAIN track = Applications
  BY <1>2
<1>5. \A a \in Applications : track[a] = TrackOf(i) \/ track[a] = "latest"
  BY <1>2
<1>6. \A a \in Tracked : ReleaseOf(track[a]) = i
  BY <1>3, <1>5, TracksDiffer, TrackFound DEF Tracked
<1>7. GroupsInOrder
  BY <1>3, <1>6 DEF GroupsInOrder
<1>8. AheadInv
  BY <1>1, NoneReached DEF AheadInv
<1> QED
  BY <1>1, <1>4, <1>7, <1>8 DEF CharmInv, TypesInv

\* Every step keeps the order of the phases.
LEMMA CharmStep == CharmInv /\ [Next]_vars => CharmInv'
<1> SUFFICES ASSUME CharmInv, [Next]_vars PROVE CharmInv'
  OBVIOUS
<1> USE DEF CharmInv
<1>1. model \in Models /\ DOMAIN track = Applications /\ group \in 1..6
        /\ left \subseteq GroupApps(group)
  BY DEF TypesInv
<1>2. model' = model
  BY DEF Next, vars, UpgradeCharm, ChannelReached, Fail, EndGroup, Rerun, Terminated
<1>3. /\ Applications' = Applications /\ Groups' = Groups
      /\ \A i : GroupApps(i)' = GroupApps(i)
      /\ \A a : PhaseOf(a)' = PhaseOf(a)
  BY <1>2, ModelKept
<1>4. \A a \in Tracked :
        /\ a \in Applications /\ PhaseOf(a) \in 1..6 /\ a \in GroupApps(PhaseOf(a))
        /\ IsRelease(track[a]) /\ ReleaseOf(track[a]) \in 1..30
  BY <1>1, TrackedInPhase
<1>5. ASSUME track' = track
      PROVE  Tracked' = Tracked /\ GroupsInOrder'
  <2>1. Tracked' = Tracked
    BY <1>3, <1>5 DEF Tracked
  <2>2. \A a, b \in Tracked :
          PhaseOf(a)' < PhaseOf(b)' => ReleaseOf(track'[a]) >= ReleaseOf(track'[b])
    BY <1>3, <1>5 DEF GroupsInOrder
  <2> QED
    BY <2>1, <2>2 DEF GroupsInOrder
<1>6. ASSUME UNCHANGED <<track, group, left>>, status' = "running" => status = "running"
      PROVE  CharmInv'
  <2>1. \A a : Reached(a)' <=> Reached(a)
    BY <1>3, <1>6 DEF Reached
  <2>2. AheadInv'
    BY <1>3, <1>5, <1>6, <2>1 DEF AheadInv
  <2>3. TypesInv'
    BY <1>1, <1>2, <1>3, <1>6 DEF TypesInv
  <2> QED
    BY <1>5, <1>6, <2>2, <2>3
<1>7. ASSUME NEW x \in Applications, UpgradeCharm(x) PROVE CharmInv'
  <2>1. CASE ~HasNext(track[x])
    BY <1>6, <1>7, <2>1 DEF UpgradeCharm
  <2>2. CASE HasNext(track[x])
    <3>1. /\ status = "running" /\ x \in left /\ left' = left \ {x} /\ group' = group
          /\ track' = [track EXCEPT ![x] = NextTrack(@)]
      BY <1>7, <2>2 DEF UpgradeCharm
    <3>2. x \in GroupApps(group) /\ PhaseOf(x) = group
      BY <1>1, <3>1, InGroup
    <3>3. /\ IsRelease(track[x]) /\ IsRelease(NextTrack(track[x]))
          /\ ReleaseOf(NextTrack(track[x])) = ReleaseOf(track[x]) + 1
      BY <2>2, NextIsOneMore
    <3>4. /\ track'[x] = NextTrack(track[x])
          /\ \A a \in Applications : a # x => track'[a] = track[a]
      BY <1>1, <3>1
    <3>5. Tracked' = Tracked
      BY <1>3, <3>3, <3>4 DEF Tracked
    <3>6. x \in Tracked
      BY <1>1, <1>7, <3>2, <3>3, InGroup DEF Tracked
    <3>7. \A a \in Applications : Reached(a)' <=> Reached(a) \/ a = x
      BY <1>1, <1>3, <3>1, <3>2 DEF Reached
    <3>8. ~Reached(x)
      BY <1>1, <3>1, <3>2 DEF Reached
    <3>9. /\ ReleaseOf(track'[x]) = ReleaseOf(track[x]) + 1
          /\ \A a \in Applications : a # x => ReleaseOf(track'[a]) = ReleaseOf(track[a])
      BY <3>3, <3>4
    <3>10. ASSUME NEW a \in Tracked, NEW b \in Tracked, PhaseOf(a) < PhaseOf(b)
           PROVE  ReleaseOf(track'[a]) >= ReleaseOf(track'[b])
      <4>1. ReleaseOf(track[a]) >= ReleaseOf(track[b])
        BY <3>10 DEF GroupsInOrder
      <4>2. CASE b = x
        <5>1. Reached(a) /\ a # x
          BY <1>4, <3>2, <3>10, <4>2 DEF Reached
        <5>2. ReleaseOf(track[a]) > ReleaseOf(track[b])
          BY <3>1, <3>8, <3>10, <4>2, <5>1 DEF AheadInv
        <5> QED
          BY <1>4, <3>9, <4>2, <5>1, <5>2
      <4>3. CASE b # x
        BY <1>4, <3>9, <4>1, <4>3
      <4> QED
        BY <4>2, <4>3
    <3>11. ASSUME NEW a \in Tracked, NEW b \in Tracked, PhaseOf(a) < PhaseOf(b),
                  Reached(a)', ~Reached(b)'
           PROVE  ReleaseOf(track'[a]) > ReleaseOf(track'[b])
      <4>1. b # x /\ ~Reached(b)
        BY <1>4, <3>7, <3>11
      <4>2. CASE a = x
        <5>1. ReleaseOf(track[a]) >= ReleaseOf(track[b])
          BY <3>11 DEF GroupsInOrder
        <5> QED
          BY <1>4, <3>9, <4>1, <4>2, <5>1
      <4>3. CASE a # x
        <5>1. Reached(a)
          BY <1>4, <3>7, <3>11, <4>3
        <5>2. ReleaseOf(track[a]) > ReleaseOf(track[b])
          BY <3>1, <3>11, <4>1, <5>1 DEF AheadInv
        <5> QED
          BY <1>4, <3>9, <4>1, <4>3, <5>2
      <4> QED
        BY <4>2, <4>3
    <3>12. GroupsInOrder'
      BY <1>3, <3>5, <3>10 DEF GroupsInOrder
    <3>13. AheadInv'
      BY <1>3, <3>5, <3>11 DEF AheadInv
    <3>14. TypesInv'
      BY <1>1, <1>2, <1>3, <3>1 DEF TypesInv
    <3> QED
      BY <3>12, <3>13, <3>14
  <2> QED
    BY <2>1, <2>2
<1>8. ASSUME EndGroup PROVE CharmInv'
  <2>1. CASE LastGroup
    BY <1>6, <1>8, <2>1 DEF EndGroup
  <2>2. CASE ~LastGroup
    <3>1. /\ status = "running" /\ left = {} /\ group' = group + 1
          /\ left' = GroupApps(group + 1) /\ track' = track
      BY <1>8, <2>2 DEF EndGroup
    <3>2. group + 1 \in 1..6
      BY <1>1, <2>2, InGroup DEF LastGroup
    <3>3. \A a \in Tracked : Reached(a)' <=> Reached(a)
      BY <1>1, <1>3, <1>4, <3>1 DEF Reached
    <3>4. AheadInv'
      BY <1>3, <1>5, <3>1, <3>3 DEF AheadInv
    <3>5. TypesInv'
      BY <1>1, <1>2, <1>3, <3>1, <3>2 DEF TypesInv
    <3> QED
      BY <1>5, <3>1, <3>4, <3>5
  <2> QED
    BY <2>1, <2>2
<1>9. ASSUME Rerun PROVE CharmInv'
  <2>1. group' = 1 /\ left' = GroupApps(1) /\ track' = track
    BY <1>9 DEF Rerun
  <2>2. \A a \in Tracked : ~Reached(a)'
    BY <1>3, <1>4, <2>1 DEF Reached
  <2>3. AheadInv'
    BY <1>5, <2>1, <2>2 DEF AheadInv
  <2>4. TypesInv'
    BY <1>1, <1>2, <1>3, <2>1 DEF TypesInv
  <2> QED
    BY <1>5, <2>1, <2>3, <2>4
<1>10. ASSUME ChannelReached \/ Fail \/ Terminated \/ UNCHANGED vars PROVE CharmInv'
  BY <1>6, <1>10 DEF ChannelReached, Fail, Terminated, vars
<1> QED
  BY <1>7, <1>8, <1>9, <1>10 DEF Next

\* No service runs a newer charm than one of an earlier phase, which it may depend
\* on, for every deployment and however often the test stops half-way and is run
\* again: a run starts over from the first phase, moves an application by one
\* release, and is a release ahead in what it has reached.
THEOREM PhasesStayInOrder == Spec => []GroupsInOrder
<1>1. CharmInv => GroupsInOrder
  BY DEF CharmInv
<1> QED
  BY CharmInit, CharmStep, <1>1, PTL DEF Spec

\* For every deployment, the groups of each kind of upgrade that the tests ask for
\* hold every application that the filters leave, in one place, and nothing else:
\* none is upgraded twice and the sweep-up group misses none.
THEOREM NoneTwiceNoneMissed == Spec => []UpgradedExactlyOnce
<1>1. model \in Models => UpgradedExactlyOnce
  <2> SUFFICES ASSUME model \in Models, NEW r \in Requests
               PROVE  LET groups == GetUpgradeGroups(model, r[1], r[2], r[3], Names)
                      IN /\ \A i, j \in DOMAIN groups :
                              \A k \in DOMAIN groups[i], l \in DOMAIN groups[j] :
                                groups[i][k] = groups[j][l] => i = j /\ k = l
                         /\ UNION {{groups[i][k] : k \in DOMAIN groups[i]} : i \in DOMAIN groups}
                              = {a \in Applications : ~Excluded(model, a, r[1], r[2], r[3])}
    BY Zenon DEF UpgradedExactlyOnce
  <2>1. DOMAIN model \subseteq {Names[i] : i \in DOMAIN Names}
    BY CharmUpgradeAssumption
  <2> DEFINE kind == r[1]
             target == r[2]
             extra == r[3]
  <2> HIDE DEF kind, target, extra
  <2> DEFINE groups == GetUpgradeGroups(model, kind, target, extra, Names)
  <2>2. /\ DOMAIN groups = 1..6
        /\ \A i, j \in 1..6 : \A k \in DOMAIN groups[i], l \in DOMAIN groups[j] :
             groups[i][k] = groups[j][l] => i = j /\ k = l
        /\ UNION {{groups[i][k] : k \in DOMAIN groups[i]} : i \in 1..6}
             = {a \in DOMAIN model : ~Excluded(model, a, kind, target, extra)}
    <3> DEFINE C == {a \in DOMAIN model : ~Excluded(model, a, kind, target, extra)}
    <3>1. /\ DOMAIN groups = 1..6
          /\ \A i \in 1..6 : {groups[i][k] : k \in DOMAIN groups[i]} = Part(model, C, i)
          /\ \A i, j \in 1..6 : \A k \in DOMAIN groups[i], l \in DOMAIN groups[j] :
               groups[i][k] = groups[j][l] => i = j /\ k = l
          /\ UNION {{groups[i][k] : k \in DOMAIN groups[i]} : i \in 1..6} = C
      BY <2>1, GroupsPartition
    <3> QED
      BY <3>1
  <2> HIDE DEF groups
  <2>3. /\ \A i, j \in DOMAIN groups : \A k \in DOMAIN groups[i], l \in DOMAIN groups[j] :
             groups[i][k] = groups[j][l] => i = j /\ k = l
        /\ UNION {{groups[i][k] : k \in DOMAIN groups[i]} : i \in DOMAIN groups}
             = {a \in Applications : ~Excluded(model, a, kind, target, extra)}
    BY <2>2 DEF Applications
  <2> QED
    BY <2>3, Zenon DEF groups, kind, target, extra
<1>2. CharmInv => model \in Models
  BY DEF CharmInv, TypesInv
<1> QED
  BY CharmInit, CharmStep, <1>1, <1>2, PTL DEF Spec

-----------------------------------------------------------------------------
(* The upgrade by option *)

\* A codename is found at its place in the table, and all but zed are before "zebra" in
\* the alphabet.
LEMMA CodenameFound ==
  /\ \A i \in 1..30 : OpenStackCodenames[i] \in Codenames /\ Index(OpenStackCodenames[i]) = i
  /\ \A c \in Codenames : Index(c) \in 1..30 /\ OpenStackCodenames[Index(c)] = c
  /\ Position(Alphabetical, "zebra") = 30
  /\ \A c \in Codenames \ {"zed"} : Position(Alphabetical, c) \in 1..29
  /\ Position(Alphabetical, "zed") = 31
  /\ "distro" \notin Codenames /\ "raise" \notin Codenames /\ "none" \notin Codenames
  /\ "zebra" \notin Codenames
<1>1. DOMAIN OpenStackCodenames = 1..30
  BY DEF OpenStackCodenames
<1>2. \A i, j \in 1..30 : OpenStackCodenames[i] = OpenStackCodenames[j] => i = j
  BY DEF OpenStackCodenames
<1>3. \A i \in 1..30 : OpenStackCodenames[i] \notin {"distro", "raise", "none", "zebra"}
  BY DEF OpenStackCodenames
<1>4. \A c \in Codenames : \E i \in 1..30 : OpenStackCodenames[i] = c
  BY <1>1 DEF Codenames
<1>5. \A i \in 1..30 : OpenStackCodenames[i] \in Codenames
  BY <1>1 DEF Codenames
<1>6. \A c \in Codenames : Index(c) \in 1..30 /\ OpenStackCodenames[Index(c)] = c
  BY <1>1, <1>4 DEF Index, Position
<1>7. \A i \in 1..30 : \E j \in 1..31 : Alphabetical[j] = OpenStackCodenames[i]
  BY DEF Alphabetical, OpenStackCodenames
<1>8. DOMAIN Alphabetical = 1..31
  BY DEF Alphabetical
<1>9. Alphabetical[30] = "zebra" /\ Alphabetical[31] = "zed"
  BY DEF Alphabetical
<1>10. \A i, j \in 1..31 : Alphabetical[i] = Alphabetical[j] => i = j
  BY DEF Alphabetical
<1>11. \A i \in 1..31 : Position(Alphabetical, Alphabetical[i]) = i
  BY <1>8, <1>10 DEF Position
<1>12. ASSUME NEW c \in Codenames, c # "zed" PROVE Position(Alphabetical, c) \in 1..29
  <2>1. PICK j \in 1..31 : Alphabetical[j] = c
    BY <1>4, <1>7
  <2>2. j # 30 /\ j # 31
    BY <1>3, <1>4, <1>9, <1>12, <2>1
  <2> QED
    BY <1>11, <2>1, <2>2
<1>13. Position(Alphabetical, "zebra") = 30 /\ Position(Alphabetical, "zed") = 31
  BY <1>9, <1>11
<1>14. \A i \in 1..30 : Index(OpenStackCodenames[i]) = i
  BY <1>2, <1>5, <1>6
<1>15. \A c \in Codenames : c \notin {"distro", "raise", "none", "zebra"}
  BY <1>3, <1>4
<1> QED
  BY <1>5, <1>6, <1>12, <1>13, <1>14, <1>15

\* The lowest of the versions is the version, but for zed, of which it is "zebra".
LEMMA LowestOf ==
  ASSUME NEW c \in Codenames
  PROVE  GetLowestOpenStackVersion({c}) = IF c = "zed" THEN "zebra" ELSE c
<1> DEFINE Is(v) == v \in {c, "zebra"}
             /\ \A w \in {c, "zebra"} : Position(Alphabetical, v) <= Position(Alphabetical, w)
           low == IF c = "zed" THEN "zebra" ELSE c
<1>1. Is(low) /\ \A v : Is(v) => v = low
  BY CodenameFound
<1>2. {c} \cup {"zebra"} = {c, "zebra"}
  OBVIOUS
<1>3. GetLowestOpenStackVersion({c}) = CHOOSE v \in {c, "zebra"} :
        \A w \in {c, "zebra"} : Position(Alphabetical, v) <= Position(Alphabetical, w)
  BY <1>2 DEF GetLowestOpenStackVersion, Least
<1> QED
  BY <1>1, <1>3

\* The releases that a series has an archive for are releases of the table.
LEMMA PairedAreCodenames ==
  ASSUME NEW u \in Series
  PROVE  PairedWith(u) \subseteq Codenames
<1>1. DistroRelease[u] \in Codenames
  BY DEF Series, DistroRelease, Codenames, OpenStackCodenames
<1>2. \A v \in DOMAIN CloudArchive : CloudArchive[v] \subseteq Codenames
  BY DEF CloudArchive, Codenames, OpenStackCodenames
<1> QED
  BY <1>1, <1>2 DEF PairedWith

\* The inductive invariant of the upgrade by option: what is installed is in the
\* archive of the series, an upgrade leaves all services on one release, and the test
\* raised only where there was nothing to go to.
OptionInv ==
  /\ ubuntu \in Series
  /\ release \in [Services -> PairedWith(ubuntu)]
  /\ upgraded # "none" => \A s \in Services : release[s] = release[Detect]
  /\ StopsAtLastRelease

\* The new source is that of the release after the detected one, if the archive of
\* the series has it; from zed there is none.
LEMMA NewSourceIsNext ==
  ASSUME ubuntu \in Series, release \in [Services -> PairedWith(ubuntu)]
  PROVE  LET from == release[Detect]
         IN /\ from \in Codenames
            /\ NewSource # "none" =>
                 NewSource \in PairedWith(ubuntu) /\ Index(NewSource) = Index(from) + 1
            /\ NewSource = "none" /\ from # "zed" /\ Index(from) + 1 \in 1..30 =>
                 OpenStackCodenames[Index(from) + 1] \notin PairedWith(ubuntu)
<1> DEFINE from == release[Detect]
           low == IF from = "zed" THEN "zebra" ELSE from
           to == DetermineNextOpenStackRelease(low)
           next == OpenStackCodenames[Index(from) + 1]
<1>1. from \in Codenames
  BY ServicesAssumption, PairedAreCodenames
<1>2. NewSource = IF to = "raise" THEN "none" ELSE DetermineNewSource(ubuntu, low, to, TRUE)
  BY <1>1, LowestOf DEF NewSource, CurrentVersions
<1>3. Index(from) \in 1..30 /\ from # "distro" /\ "none" \notin PairedWith(ubuntu)
  BY <1>1, CodenameFound, PairedAreCodenames
<1>4. CASE from = "zed"
  <2>1. to = "raise"
    BY <1>4, CodenameFound DEF DetermineNextOpenStackRelease
  <2> HIDE DEF from, to, low
  <2> QED
    BY <1>1, <1>2, <1>4, <2>1 DEF from
<1>5. CASE from # "zed"
  <2>1. low = from
    BY <1>5
  <2>2. to = IF Index(from) < 30 THEN next ELSE "raise"
    BY <1>1, <2>1, TracksDiffer DEF DetermineNextOpenStackRelease
  <2>7. to = DetermineNextOpenStackRelease(low)
    OBVIOUS
  <2> HIDE DEF from, to, low, next
  <2>3. Index(from) < 30 => next # "raise" /\ Index(next) = Index(from) + 1
    BY <1>3, CodenameFound DEF next
  <2>4. Index(from) < 30 => DetermineNewSource(ubuntu, low, to, TRUE)
                              = IF next \in PairedWith(ubuntu) THEN next ELSE "none"
    BY <1>3, <2>1, <2>2, <2>3, <2>7 DEF DetermineNewSource
  <2>5. CASE Index(from) < 30
    BY <1>1, <1>2, <1>3, <2>2, <2>3, <2>4, <2>5 DEF from, next
  <2>6. CASE ~(Index(from) < 30)
    BY <1>1, <1>2, <1>3, <2>2, <2>6 DEF from
  <2> QED
    BY <2>5, <2>6
<1> QED
  BY <1>4, <1>5

\* Every step keeps the services together and in the archive.
LEMMA OptionStep == OptionInv /\ [ONext]_ovars => OptionInv'
<1> SUFFICES ASSUME OptionInv, [ONext]_ovars PROVE OptionInv'
  OBVIOUS
<1>1. CASE RunOpenStackUpgrade
  <2>1. /\ NewSource \in PairedWith(ubuntu) /\ ubuntu' = ubuntu
        /\ release' = [s \in Services |-> NewSource]
    BY <1>1, NewSourceIsNext DEF RunOpenStackUpgrade, OptionInv
  <2>2. outcome' # "raised"
    BY <1>1 DEF RunOpenStackUpgrade
  <2> QED
    BY <2>1, <2>2, ServicesAssumption DEF OptionInv, StopsAtLastRelease
<1>2. CASE NoTarget
  <2>1. NewSource = "none" /\ UNCHANGED <<ubuntu, release, upgraded>>
    BY <1>2 DEF NoTarget
  <2>2. release[Detect] # "zed" /\ Index(release[Detect]) + 1 \in 1..30 =>
          OpenStackCodenames[Index(release[Detect]) + 1] \notin PairedWith(ubuntu)
    BY <2>1, NewSourceIsNext DEF OptionInv
  <2>3. StopsAtLastRelease'
    BY <2>1, <2>2, TracksDiffer DEF StopsAtLastRelease
  <2> QED
    BY <2>1, <2>3 DEF OptionInv
<1>3. CASE OTerminated \/ UNCHANGED ovars
  BY <1>3 DEF OptionInv, StopsAtLastRelease, OTerminated, ovars
<1> QED
  BY <1>1, <1>2, <1>3 DEF ONext

\* The invariant holds on every run of the test.
LEMMA OptionInvariant == OSpec => []OptionInv
<1>1. OInit => OptionInv
  BY DEF OInit, OptionInv, StopsAtLastRelease
<1> QED
  BY <1>1, OptionStep, PTL DEF OSpec

\* For any set of services and any of them to detect the release with: an upgrade
\* takes the detected one to the release after its own, and once there was one, all
\* the services, though codenames start again at a after zed and the lowest version is
\* the least string.
THEOREM OneReleaseAtATime == OSpec => SingleIncrement
<1>1. OptionInv /\ [ONext]_ovars =>
        [\A s \in Services :
           release'[s] # release[s] /\ (s = Detect \/ upgraded # "none") =>
             Index(release'[s]) = Index(release[s]) + 1]_ovars
  <2> SUFFICES ASSUME OptionInv, [ONext]_ovars, NEW s \in Services,
                      release'[s] # release[s], s = Detect \/ upgraded # "none"
               PROVE  Index(release'[s]) = Index(release[s]) + 1
    OBVIOUS
  <2>1. RunOpenStackUpgrade
    BY DEF ONext, NoTarget, OTerminated, ovars
  <2>2. release'[s] = NewSource /\ Index(NewSource) = Index(release[Detect]) + 1
    BY <2>1, NewSourceIsNext DEF RunOpenStackUpgrade, OptionInv
  <2>3. release[s] = release[Detect]
    BY DEF OptionInv
  <2> QED
    BY <2>2, <2>3
<1> QED
  BY <1>1, OptionInvariant, PTL DEF OSpec, SingleIncrement

\* The test raises only on a cloud that is on zed or has no later release in its
\* archive, so that any other can be upgraded to the last release of its series.
THEOREM RaisesOnlyAtTheEnd == OSpec => []StopsAtLastRelease
<1>1. OptionInv => StopsAtLastRelease
  BY DEF OptionInv
<1> QED
  BY <1>1, OptionInvariant, PTL

\* No upgrade goes to a release that the archive or the cloud archive does not have
\* for the series.
THEOREM StaysInArchive == OSpec => [](\A s \in Services : release[s] \in PairedWith(ubuntu))
<1>1. OptionInv => \A s \in Services : release[s] \in PairedWith(ubuntu)
  BY DEF OptionInv
<1> QED
  BY <1>1, OptionInvariant, PTL

=============================================================================
