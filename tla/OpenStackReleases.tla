-------------------------- MODULE OpenStackReleases --------------------------
(***************************************************************************)
(* The release tables of utilities/os_versions.py and the functions of     *)
(* utilities/upgrade_utils.py that compute the next release from them.     *)
(* A codename is a string; "none" stands for Python's None and "raise" for *)
(* a call that raises.                                                     *)
(***************************************************************************)
EXTENDS Naturals, Sequences, FiniteSets

\* OPENSTACK_CODENAMES, in the order of the releases.
OpenStackCodenames ==
  <<"diablo", "essex", "folsom", "grizzly", "havana", "icehouse", "juno", "kilo",
    "liberty", "mitaka", "newton", "ocata", "pike", "queens", "rocky", "stein",
    "train", "ussuri", "victoria", "wallaby", "xena", "yoga", "zed", "antelope",
    "bobcat", "caracal", "dalmatian", "epoxy", "flamingo", "gazpacho">>

\* The versions, the keys of the same table.
OpenStackVersions ==
  <<"2011.2", "2012.1", "2012.2", "2013.1", "2013.2", "2014.1", "2014.2", "2015.1",
    "2015.2", "2016.1", "2016.2", "2017.1", "2017.2", "2018.1", "2018.2", "2019.1",
    "2019.2", "2020.1", "2020.2", "2021.1", "2021.2", "2022.1", "2022.2", "2023.1",
    "2023.2", "2024.1", "2024.2", "2025.1", "2025.2", "2026.1">>

\* The same names in the order in which Python compares strings, and "zebra", with
\* which get_lowest_openstack_version starts: zed comes after it.
Alphabetical ==
  <<"antelope", "bobcat", "caracal", "dalmatian", "diablo", "epoxy", "essex",
    "flamingo", "folsom", "gazpacho", "grizzly", "havana", "icehouse", "juno",
    "kilo", "liberty", "mitaka", "newton", "ocata", "pike", "queens", "rocky",
    "stein", "train", "ussuri", "victoria", "wallaby", "xena", "yoga", "zebra",
    "zed">>

Codenames == {OpenStackCodenames[i] : i \in DOMAIN OpenStackCodenames}

Position(seq, name) == CHOOSE i \in DOMAIN seq : seq[i] = name

\* BasicStringComparator: releases are compared by their place in the table.
Index(name) == Position(OpenStackCodenames, name)

\* UBUNTU_OPENSTACK_RELEASE.  The key 'noble' is in the table three times; the
\* last entry counts.
DistroRelease ==
  [oneiric |-> "diablo", precise |-> "essex", quantal |-> "folsom",
   raring |-> "grizzly", saucy |-> "havana", trusty |-> "icehouse",
   utopic |-> "juno", vivid |-> "kilo", wily |-> "liberty", xenial |-> "mitaka",
   yakkety |-> "newton", zesty |-> "ocata", artful |-> "pike", bionic |-> "queens",
   cosmic |-> "rocky", disco |-> "stein", eoan |-> "train", focal |-> "ussuri",
   groovy |-> "victoria", hirsute |-> "wallaby", impish |-> "xena",
   jammy |-> "yoga", kinetic |-> "zed", lunar |-> "antelope", mantic |-> "bobcat",
   noble |-> "epoxy", questing |-> "flamingo", resolute |-> "gazpacho"]

Series == DOMAIN DistroRelease

\* OPENSTACK_RELEASES_PAIRS, of the series that the cloud archive has releases for.
CloudArchive ==
  [trusty |-> {"icehouse", "kilo", "liberty", "mitaka"},
   xenial |-> {"mitaka", "newton", "ocata", "pike", "queens"},
   bionic |-> {"queens", "rocky", "stein", "train", "ussuri"},
   focal  |-> {"ussuri", "victoria", "wallaby", "xena", "yoga"},
   jammy  |-> {"yoga", "zed", "antelope", "bobcat", "caracal"},
   noble  |-> {"caracal", "dalmatian", "epoxy"}]

\* The releases of the pairs with the series: before xenial the table has pairs with
\* trusty only, and of the series with no cloud archive the one of the archive.
PairedWith(ubuntu) ==
  IF ubuntu \in DOMAIN CloudArchive THEN CloudArchive[ubuntu]
  ELSE IF ubuntu \in {"oneiric", "precise", "quantal", "raring", "saucy", "utopic",
                      "vivid", "wily"} THEN {}
  ELSE {DistroRelease[ubuntu]}

Least(names) ==
  CHOOSE v \in names : \A w \in names : Position(Alphabetical, v) <= Position(Alphabetical, w)

\* A start that more than one codename is not less than.
LowestFromXena(versions) == Least(versions \cup {"xena"})

\* get_lowest_openstack_version: the least of 'zebra' and the versions as strings.
GetLowestOpenStackVersion(versions) == Least(versions \cup {"zebra"})

\* The release after the next.
SecondNext(name) ==
  IF name \in Codenames /\ Index(name) + 1 < Len(OpenStackCodenames)
    THEN OpenStackCodenames[Index(name) + 2] ELSE "raise"

\* determine_next_openstack_release: it raises for a name that is not in the table
\* and for the last one.
DetermineNextOpenStackRelease(name) ==
  IF name \in Codenames /\ Index(name) < Len(OpenStackCodenames)
    THEN OpenStackCodenames[Index(name) + 1] ELSE "raise"

\* determine_new_source for a source of the series; the source is "distro" or a
\* codename, which is what the caller passes.  The result is the codename of
\* "cloud:<series>-<codename>".
DetermineNewSource(ubuntu, source, release, singleIncrement) ==
  LET current == IF source = "distro" THEN DistroRelease[ubuntu] ELSE source
      new     == DetermineNextOpenStackRelease(current)
  IN IF \/ new = "raise"
        \/ singleIncrement /\ release # new
        \/ new \notin PairedWith(ubuntu)
       THEN "none" ELSE new
=============================================================================
