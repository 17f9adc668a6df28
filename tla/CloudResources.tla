--------------------------- MODULE CloudResources ---------------------------
(***************************************************************************)
(* What tests launch guests from: the images of charm_tests/glance/        *)
(* setup.py and create_image of utilities/openstack.py, the flavors and    *)
(* the ssh key of charm_tests/nova/setup.py.                               *)
(*                                                                         *)
(* Images are downloaded to a directory that later runs find again.  A     *)
(* call that changes something may raise all the same; the setup then      *)
(* stops, except where it is retried, and may be run again.  What a stop   *)
(* leaves behind that a later run takes for complete is in mishaps.        *)
(***************************************************************************)
EXTENDS Naturals, Sequences, FiniteSets

CONSTANTS
  Images,         \* the images added, in order
  UrlOf,          \* [image -> its URL]
  WithProperties, \* images that are given properties
  Flavors,        \* FLAVORS
  WithSpecs,      \* those with extra-specs
  Attempts,       \* stop_after_attempt of create_flavors and manage_ssh_key
  StatusPolls,    \* stop_after_attempt of resource_reaches_status
  MaxRuns         \* bound on how often the setup is run

ImageNames == {Images[i] : i \in DOMAIN Images}
Urls == {UrlOf[n] : n \in ImageNames}

ASSUME ResourcesAssumption ==
  /\ {Attempts, StatusPolls, MaxRuns} \subseteq Nat \ {0}
  /\ Images \in Seq(ImageNames) /\ Images # <<>>
  /\ WithProperties \subseteq ImageNames /\ WithSpecs \subseteq Flavors

\* Every key pair nova makes is a new one; 0 stands for none.
MaxKeys == MaxRuns * Attempts
HalfWritten == MaxKeys + 1   \* a private key that was written in part
ForeignKey == MaxKeys + 2    \* the private key of an earlier cloud

VARIABLES
  ceph,     \* glance is related to ceph-mon
  online,   \* the image servers and glance can be reached
  runs,     \* runs of the setup started
  pc,       \* the call the setup is at
  img,      \* index of the image being added
  polls,    \* polls of resource_reaches_status
  tries,    \* attempts of create_flavors or manage_ssh_key
  path,     \* "file" or "raw": what is uploaded
  making,   \* the flavor whose extra specs are to be set, or "none"
  file,     \* [Urls -> the downloaded file: "absent", "partial" or "whole"]
  raw,      \* [Urls -> the converted file, likewise]
  image,    \* [ImageNames -> the images of that name in glance]
  flavor,   \* [Flavors -> "absent", "bare" or "full"]
  keypair,  \* the key pair in nova
  used,     \* the key pairs made so far
  keyfile,  \* the private key on disk
  mishaps   \* what stops left that a later run takes for complete

local == <<file, raw, keyfile>>
cloud == <<image, flavor, keypair, used>>
vars == <<ceph, online, runs, pc, img, polls, tries, path, making, local, cloud, mishaps>>

Name == Images[img]
Url == UrlOf[Name]

Ended == {"done", "raised"}

Init ==
  /\ ceph \in BOOLEAN /\ online = TRUE
  /\ runs = 1 /\ pc = "find" /\ img = 1 /\ polls = 0 /\ tries = 0 /\ path = "file" /\ making = "none"
  /\ file = [u \in Urls |-> "absent"] /\ raw = [u \in Urls |-> "absent"]
  /\ image = [n \in ImageNames |-> <<>>]
  /\ flavor = [f \in Flavors |-> "absent"]
  /\ keypair = 0 /\ used = 0
  /\ keyfile \in {0, ForeignKey}   \* TEST_PRIVKEY may name a file that outlives a cloud
  /\ mishaps = {}

-----------------------------------------------------------------------------
(* add_image and create_image *)

\* find_cirros_image and get_images_by_name are retried without end while the
\* server cannot be reached.
FindImage ==
  /\ pc = "find" /\ online
  /\ pc' = "lookup"
  /\ UNCHANGED <<ceph, online, runs, img, polls, tries, path, making, local, cloud, mishaps>>

NextImage ==
  IF img < Len(Images) THEN img' = img + 1 /\ pc' = "find"
                       ELSE pc' = "flavors" /\ UNCHANGED img

\* An image of the name counts, whatever its status.
Existing(n) == image[n] # <<>>

GetImagesByName ==
  /\ pc = "lookup" /\ online
  /\ IF Existing(Name) THEN NextImage ELSE pc' = "download" /\ UNCHANGED img
  /\ UNCHANGED <<ceph, online, runs, polls, tries, path, making, local, cloud, mishaps>>

\* download_image, ten attempts while the content is too short.  A file that
\* exists is not downloaded again, whoever left it.
DownloadImage ==
  /\ pc = "download"
  /\ \/ file[Url] # "absent" /\ pc' = "convert" /\ UNCHANGED <<file, mishaps>>
     \/ /\ file[Url] = "absent"
        /\ file' = [file EXCEPT ![Url] = "whole"]
        /\ pc' = "convert" /\ UNCHANGED mishaps
     \/ /\ file[Url] = "absent"
        /\ file' = [file EXCEPT ![Url] = "partial"]
        /\ pc' = "raised" /\ mishaps' = mishaps \cup {"cut_download"}
  /\ UNCHANGED <<ceph, online, runs, img, polls, tries, path, making, raw, keyfile, cloud>>

DeclareRaw ==
  /\ pc = "convert" /\ pc' = "create" /\ path' = "file"
  /\ UNCHANGED <<ceph, online, runs, img, polls, tries, making, local, cloud, mishaps>>

\* convert_image_format_to_raw_if_qcow2.  When qemu-img fails, as it may and as
\* convert does on half a file, the original is used; a failed info has written
\* nothing, what a failed convert wrote stays.
ConvertImage ==
  /\ pc = "convert"
  /\ \/ ~ceph /\ path' = "file" /\ UNCHANGED <<raw, mishaps>>
     \/ ceph /\ raw[Url] # "absent" /\ path' = "raw" /\ UNCHANGED <<raw, mishaps>>
     \/ /\ ceph /\ raw[Url] = "absent" /\ file[Url] = "whole"
        /\ raw' = [raw EXCEPT ![Url] = "whole"]
        /\ path' = "raw" /\ UNCHANGED mishaps
     \/ /\ ceph
        /\ \/ UNCHANGED raw
           \/ raw[Url] = "absent" /\ raw' = [raw EXCEPT ![Url] = "partial"]
        /\ path' = "file" /\ mishaps' = mishaps \cup {"not_converted"}
  /\ pc' = "create"
  /\ UNCHANGED <<ceph, online, runs, img, polls, tries, making, file, keyfile, cloud>>

Queued == [status |-> "queued", data |-> "none", properties |-> FALSE]

\* upload_image_to_glance: images.create.
CreateImage ==
  /\ pc = "create"
  /\ image' = [image EXCEPT ![Name] = Append(@, Queued)]
  /\ \/ pc' = "upload" /\ UNCHANGED mishaps
     \/ pc' = "raised" /\ mishaps' = mishaps \cup {"cut_upload"}
  /\ UNCHANGED <<ceph, online, runs, img, polls, tries, path, making, local, flavor, keypair, used>>

\* With ceph the image is declared to be raw.
Uploaded ==
  IF path = "raw" THEN raw[Url] ELSE IF ceph THEN "not_raw" ELSE file[Url]

Last == Len(image[Name])

UploadImage ==
  /\ pc = "upload"
  /\ image' = [image EXCEPT ![Name][Last] = [@ EXCEPT !.status = "saving", !.data = Uploaded]]
  /\ polls' = 0
  /\ \/ pc' = "wait" /\ UNCHANGED mishaps
     \/ pc' = "raised" /\ mishaps' = mishaps \cup {"cut_properties"}
  /\ UNCHANGED <<ceph, online, runs, img, tries, path, making, local, flavor, keypair, used>>

\* Glance stores the data.
ImageActive ==
  /\ \E n \in ImageNames : \E i \in DOMAIN image[n] :
       /\ image[n][i].status = "saving"
       /\ image' = [image EXCEPT ![n][i].status = "active"]
  /\ UNCHANGED <<ceph, online, runs, pc, img, polls, tries, path, making, local, flavor, keypair,
                 used, mishaps>>

PollUntilActive ==
  /\ pc = "wait"
  /\ image[Name][Last].status = "active" /\ pc' = "properties"
  /\ UNCHANGED <<ceph, online, runs, img, polls, tries, path, making, local, cloud, mishaps>>

\* One poll of resource_reaches_status.
PollActive ==
  /\ pc = "wait"
  /\ \/ image[Name][Last].status = "active" /\ pc' = "properties" /\ UNCHANGED <<polls, mishaps>>
     \/ /\ image[Name][Last].status # "active" /\ polls + 1 < StatusPolls
        /\ polls' = polls + 1 /\ UNCHANGED <<pc, mishaps>>
     \/ /\ image[Name][Last].status # "active" /\ polls + 1 = StatusPolls
        /\ pc' = "raised" /\ mishaps' = mishaps \cup {"cut_properties"} /\ UNCHANGED polls
  /\ UNCHANGED <<ceph, online, runs, img, tries, path, making, local, cloud>>

\* The tags and properties at the end of create_image.
SetProperties ==
  /\ pc = "properties"
  /\ image' = [image EXCEPT ![Name][Last].properties = Name \in WithProperties]
  /\ NextImage \/ (pc' = "raised" /\ UNCHANGED img)
  /\ UNCHANGED <<ceph, online, runs, polls, tries, path, making, local, flavor, keypair, used, mishaps>>

-----------------------------------------------------------------------------
(* create_flavors *)

\* The decorators of create_flavors and manage_ssh_key start it again.
AttemptFails(again) ==
  IF tries + 1 < Attempts THEN tries' = tries + 1 /\ pc' = again
                          ELSE pc' = "raised" /\ UNCHANGED tries

Absent == {f \in Flavors : flavor[f] = "absent"}

\* A flavor that is not listed is created.  When the answer is lost the retrier
\* of the nova client repeats the call, which is refused as a duplicate.
CreateFlavor ==
  /\ pc = "flavors" /\ Absent # {}
  /\ \E f \in Absent :
       /\ flavor' = [flavor EXCEPT ![f] = "bare"] /\ making' = f
       /\ \/ /\ pc' = IF f \in WithSpecs THEN "set_keys" ELSE "flavors"
             /\ UNCHANGED <<tries, mishaps>>
          \/ /\ AttemptFails("flavors")
             /\ mishaps' = IF f \in WithSpecs THEN mishaps \cup {"no_specs"} ELSE mishaps
  /\ UNCHANGED <<ceph, online, runs, img, polls, path, local, image, keypair, used>>

SetKeys ==
  /\ pc = "set_keys"
  /\ \/ /\ flavor' = [flavor EXCEPT ![making] = "full"]
        /\ pc' = "flavors" /\ UNCHANGED <<tries, mishaps>>
     \/ /\ AttemptFails("flavors") /\ mishaps' = mishaps \cup {"no_specs"}
        /\ UNCHANGED flavor
  /\ UNCHANGED <<ceph, online, runs, img, polls, path, making, local, image, keypair, used>>

FlavorsDone ==
  /\ pc = "flavors" /\ Absent = {}
  /\ pc' = "key" /\ tries' = 0
  /\ UNCHANGED <<ceph, online, runs, img, polls, path, making, local, cloud, mishaps>>

-----------------------------------------------------------------------------
(* manage_ssh_key *)

BothExist == keypair # 0 /\ keyfile # 0

\* is_keys_valid: the private key opens what the public key closed.
IsKeysValid(public, private) == private = public

\* valid_key_exists; a private key that was written in part cannot be loaded.
ValidKeyExists == keypair # 0 /\ keyfile # 0 /\ IsKeysValid(keypair, keyfile)
KeyUnreadable == keypair # 0 /\ keyfile = HalfWritten

\* create_ssh_key(replace=True) deletes the key pair of that name.
CheckKey ==
  /\ pc = "key" /\ ~KeyUnreadable
  /\ \/ ValidKeyExists /\ pc' = "done" /\ UNCHANGED <<keypair, tries>>
     \/ ~ValidKeyExists /\ keypair' = 0 /\ pc' = "create_key" /\ UNCHANGED tries
     \/ ~ValidKeyExists /\ keypair' = 0 /\ AttemptFails("key")
  /\ UNCHANGED <<ceph, online, runs, img, polls, path, making, local, image, flavor, used, mishaps>>

\* Loading the private key raises, in every attempt.
CheckKeyRaises ==
  /\ pc = "key" /\ KeyUnreadable
  /\ AttemptFails("key")
  /\ UNCHANGED <<ceph, online, runs, img, polls, path, making, local, cloud, mishaps>>

\* keypairs.create; a lost answer ends in a conflict, as for flavors.
CreateSshKey ==
  /\ pc = "create_key"
  /\ used' = used + 1 /\ keypair' = used + 1
  /\ (pc' = "write_key" /\ UNCHANGED tries) \/ AttemptFails("key")
  /\ UNCHANGED <<ceph, online, runs, img, polls, path, making, local, image, flavor, mishaps>>

\* write_private_key; opening the file empties it, and the write may be cut.
WritePrivateKey ==
  /\ pc = "write_key"
  /\ \/ keyfile' = keypair /\ pc' = "done" /\ UNCHANGED tries
     \/ keyfile' \in {0, HalfWritten} /\ AttemptFails("key")
  /\ UNCHANGED <<ceph, online, runs, img, polls, path, making, file, raw, cloud, mishaps>>

-----------------------------------------------------------------------------
\* A call raises without an effect, or the run is killed.
Fail ==
  /\ pc \notin Ended
  /\ pc' = "raised"
  /\ mishaps' = mishaps \cup
       (IF pc = "upload" THEN {"cut_upload"} ELSE {}) \cup
       (IF pc \in {"wait", "properties"} THEN {"cut_properties"} ELSE {}) \cup
       (IF pc = "set_keys" THEN {"no_specs"} ELSE {})
  /\ UNCHANGED <<ceph, online, runs, img, polls, tries, path, making, local, cloud>>

NetworkChanges ==
  /\ online' = ~online
  /\ UNCHANGED <<ceph, runs, pc, img, polls, tries, path, making, local, cloud, mishaps>>

Rerun ==
  /\ pc \in Ended /\ runs < MaxRuns
  /\ runs' = runs + 1
  /\ pc' = "find" /\ img' = 1 /\ polls' = 0 /\ tries' = 0 /\ path' = "file" /\ making' = "none"
  /\ UNCHANGED <<ceph, online, local, cloud, mishaps>>

Setup ==
  \/ DownloadImage \/ ConvertImage \/ CreateImage \/ UploadImage \/ PollActive
  \/ SetProperties \/ CreateFlavor \/ SetKeys \/ FlavorsDone
  \/ CheckKey \/ CheckKeyRaises \/ CreateSshKey \/ WritePrivateKey

Next ==
  \/ FindImage \/ GetImagesByName \/ Setup
  \/ ImageActive \/ Fail \/ NetworkChanges \/ Rerun

\* The setup is a program that runs on.  Its unbounded retries of FindImage and
\* GetImagesByName succeed if the network comes back again and again.
Fairness == WF_vars(Setup) /\ SF_vars(FindImage) /\ SF_vars(GetImagesByName)

Spec == Init /\ [][Next]_vars /\ Fairness

-----------------------------------------------------------------------------
\* However often the setup was stopped and run again, glance has at most one
\* image of a name, as tests take the first one; and when the setup is done every
\* image is there with all of its data in the format it is declared to have and
\* its properties set, and every flavor has its extra specs.  The exceptions have
\* one cause each: a stop at a point that a later run cannot recognise, or a
\* conversion that failed.
ResourcesUsable ==
  /\ \A n \in ImageNames : Len(image[n]) <= 1
  /\ pc = "done" =>
    /\ \A n \in ImageNames :
         /\ Existing(n)
         /\ "cut_upload" \notin mishaps => image[n][1].data # "none"
         /\ mishaps \cap {"cut_upload", "cut_download", "not_converted"} = {} =>
              image[n][1].data = "whole"
         /\ n \in WithProperties /\ mishaps \cap {"cut_upload", "cut_properties"} = {} =>
              image[n][1].properties
    /\ Absent = {}
    /\ "no_specs" \notin mishaps => \A f \in WithSpecs : flavor[f] = "full"

\* When the setup is done the private key on disk belongs to the key pair in
\* nova, also after a run that stopped between deleting the old key pair and
\* writing the new private key.
KeyMatches == pc = "done" => keypair # 0 /\ keyfile = keypair

\* Every run of the setup ends, if the network comes back again and again.
Termination == []<>online => []<>(pc \in Ended)

=============================================================================
