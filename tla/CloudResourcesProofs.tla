----------------------- MODULE CloudResourcesProofs -----------------------
(***************************************************************************)
(* Proofs about CloudResources, for all images, flavors and numbers of     *)
(* attempts and runs.                                                      *)
(***************************************************************************)
EXTENDS CloudResources, TLAPS

USE DEF local, cloud

\* The private key is written only after nova has made the pair it belongs to.
KeyInv ==
  /\ used \in Nat
  /\ pc = "write_key" => keypair # 0
  /\ KeyMatches

\* Every step keeps KeyInv.
LEMMA KeyStep == KeyInv /\ [Next]_vars => KeyInv'
<1> SUFFICES ASSUME KeyInv, [Next]_vars PROVE KeyInv'
  OBVIOUS
<1> USE DEF KeyInv, KeyMatches
<1>1. CASE FindImage
  BY <1>1 DEF FindImage
<1>2. CASE GetImagesByName
  BY <1>2 DEF GetImagesByName, NextImage
<1>3. CASE DownloadImage
  BY <1>3 DEF DownloadImage
<1>4. CASE ConvertImage
  BY <1>4 DEF ConvertImage
<1>5. CASE CreateImage
  BY <1>5 DEF CreateImage
<1>6. CASE UploadImage
  BY <1>6 DEF UploadImage
<1>7. CASE PollActive
  BY <1>7 DEF PollActive
<1>8. CASE SetProperties
  BY <1>8 DEF SetProperties, NextImage
<1>9. CASE CreateFlavor
  BY <1>9 DEF CreateFlavor, AttemptFails
<1>10. CASE SetKeys
  BY <1>10 DEF SetKeys, AttemptFails
<1>11. CASE FlavorsDone
  BY <1>11 DEF FlavorsDone
<1>12. CASE CheckKey
  BY <1>12 DEF CheckKey, AttemptFails, ValidKeyExists, IsKeysValid
<1>13. CASE CheckKeyRaises
  BY <1>13 DEF CheckKeyRaises, AttemptFails
<1>14. CASE CreateSshKey
  BY <1>14 DEF CreateSshKey, AttemptFails
<1>15. CASE WritePrivateKey
  BY <1>15 DEF WritePrivateKey, AttemptFails
<1>16. CASE ImageActive
  BY <1>16 DEF ImageActive
<1>17. CASE Fail
  BY <1>17 DEF Fail, Ended
<1>18. CASE NetworkChanges
  BY <1>18 DEF NetworkChanges
<1>19. CASE Rerun
  BY <1>19 DEF Rerun
<1>20. CASE UNCHANGED vars
  BY <1>20 DEF vars
<1> QED
  BY <1>1, <1>2, <1>3, <1>4, <1>5, <1>6, <1>7, <1>8, <1>9, <1>10, <1>11,
     <1>12, <1>13, <1>14, <1>15, <1>16, <1>17, <1>18, <1>19, <1>20 DEF Next, Setup

\* Whenever the setup is done the private key on disk opens what the key pair in
\* nova closes, for any number of stopped attempts and runs before.
THEOREM KeyUsable == Spec => []KeyMatches
<1>1. Init => KeyInv
  BY DEF Init, KeyInv, KeyMatches
<1>2. KeyInv => KeyMatches
  BY DEF KeyInv
<1> QED
  BY <1>1, <1>2, KeyStep, PTL DEF Spec

-----------------------------------------------------------------------------
(* What the setup leaves is usable *)

ImageType ==
  [status : {"queued", "saving", "active"},
   data : {"none", "partial", "whole", "not_raw"}, properties : BOOLEAN]

Files == {"absent", "partial", "whole"}

Adding == {"find", "lookup", "download", "convert", "create", "upload", "wait", "properties"}
Keys == {"key", "create_key", "write_key"}

\* What the proof needs of the types of the variables.
TypesInv ==
  /\ ceph \in BOOLEAN
  /\ pc \in Adding \cup {"flavors", "set_keys"} \cup Keys \cup Ended
  /\ img \in DOMAIN Images
  /\ path \in {"file", "raw"}
  /\ file \in [Urls -> Files] /\ raw \in [Urls -> Files]
  /\ image \in [ImageNames -> Seq(ImageType)]
  /\ flavor \in [Flavors -> {"absent", "bare", "full"}]
  /\ pc = "set_keys" => making \in Flavors

\* Glance has one image of a name or none; none of the name at hand before it is
\* created, and one of every name the setup has left behind.
NamesInv ==
  /\ \A n \in ImageNames : Len(image[n]) <= 1
  /\ pc \in {"download", "convert", "create"} => ~Existing(Name)
  /\ pc \in {"upload", "wait", "properties"} => Existing(Name)
  /\ pc \in Adding => \A i \in 1..(img - 1) : Existing(Images[i])
  /\ pc \notin Adding \cup {"raised"} => \A n \in ImageNames : Existing(n)

\* Half a file is what a mishap left, and so is a file that is not converted.
FilesInv ==
  /\ \A u \in Urls : file[u] = "partial" => "cut_download" \in mishaps
  /\ \A u \in Urls : raw[u] = "partial" => "not_converted" \in mishaps
  /\ pc \in {"convert", "create", "upload"} => file[Url] # "absent"
  /\ pc \in {"create", "upload"} =>
       IF path = "raw" THEN raw[Url] # "absent" ELSE ceph => "not_converted" \in mishaps

\* An image lacks data or properties as long as the setup is at it, or a mishap
\* explains what it lacks.
DataInv ==
  \A n \in ImageNames : Existing(n) =>
    /\ \/ image[n][1].data # "none"
       \/ "cut_upload" \in mishaps
       \/ pc = "upload" /\ n = Name
    /\ \/ image[n][1].data = "whole"
       \/ mishaps \cap {"cut_upload", "cut_download", "not_converted"} # {}
       \/ pc = "upload" /\ n = Name
    /\ n \in WithProperties =>
         \/ image[n][1].properties
         \/ mishaps \cap {"cut_upload", "cut_properties"} # {}
         \/ pc \in {"upload", "wait", "properties"} /\ n = Name

\* The same of flavors and their extra specs.
FlavorsInv ==
  /\ pc \in Keys \cup {"done"} => Absent = {}
  /\ \A f \in WithSpecs :
       \/ flavor[f] # "bare"
       \/ "no_specs" \in mishaps
       \/ pc = "set_keys" /\ making = f

UsableInv == TypesInv /\ NamesInv /\ FilesInv /\ DataInv /\ FlavorsInv

\* UsableInv holds before the first call.
LEMMA UsableInit == Init => UsableInv
<1> SUFFICES ASSUME Init PROVE UsableInv
  OBVIOUS
<1>1. 1 \in DOMAIN Images
  BY ResourcesAssumption
<1>2. TypesInv
  BY <1>1 DEF Init, TypesInv, Adding, Files, ImageType
<1>3. NamesInv
  BY DEF Init, NamesInv, Adding
<1>4. FilesInv
  BY DEF Init, FilesInv
<1>5. DataInv
  BY DEF Init, DataInv, Existing
<1>6. FlavorsInv
  BY ResourcesAssumption DEF Init, FlavorsInv, Keys
<1> QED
  BY <1>2, <1>3, <1>4, <1>5, <1>6 DEF UsableInv

\* The image at hand and its URL are ones of the configuration.
LEMMA AtHand ==
  ASSUME TypesInv
  PROVE  Name \in ImageNames /\ Url \in Urls
BY DEF TypesInv, Name, Url, ImageNames, Urls

\* So are the images the setup has left behind.
LEMMA EarlierImages ==
  ASSUME TypesInv
  PROVE  \A i \in 1..(img - 1) : Images[i] \in ImageNames
<1>1. Images \in Seq(ImageNames)
  BY ResourcesAssumption
<1>2. img \in 1..Len(Images)
  BY <1>1 DEF TypesInv
<1>3. \A i \in 1..(img - 1) : i \in 1..Len(Images)
  BY <1>1, <1>2
<1> QED
  BY <1>1, <1>3

\* A sequence that is not empty has an element.
LEMMA NotEmpty ==
  ASSUME NEW S, NEW s \in Seq(S)
  PROVE  /\ Len(s) \in Nat /\ DOMAIN s = 1..Len(s)
         /\ s # <<>> <=> Len(s) > 0
OBVIOUS

\* A sequence of at most one element that is not empty has exactly one.
LEMMA JustOne ==
  ASSUME NEW S, NEW s \in Seq(S), s # <<>>, Len(s) <= 1
  PROVE  Len(s) = 1
<1> DEFINE k == Len(s)
<1>1. k \in Nat /\ k > 0 /\ k <= 1
  BY NotEmpty
<1> HIDE DEF k
<1>2. k = 1
  BY <1>1
<1> QED
  BY <1>2 DEF k

\* An image that exists is the only one of its name.
LEMMA TheImage ==
  ASSUME UsableInv, NEW n \in ImageNames, Existing(n)
  PROVE  /\ Len(image[n]) = 1 /\ DOMAIN image[n] = {1}
         /\ image[n][1] \in ImageType
<1>1. image[n] \in Seq(ImageType) /\ image[n] # <<>> /\ Len(image[n]) <= 1
  BY DEF UsableInv, TypesInv, NamesInv, Existing
<1>2. Len(image[n]) = 1
  BY <1>1, JustOne, Zenon
<1>3. DOMAIN image[n] = 1..1 /\ 1..1 = {1}
  BY <1>1, <1>2
<1>4. image[n][1] \in ImageType
  BY <1>1, <1>2
<1> QED
  BY <1>2, <1>3, <1>4

\* What it takes to replace that image by another one.
LEMMA ImageReplaced ==
  ASSUME UsableInv, NEW n \in ImageNames, Existing(n), NEW r \in ImageType,
         image' = [image EXCEPT ![n] = [@ EXCEPT ![1] = r]]
  PROVE  /\ image' \in [ImageNames -> Seq(ImageType)]
         /\ Len(image'[n]) = 1 /\ Existing(n)' /\ image'[n][1] = r
         /\ \A m \in ImageNames : Existing(m)' <=> Existing(m)
         /\ \A m \in ImageNames : Len(image'[m]) <= 1
         /\ \A m \in ImageNames : m # n => image'[m] = image[m]
<1>1. /\ image \in [ImageNames -> Seq(ImageType)]
      /\ \A m \in ImageNames : Len(image[m]) <= 1
  BY DEF UsableInv, TypesInv, NamesInv
<1>2. image[n] \in Seq(ImageType) /\ Len(image[n]) = 1
  BY <1>1, TheImage
<1> DEFINE new == [image[n] EXCEPT ![1] = r]
<1>3. new \in Seq(ImageType) /\ Len(new) = 1 /\ new[1] = r /\ new # <<>>
  BY <1>2
<1>4. image' = [image EXCEPT ![n] = new]
  OBVIOUS
<1> HIDE DEF new
<1> QED
  BY <1>1, <1>3, <1>4 DEF Existing

\* The last image is done: there is one of every name.
LEMMA NextImageInv ==
  ASSUME UsableInv, NextImage, pc \in Adding,
         image' \in [ImageNames -> Seq(ImageType)],
         \A n \in ImageNames : Existing(n) => Existing(n)', image'[Name] # <<>>
  PROVE  /\ img' \in DOMAIN Images
         /\ \/ pc' = "find" /\ \A i \in 1..(img' - 1) : Existing(Images[i])'
            \/ pc' = "flavors" /\ \A n \in ImageNames : Existing(n)'
<1>1. Images \in Seq(ImageNames)
  BY ResourcesAssumption
<1>2. img \in 1..Len(Images) /\ DOMAIN Images = 1..Len(Images)
  BY <1>1 DEF UsableInv, TypesInv
<1>3. \A i \in 1..img : Existing(Images[i])'
  <2> SUFFICES ASSUME NEW i \in 1..img PROVE Existing(Images[i])'
    OBVIOUS
  <2>1. CASE i = img
    BY <2>1 DEF Name, Existing
  <2>2. CASE i # img
    <3>1. i \in 1..(img - 1)
      BY <1>2, <2>2
    <3>2. Images[i] \in ImageNames
      BY <3>1, EarlierImages DEF UsableInv
    <3>3. Existing(Images[i])
      BY <3>1 DEF UsableInv, NamesInv
    <3> QED
      BY <3>2, <3>3
  <2> QED
    BY <2>1, <2>2
<1>4. CASE img < Len(Images)
  <2>1. img' = img + 1 /\ pc' = "find"
    BY <1>4 DEF NextImage
  <2> QED
    BY <1>2, <1>3, <1>4, <2>1
<1>5. CASE ~(img < Len(Images))
  <2>1. img' = img /\ pc' = "flavors"
    BY <1>5 DEF NextImage
  <2>2. img = Len(Images)
    <3>1. Len(Images) \in Nat
      BY <1>1, NotEmpty, Zenon
    <3>2. img \in 1..Len(Images)
      BY <1>2
    <3> QED
      BY <1>5, <3>1, <3>2
  <2>3. \A i \in DOMAIN Images : Existing(Images[i])'
    BY <1>2, <1>3, <2>2
  <2>4. \A n \in ImageNames : Existing(n)'
    BY <2>3 DEF ImageNames
  <2> QED
    BY <1>2, <2>1, <2>4
<1> QED
  BY <1>4, <1>5

\* What is said of images and flavors outlives a step that leaves the images at
\* hand and their state alone, if it does not end the call that excuses a lack.
LEMMA DataKept ==
  ASSUME UsableInv, image' = image, mishaps \subseteq mishaps', Name' = Name,
         \/ pc' = pc
         \/ pc \notin {"upload", "wait", "properties"}
         \/ pc = "upload" /\ "cut_upload" \in mishaps'
         \/ pc = "wait" /\ pc' = "properties"
         \/ pc \in {"wait", "properties"} /\ "cut_properties" \in mishaps'
  PROVE  DataInv'
BY DEF UsableInv, DataInv, Existing

\* A step that leaves the flavors alone, and does not skip the calls that make them,
\* keeps what is known of them.
LEMMA FlavorsKept ==
  ASSUME UsableInv, flavor' = flavor, mishaps \subseteq mishaps', making' = making,
         pc' \in Keys \cup {"done"} => pc \in Keys \cup {"done"},
         pc = "set_keys" => pc' = pc \/ "no_specs" \in mishaps'
  PROVE  FlavorsInv'
BY DEF UsableInv, FlavorsInv, Absent

\* The calls before an image is created.
LEMMA BeforeCreate ==
  ASSUME UsableInv, FindImage \/ GetImagesByName \/ DownloadImage \/ ConvertImage
  PROVE  UsableInv'
<1> USE DEF Adding, Keys, Ended
<1>1. /\ image' = image /\ flavor' = flavor /\ making' = making /\ ceph' = ceph
      /\ mishaps \subseteq mishaps'
  BY DEF FindImage, GetImagesByName, DownloadImage, ConvertImage
<1>2. Name \in ImageNames /\ Url \in Urls
  BY AtHand DEF UsableInv
<1>3. CASE FindImage
  <2>1. /\ pc = "find" /\ pc' = "lookup" /\ img' = img /\ path' = path
        /\ file' = file /\ raw' = raw /\ mishaps' = mishaps
    BY <1>3 DEF FindImage
  <2>2. Name' = Name /\ Url' = Url
    BY <2>1 DEF Name, Url
  <2>3. DataInv' /\ FlavorsInv'
    BY <1>1, <2>1, <2>2, DataKept, FlavorsKept
  <2> QED
    BY <1>1, <2>1, <2>2, <2>3 DEF UsableInv, TypesInv, NamesInv, FilesInv, Existing
<1>4. CASE GetImagesByName
  <2>1. /\ pc = "lookup" /\ path' = path
        /\ file' = file /\ raw' = raw /\ mishaps' = mishaps
    BY <1>4 DEF GetImagesByName
  <2>2. CASE Existing(Name)
    <3>1. /\ img' \in DOMAIN Images
          /\ \/ pc' = "find" /\ \A i \in 1..(img' - 1) : Existing(Images[i])'
             \/ pc' = "flavors" /\ \A n \in ImageNames : Existing(n)'
      <4>1. NextImage
        BY <1>4, <2>2 DEF GetImagesByName
      <4>2. \A n \in ImageNames : Existing(n) => Existing(n)'
        BY <1>1 DEF Existing
      <4>3. image' \in [ImageNames -> Seq(ImageType)] /\ image'[Name] # <<>>
        BY <1>1, <2>2 DEF UsableInv, TypesInv, Existing
      <4> QED
        BY <2>1, <4>1, <4>2, <4>3, NextImageInv
    <3>2. TypesInv'
      BY <1>1, <2>1, <3>1 DEF UsableInv, TypesInv
    <3>3. NamesInv'
      BY <1>1, <3>1 DEF UsableInv, NamesInv
    <3>4. FilesInv'
      BY <1>1, <2>1, <3>1 DEF UsableInv, FilesInv
    <3>5. DataInv'
      BY <1>1, <2>1, <3>1 DEF UsableInv, DataInv, Existing
    <3>6. FlavorsInv'
      BY <1>1, <2>1, <3>1, FlavorsKept
    <3> QED
      BY <3>2, <3>3, <3>4, <3>5, <3>6 DEF UsableInv
  <2>3. CASE ~Existing(Name)
    <3>1. pc' = "download" /\ img' = img
      BY <1>4, <2>3 DEF GetImagesByName
    <3>2. Name' = Name /\ Url' = Url
      BY <3>1 DEF Name, Url
    <3>3. DataInv' /\ FlavorsInv'
      BY <1>1, <2>1, <3>1, <3>2, DataKept, FlavorsKept
    <3>4. NamesInv'
      BY <1>1, <2>1, <2>3, <3>1, <3>2 DEF UsableInv, NamesInv, Existing
    <3> QED
      BY <1>1, <2>1, <3>1, <3>2, <3>3, <3>4 DEF UsableInv, TypesInv, FilesInv
  <2> QED
    BY <2>2, <2>3
<1>5. CASE DownloadImage
  <2>1. pc = "download" /\ pc' \in {"convert", "raised"} /\ img' = img /\ path' = path /\ raw' = raw
    BY <1>5 DEF DownloadImage
  <2>2. Name' = Name /\ Url' = Url
    BY <2>1 DEF Name, Url
  <2>3. DataInv' /\ FlavorsInv'
    BY <1>1, <2>1, <2>2, DataKept, FlavorsKept
  <2>4. NamesInv'
    BY <1>1, <2>1, <2>2 DEF UsableInv, NamesInv, Existing
  <2>5. file' \in [Urls -> Files] /\ FilesInv'
    BY <1>1, <1>2, <1>5, <2>1, <2>2 DEF UsableInv, TypesInv, FilesInv, DownloadImage, Files
  <2> QED
    BY <1>1, <2>1, <2>3, <2>4, <2>5 DEF UsableInv, TypesInv
<1>6. CASE ConvertImage
  <2>1. pc = "convert" /\ pc' = "create" /\ img' = img /\ file' = file
    BY <1>6 DEF ConvertImage
  <2>2. Name' = Name /\ Url' = Url
    BY <2>1 DEF Name, Url
  <2>3. DataInv' /\ FlavorsInv'
    BY <1>1, <2>1, <2>2, DataKept, FlavorsKept
  <2>4. NamesInv'
    BY <1>1, <2>1, <2>2 DEF UsableInv, NamesInv, Existing
  <2>5. path' \in {"file", "raw"} /\ raw' \in [Urls -> Files] /\ FilesInv'
    BY <1>1, <1>2, <1>6, <2>1, <2>2 DEF UsableInv, TypesInv, FilesInv, ConvertImage, Files
  <2> QED
    BY <1>1, <2>1, <2>3, <2>4, <2>5 DEF UsableInv, TypesInv
<1> QED
  BY <1>3, <1>4, <1>5, <1>6

\* images.create: the first image of its name.
LEMMA CreateKeeps ==
  ASSUME UsableInv, CreateImage
  PROVE  UsableInv'
<1> USE DEF Adding, Keys, Ended
<1>1. /\ pc = "create" /\ img' = img /\ path' = path /\ file' = file /\ raw' = raw
      /\ flavor' = flavor /\ making' = making /\ ceph' = ceph
      /\ image' = [image EXCEPT ![Name] = Append(@, Queued)]
      /\ \/ pc' = "upload" /\ mishaps' = mishaps
         \/ pc' = "raised" /\ mishaps' = mishaps \cup {"cut_upload"}
  BY DEF CreateImage
<1>2. Name \in ImageNames /\ Url \in Urls /\ image \in [ImageNames -> Seq(ImageType)]
  BY AtHand DEF UsableInv, TypesInv
<1>3. Name' = Name /\ Url' = Url
  BY <1>1 DEF Name, Url
<1>4. image[Name] = <<>>
  BY <1>1 DEF UsableInv, NamesInv, Existing
<1>5. image' = [image EXCEPT ![Name] = <<Queued>>]
  BY <1>1, <1>2, <1>4
<1>6. Queued \in ImageType
  BY DEF Queued, ImageType
<1>7. /\ image' \in [ImageNames -> Seq(ImageType)]
      /\ Len(image'[Name]) <= 1 /\ Existing(Name)'
      /\ \A n \in ImageNames : n # Name => image'[n] = image[n]
  BY <1>2, <1>3, <1>5, <1>6 DEF Existing
<1>8. NamesInv'
  <2>1. \A n \in ImageNames : Existing(n) => Existing(n)'
    BY <1>4, <1>7 DEF Existing
  <2>2. ASSUME NEW n \in ImageNames PROVE Len(image'[n]) <= 1
    <3>1. CASE n = Name
      BY <1>7, <3>1
    <3>2. CASE n # Name
      BY <1>7, <3>2 DEF UsableInv, NamesInv
    <3> QED
      BY <3>1, <3>2
  <2>3. \A i \in 1..(img - 1) : Existing(Images[i])'
    <3>1. \A i \in 1..(img - 1) : Existing(Images[i])
      BY <1>1 DEF UsableInv, NamesInv
    <3>2. \A i \in 1..(img - 1) : Images[i] \in ImageNames
      BY EarlierImages DEF UsableInv
    <3> QED
      BY <2>1, <3>1, <3>2
  <2> QED
    BY <1>1, <1>3, <1>7, <2>2, <2>3 DEF NamesInv
<1>9. DataInv'
  <2> SUFFICES ASSUME NEW n \in ImageNames, Existing(n)',
                      ~(pc' = "upload" /\ n = Name), "cut_upload" \notin mishaps'
               PROVE  /\ image'[n][1].data # "none"
                      /\ \/ image'[n][1].data = "whole"
                         \/ mishaps' \cap {"cut_upload", "cut_download", "not_converted"} # {}
                      /\ n \in WithProperties =>
                           \/ image'[n][1].properties
                           \/ mishaps' \cap {"cut_upload", "cut_properties"} # {}
    BY <1>3 DEF DataInv
  <2>1. pc' = "upload" /\ n # Name /\ mishaps' = mishaps
    BY <1>1
  <2>2. image'[n] = image[n] /\ Existing(n)
    BY <1>7, <2>1 DEF Existing
  <2> QED
    BY <1>1, <2>1, <2>2 DEF UsableInv, DataInv
<1>10. FlavorsInv'
  BY <1>1, FlavorsKept
<1>11. FilesInv'
  BY <1>1, <1>3 DEF UsableInv, FilesInv
<1> QED
  BY <1>1, <1>7, <1>8, <1>9, <1>10, <1>11 DEF UsableInv, TypesInv

\* A step that replaces the one image of a name keeps what is said of names.
LEMMA ReplaceKeepsNames ==
  ASSUME UsableInv, img' = img, pc' \notin {"download", "convert", "create"},
         \/ pc' = pc
         \/ pc \in {"upload", "wait", "properties"} /\ pc' \in {"upload", "wait", "properties", "raised"},
         \A m \in ImageNames : Existing(m)' <=> Existing(m),
         \A m \in ImageNames : Len(image'[m]) <= 1
  PROVE  NamesInv'
<1> USE DEF Adding
<1>1. Name \in ImageNames /\ Name' = Name
  BY AtHand DEF UsableInv, Name
<1>2. \A i \in 1..(img - 1) : Images[i] \in ImageNames
  BY EarlierImages DEF UsableInv
<1> QED
  BY <1>1, <1>2 DEF UsableInv, NamesInv

\* images.upload: what is uploaded is whole unless a mishap is on record.
LEMMA UploadKeeps ==
  ASSUME UsableInv, UploadImage
  PROVE  UsableInv'
<1> USE DEF Adding, Keys, Ended
<1>1. /\ pc = "upload" /\ img' = img /\ path' = path /\ file' = file /\ raw' = raw
      /\ flavor' = flavor /\ making' = making /\ ceph' = ceph
      /\ image' = [image EXCEPT ![Name][Last] =
                     [@ EXCEPT !.status = "saving", !.data = Uploaded]]
      /\ \/ pc' = "wait" /\ mishaps' = mishaps
         \/ pc' = "raised" /\ mishaps' = mishaps \cup {"cut_properties"}
  BY DEF UploadImage
<1>2. Name \in ImageNames /\ Url \in Urls /\ Existing(Name)
  BY <1>1, AtHand DEF UsableInv, NamesInv
<1>3. Name' = Name /\ Url' = Url
  BY <1>1 DEF Name, Url
<1>4. Last = 1 /\ image[Name][1] \in ImageType
  BY <1>2, TheImage DEF Last
<1>5. /\ Uploaded \in {"partial", "whole", "not_raw"}
      /\ Uploaded # "whole" => mishaps \cap {"cut_download", "not_converted"} # {}
  BY <1>1, <1>2 DEF UsableInv, TypesInv, FilesInv, Uploaded, Files
<1> DEFINE r == [image[Name][1] EXCEPT !.status = "saving", !.data = Uploaded]
<1>6. r \in ImageType /\ r.data = Uploaded
  BY <1>4, <1>5 DEF ImageType
<1>7. image' = [image EXCEPT ![Name] = [@ EXCEPT ![1] = r]]
  BY <1>1, <1>4
<1> HIDE DEF r
<1>8. /\ image' \in [ImageNames -> Seq(ImageType)]
      /\ image'[Name][1] = r
      /\ \A m \in ImageNames : Existing(m)' <=> Existing(m)
      /\ \A m \in ImageNames : Len(image'[m]) <= 1
      /\ \A m \in ImageNames : m # Name => image'[m] = image[m]
  BY <1>2, <1>6, <1>7, ImageReplaced
<1>9. NamesInv'
  BY <1>1, <1>8, ReplaceKeepsNames
<1>10. DataInv'
  <2> SUFFICES ASSUME NEW n \in ImageNames, Existing(n)'
               PROVE  /\ image'[n][1].data # "none" \/ "cut_upload" \in mishaps'
                      /\ \/ image'[n][1].data = "whole"
                         \/ mishaps' \cap {"cut_upload", "cut_download", "not_converted"} # {}
                      /\ n \in WithProperties =>
                           \/ image'[n][1].properties
                           \/ mishaps' \cap {"cut_upload", "cut_properties"} # {}
                           \/ pc' = "wait" /\ n = Name
    BY <1>3 DEF DataInv
  <2>1. CASE n = Name
    BY <1>1, <1>5, <1>6, <1>8, <2>1
  <2>2. CASE n # Name
    <3>1. image'[n] = image[n] /\ Existing(n)
      BY <1>8, <2>2
    <3> QED
      BY <1>1, <2>2, <3>1 DEF UsableInv, DataInv
  <2> QED
    BY <2>1, <2>2
<1>11. FlavorsInv'
  BY <1>1, FlavorsKept
<1>12. FilesInv'
  BY <1>1 DEF UsableInv, FilesInv
<1> QED
  BY <1>1, <1>8, <1>9, <1>10, <1>11, <1>12 DEF UsableInv, TypesInv

\* Glance makes an image active, whatever call the setup is at.
LEMMA ActiveKeeps ==
  ASSUME UsableInv, ImageActive
  PROVE  UsableInv'
<1> USE DEF Adding, Keys, Ended
<1>1. /\ pc' = pc /\ img' = img /\ path' = path /\ file' = file /\ raw' = raw
      /\ flavor' = flavor /\ making' = making /\ ceph' = ceph /\ mishaps' = mishaps
  BY DEF ImageActive
<1>2. PICK m \in ImageNames : \E i \in DOMAIN image[m] :
        image' = [image EXCEPT ![m][i].status = "active"]
  BY DEF ImageActive
<1>3. PICK i \in DOMAIN image[m] : image' = [image EXCEPT ![m][i].status = "active"]
  BY <1>2
<1>4. Existing(m)
  BY <1>3 DEF Existing
<1>5. i = 1 /\ image[m][1] \in ImageType
  BY <1>3, <1>4, TheImage
<1> DEFINE r == [image[m][1] EXCEPT !.status = "active"]
<1>6. r \in ImageType /\ r.data = image[m][1].data /\ r.properties = image[m][1].properties
  BY <1>5 DEF ImageType
<1>7. image' = [image EXCEPT ![m] = [@ EXCEPT ![1] = r]]
  BY <1>3, <1>5
<1> HIDE DEF r
<1>8. /\ image' \in [ImageNames -> Seq(ImageType)]
      /\ image'[m][1] = r
      /\ \A n \in ImageNames : Existing(n)' <=> Existing(n)
      /\ \A n \in ImageNames : Len(image'[n]) <= 1
      /\ \A n \in ImageNames : n # m => image'[n] = image[n]
  BY <1>4, <1>6, <1>7, ImageReplaced
<1>9. Name' = Name /\ Url' = Url /\ Name \in ImageNames
  BY <1>1, AtHand DEF Name, Url, UsableInv
<1>10. NamesInv'
  <2>1. \A n \in 1..(img - 1) : Images[n] \in ImageNames
    BY EarlierImages DEF UsableInv
  <2> QED
    BY <1>1, <1>8, <1>9, <2>1 DEF UsableInv, NamesInv
<1>11. DataInv'
  <2>1. \A n \in ImageNames : /\ image'[n][1].data = image[n][1].data
                               /\ image'[n][1].properties = image[n][1].properties
    BY <1>6, <1>8
  <2> QED
    BY <1>1, <1>8, <1>9, <2>1 DEF UsableInv, DataInv
<1>12. FlavorsInv'
  BY <1>1, FlavorsKept
<1>13. FilesInv'
  BY <1>1, <1>9 DEF UsableInv, FilesInv
<1> QED
  BY <1>1, <1>8, <1>10, <1>11, <1>12, <1>13 DEF UsableInv, TypesInv

\* An image whose properties are set is an image.
LEMMA RecordWith ==
  ASSUME NEW x \in ImageType, NEW b \in BOOLEAN
  PROVE  /\ [x EXCEPT !.properties = b] \in ImageType
         /\ [x EXCEPT !.properties = b].data = x.data
         /\ [x EXCEPT !.properties = b].properties = b
BY DEF ImageType

\* The last call of create_image.
LEMMA PropertiesKeeps ==
  ASSUME UsableInv, SetProperties
  PROVE  UsableInv'
<1> USE DEF Adding, Keys, Ended
<1>1. /\ pc = "properties" /\ path' = path /\ file' = file /\ raw' = raw
      /\ flavor' = flavor /\ making' = making /\ ceph' = ceph /\ mishaps' = mishaps
      /\ image' = [image EXCEPT ![Name][Last].properties = Name \in WithProperties]
      /\ NextImage \/ (pc' = "raised" /\ img' = img)
  BY DEF SetProperties
<1>2. Name \in ImageNames /\ Existing(Name)
  BY <1>1, AtHand DEF UsableInv, NamesInv
<1>3. Last = 1 /\ image[Name][1] \in ImageType
  BY <1>2, TheImage DEF Last
<1> DEFINE given == Name \in WithProperties
           r == [image[Name][1] EXCEPT !.properties = given]
<1>4. /\ r \in ImageType /\ r.data = image[Name][1].data
      /\ r.properties = given
  <2>1. given \in BOOLEAN
    OBVIOUS
  <2> HIDE DEF given
  <2> QED
    BY <1>3, <2>1, RecordWith
<1>5. image' = [image EXCEPT ![Name] = [@ EXCEPT ![1] = r]]
  BY <1>1, <1>3
<1> HIDE DEF r
<1>6. /\ image' \in [ImageNames -> Seq(ImageType)]
      /\ image'[Name][1] = r
      /\ \A m \in ImageNames : Existing(m)' <=> Existing(m)
      /\ \A m \in ImageNames : Len(image'[m]) <= 1
      /\ \A m \in ImageNames : m # Name => image'[m] = image[m]
  BY <1>2, <1>4, <1>5, ImageReplaced
<1>7. /\ img' \in DOMAIN Images
      /\ \/ pc' = "find" /\ \A i \in 1..(img' - 1) : Existing(Images[i])'
         \/ pc' = "flavors" /\ \A n \in ImageNames : Existing(n)'
         \/ pc' = "raised"
  <2>1. CASE NextImage
    <3>1. image'[Name] # <<>>
      BY <1>2, <1>6 DEF Existing
    <3> QED
      BY <1>1, <1>6, <2>1, <3>1, NextImageInv
  <2>2. CASE pc' = "raised" /\ img' = img
    BY <2>2 DEF UsableInv, TypesInv
  <2> QED
    BY <1>1, <2>1, <2>2
<1>8. NamesInv'
  BY <1>6, <1>7 DEF NamesInv
<1>9. DataInv'
  <2> SUFFICES ASSUME NEW n \in ImageNames, Existing(n)'
               PROVE  /\ image'[n][1].data # "none" \/ "cut_upload" \in mishaps'
                      /\ \/ image'[n][1].data = "whole"
                         \/ mishaps' \cap {"cut_upload", "cut_download", "not_converted"} # {}
                      /\ n \in WithProperties =>
                           \/ image'[n][1].properties
                           \/ mishaps' \cap {"cut_upload", "cut_properties"} # {}
    BY DEF DataInv
  <2>1. Existing(n)
    BY <1>6
  <2>2. CASE n = Name
    <3>1. image'[n][1] = r /\ r.data = image[n][1].data
      BY <1>4, <1>6, <2>2
    <3>2. r.properties = (n \in WithProperties)
      BY <1>4, <2>2
    <3> QED
      BY <1>1, <2>1, <3>1, <3>2 DEF UsableInv, DataInv
  <2>3. CASE n # Name
    <3>1. image'[n] = image[n]
      BY <1>6, <2>3
    <3> QED
      BY <1>1, <2>1, <2>3, <3>1 DEF UsableInv, DataInv
  <2> QED
    BY <2>2, <2>3
<1>10. FlavorsInv'
  BY <1>1, <1>7, FlavorsKept
<1>11. FilesInv'
  BY <1>1, <1>7 DEF UsableInv, FilesInv
<1> QED
  BY <1>1, <1>6, <1>7, <1>8, <1>9, <1>10, <1>11 DEF UsableInv, TypesInv

\* The steps that change neither images, files nor flavors.
LEMMA QuietKeeps ==
  ASSUME UsableInv,
         \/ PollActive \/ FlavorsDone \/ CheckKey \/ CheckKeyRaises \/ CreateSshKey
         \/ WritePrivateKey \/ Fail \/ NetworkChanges \/ UNCHANGED vars
  PROVE  UsableInv'
<1> USE DEF Adding, Keys, Ended
<1>1. /\ img' = img /\ path' = path /\ file' = file /\ raw' = raw /\ image' = image
      /\ flavor' = flavor /\ making' = making /\ ceph' = ceph /\ mishaps \subseteq mishaps'
  BY DEF PollActive, FlavorsDone, CheckKey, CheckKeyRaises, CreateSshKey, WritePrivateKey,
         Fail, NetworkChanges, vars
<1>2. Name' = Name /\ Url' = Url
  BY <1>1 DEF Name, Url
<1>3. \/ pc' = pc
      \/ /\ pc' = "raised"
         /\ pc = "upload" => "cut_upload" \in mishaps'
         /\ pc \in {"wait", "properties"} => "cut_properties" \in mishaps'
         /\ pc = "set_keys" => "no_specs" \in mishaps'
      \/ pc = "wait" /\ pc' = "properties"
      \/ pc = "flavors" /\ pc' = "key" /\ Absent = {}
      \/ pc \in Keys /\ pc' \in Keys \cup {"done"}
  BY DEF PollActive, FlavorsDone, CheckKey, CheckKeyRaises, CreateSshKey, WritePrivateKey,
         Fail, NetworkChanges, vars, AttemptFails
<1>4. TypesInv'
  BY <1>1, <1>3 DEF UsableInv, TypesInv
<1>5. NamesInv'
  BY <1>1, <1>2, <1>3 DEF UsableInv, NamesInv, Existing
<1>6. FilesInv'
  BY <1>1, <1>2, <1>3 DEF UsableInv, FilesInv
<1>7. DataInv'
  BY <1>1, <1>2, <1>3, DataKept
<1>8. FlavorsInv'
  BY <1>1, <1>3 DEF UsableInv, FlavorsInv, Absent
<1> QED
  BY <1>4, <1>5, <1>6, <1>7, <1>8 DEF UsableInv

\* create_flavors.
LEMMA FlavorsKeeps ==
  ASSUME UsableInv, CreateFlavor \/ SetKeys
  PROVE  UsableInv'
<1> USE DEF Adding, Keys, Ended
<1>1. /\ img' = img /\ path' = path /\ file' = file /\ raw' = raw /\ image' = image
      /\ ceph' = ceph /\ mishaps \subseteq mishaps'
      /\ pc \in {"flavors", "set_keys"} /\ pc' \in {"flavors", "set_keys", "raised"}
  BY DEF CreateFlavor, SetKeys, AttemptFails
<1>2. Name' = Name /\ Url' = Url
  BY <1>1 DEF Name, Url
<1>3. NamesInv' /\ FilesInv' /\ DataInv'
  BY <1>1, <1>2, DataKept DEF UsableInv, NamesInv, FilesInv, Existing
<1>4. CASE CreateFlavor
  <2>1. PICK f \in Absent :
          /\ flavor' = [flavor EXCEPT ![f] = "bare"] /\ making' = f
          /\ \/ pc' = (IF f \in WithSpecs THEN "set_keys" ELSE "flavors") /\ mishaps' = mishaps
             \/ f \in WithSpecs => "no_specs" \in mishaps'
    BY <1>4 DEF CreateFlavor
  <2>2. f \in Flavors /\ pc = "flavors"
    BY <1>4, <2>1 DEF Absent, CreateFlavor
  <2>3. FlavorsInv'
    BY <1>1, <2>1, <2>2, ResourcesAssumption DEF UsableInv, TypesInv, FlavorsInv
  <2> QED
    BY <1>1, <1>3, <2>1, <2>2, <2>3 DEF UsableInv, TypesInv
<1>5. CASE SetKeys
  <2>1. /\ pc = "set_keys" /\ making' = making
        /\ \/ /\ flavor' = [flavor EXCEPT ![making] = "full"]
              /\ pc' = "flavors" /\ mishaps' = mishaps
           \/ flavor' = flavor /\ pc' # "set_keys" /\ "no_specs" \in mishaps'
    BY <1>5 DEF SetKeys, AttemptFails
  <2>2. making \in Flavors
    BY <2>1 DEF UsableInv, TypesInv
  <2>3. FlavorsInv'
    BY <1>1, <2>1, <2>2, ResourcesAssumption DEF UsableInv, TypesInv, FlavorsInv
  <2> QED
    BY <1>1, <1>3, <2>1, <2>2, <2>3 DEF UsableInv, TypesInv
<1> QED
  BY <1>4, <1>5

\* A new run keeps what there is and starts with the first image.
LEMMA RerunKeeps ==
  ASSUME UsableInv, Rerun
  PROVE  UsableInv'
<1> USE DEF Adding, Keys, Ended
<1>1. /\ pc \in {"done", "raised"} /\ pc' = "find" /\ img' = 1 /\ path' = "file"
      /\ file' = file /\ raw' = raw /\ image' = image /\ flavor' = flavor
      /\ ceph' = ceph /\ mishaps' = mishaps
  BY DEF Rerun
<1>2. 1 \in DOMAIN Images
  BY ResourcesAssumption
<1> QED
  BY <1>1, <1>2 DEF UsableInv, TypesInv, NamesInv, FilesInv, DataInv, FlavorsInv, Existing, Absent

\* Every step keeps UsableInv.
LEMMA UsableStep == UsableInv /\ [Next]_vars => UsableInv'
BY BeforeCreate, CreateKeeps, UploadKeeps, ActiveKeeps, PropertiesKeeps, QuietKeeps,
   FlavorsKeeps, RerunKeeps DEF Next, Setup

\* Images, flavors and their parts are all there when the setup is done, and no
\* image is there twice, but for what the recorded mishaps explain: for any number
\* of images, also from one URL, of flavors, and of runs that stopped anywhere.
THEOREM ResourcesAreUsable == Spec => []ResourcesUsable
<1>1. ASSUME UsableInv PROVE ResourcesUsable
  <2>1. \A n \in ImageNames : Len(image[n]) <= 1
    BY <1>1 DEF UsableInv, NamesInv
  <2> SUFFICES ASSUME pc = "done"
               PROVE  /\ \A n \in ImageNames :
                           /\ Existing(n)
                           /\ "cut_upload" \notin mishaps => image[n][1].data # "none"
                           /\ mishaps \cap {"cut_upload", "cut_download", "not_converted"} = {} =>
                                image[n][1].data = "whole"
                           /\ n \in WithProperties
                              /\ mishaps \cap {"cut_upload", "cut_properties"} = {} =>
                                image[n][1].properties
                      /\ Absent = {}
                      /\ "no_specs" \notin mishaps => \A f \in WithSpecs : flavor[f] = "full"
    BY <2>1 DEF ResourcesUsable
  <2>2. \A n \in ImageNames : Existing(n)
    BY <1>1 DEF UsableInv, NamesInv, Adding
  <2>3. Absent = {}
    BY <1>1 DEF UsableInv, FlavorsInv
  <2>4. "no_specs" \notin mishaps => \A f \in WithSpecs : flavor[f] = "full"
    BY <1>1, <2>3, ResourcesAssumption DEF UsableInv, TypesInv, FlavorsInv, Absent
  <2> QED
    BY <1>1, <2>2, <2>3, <2>4 DEF UsableInv, DataInv
<1> QED
  BY <1>1, UsableInit, UsableStep, PTL DEF Spec

=============================================================================
