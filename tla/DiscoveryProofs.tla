-------------------------- MODULE DiscoveryProofs --------------------------
(***************************************************************************)
(* What finding the sources promises, for any drives, any whitelist, any   *)
(* number of rounds and any coming and going.                              *)
(*                                                                         *)
(* Names of devices stay while drives change, so a group or a list of      *)
(* devices to mount says little about what is behind them.  The proof is   *)
(* about the filesystems of which no device went: behind every name that   *)
(* was put down for one of them there is still a member of it (Home), all  *)
(* its members are different names, and so a group is complete just when   *)
(* it has all of its volumes.                                              *)
(***************************************************************************)
EXTENDS Discovery, FiniteSetTheorems, SequenceTheorems, WellFoundedInduction, TLAPS

Dev == Slots \X Nat
Group == [fs : STRING, devices : Seq(Dev), expected : Nat]
Single == [path : Dev, type : {"xfs", "ext4", "f2fs", "bcachefs", "btrfs"}, fs : STRING]
Reported == [fs : STRING, device : Dev, state : {"Mounted", "Encrypted", "Error"}, mount : Dev \cup {NoMount}]

----------------------------------------------------------------------------
(* Names and what is behind them *)

\* Numbers of a set go no lower for ever.
LEMMA LeastNat ==
  ASSUME NEW S \in SUBSET Nat, S # {}
  PROVE  \E n \in S : \A m \in S : n <= m
<1>1. PICK n \in S : \A m \in S : ~(<<m, n>> \in OpToRel(<, Nat))
  BY WFMin, NatLessThanWellFounded
<1>2. \A m \in S : ~(m < n)
  BY <1>1 DEF OpToRel
<1> QED
  BY <1>2

\* Of the devices that are left one comes first.
LEMMA FirstIn ==
  ASSUME NEW S \in SUBSET Dev, S # {}
  PROVE  First(S) \in S
<1>0. \A d \in S : d[1] \in Nat /\ d[2] \in Nat /\ d = <<d[1], d[2]>>
  <2> TAKE d \in S
  <2>1. PICK s \in Slots, n \in Nat : d = <<s, n>>
    BY DEF Dev
  <2>2. s \in Nat
    BY ConstantsAssumption
  <2> QED
    BY <2>1, <2>2
<1> DEFINE Fst == {d[1] : d \in S}
<1>1. PICK n \in Fst : \A m \in Fst : n <= m
  <2>1. Fst \in SUBSET Nat /\ Fst # {}
    BY <1>0
  <2> QED
    BY <2>1, LeastNat
<1> DEFINE Snd == {d[2] : d \in {e \in S : e[1] = n}}
<1>2. PICK k \in Snd : \A m \in Snd : k <= m
  <2>1. Snd \in SUBSET Nat /\ Snd # {}
    BY <1>0
  <2> QED
    BY <2>1, LeastNat
<1>3. PICK d \in S : d[1] = n /\ d[2] = k
  OBVIOUS
<1>4. \A e \in S \ {d} : Before(d, e)
  <2> TAKE e \in S \ {d}
  <2>1. n <= e[1]
    BY <1>1
  <2>2. e[1] = n => k <= e[2]
    BY <1>2
  <2>3. e[1] # n \/ e[2] # k
    BY <1>0, <1>3
  <2> QED
    BY <1>0, <1>3, <2>1, <2>2, <2>3 DEF Before
<1> QED
  BY <1>4 DEF First

Typed(slots) == slots \in [Slots -> Drives \cup {NoDrive}]

\* A drive is in one slot only.
Apart(slots) == \A s, t \in Slots : slots[s] = slots[t] => s = t \/ slots[s] = NoDrive

\* A drive, or none, and the volumes on it.
LEMMA DriveType ==
  ASSUME NEW drive \in Drives \cup {NoDrive}
  PROVE  /\ drive.parted \in BOOLEAN /\ drive.volumes \in Seq(Volumes)
         /\ drive.volumes # <<>> => drive \in Drives
         /\ DOMAIN drive.volumes = 1..Len(drive.volumes) /\ Len(drive.volumes) \in Nat
         /\ \A k \in DOMAIN drive.volumes : drive.volumes[k] \in Volumes
         /\ ~drive.parted => Len(drive.volumes) <= 1
<1>1. CASE drive \in Drives
  <2>1. drive.parted \in BOOLEAN /\ drive.volumes \in Seq(Volumes)
    BY <1>1, ConstantsAssumption
  <2> QED
    BY <1>1, <2>1, LenProperties, ElementOfSeq, ConstantsAssumption
<1>2. CASE drive = NoDrive
  <2>1. drive.parted = FALSE /\ drive.volumes = <<>>
    BY <1>2 DEF NoDrive
  <2> DEFINE volumes == drive.volumes
  <2>2. volumes = <<>>
    BY <2>1
  <2> HIDE DEF volumes
  <2>3. volumes \in Seq(Volumes) /\ Len(volumes) = 0
    BY <2>2, EmptySeq
  <2>4. DOMAIN volumes = 1..Len(volumes)
    BY <2>3, LenProperties
  <2>5. /\ volumes \in Seq(Volumes) /\ volumes = <<>>
        /\ DOMAIN volumes = 1..Len(volumes) /\ Len(volumes) \in Nat
        /\ \A k \in DOMAIN volumes : volumes[k] \in Volumes
        /\ Len(volumes) <= 1
    BY <2>2, <2>3, <2>4
  <2>6. drive.parted \in BOOLEAN
    BY <2>1
  <2> QED
    BY <2>5, <2>6, Zenon DEF volumes
<1> QED
  BY <1>1, <1>2

\* What is behind a device that is there.
LEMMA PresentHeld ==
  ASSUME NEW slots, Typed(slots), NEW dev \in PresentIn(slots)
  PROVE  /\ dev \in Dev /\ dev[1] \in Slots /\ dev = <<dev[1], dev[2]>>
         /\ dev \in DevicesOf(dev[1], slots[dev[1]])
         /\ HeldIn(slots, dev)[1] = slots[dev[1]] /\ HeldIn(slots, dev)[1] \in Drives
         /\ HeldIn(slots, dev)[2] \in DOMAIN HeldIn(slots, dev)[1].volumes
         /\ VolumeAt(HeldIn(slots, dev)) \in Volumes
         /\ dev[2] = IF slots[dev[1]].parted THEN HeldIn(slots, dev)[2] ELSE 0
         /\ HeldIn(slots, dev) = <<slots[dev[1]], HeldIn(slots, dev)[2]>>
<1>1. PICK s \in Slots : dev \in DevicesOf(s, slots[s])
  BY DEF PresentIn
<1> DEFINE drive == slots[s]
<1>2. drive \in Drives \cup {NoDrive}
  BY DEF Typed
<1> HIDE DEF drive
<1>3. /\ drive.parted \in BOOLEAN /\ drive.volumes \in Seq(Volumes)
      /\ drive.volumes # <<>> => drive \in Drives
      /\ DOMAIN drive.volumes = 1..Len(drive.volumes) /\ Len(drive.volumes) \in Nat
      /\ \A k \in DOMAIN drive.volumes : drive.volumes[k] \in Volumes
  BY <1>2, DriveType
<1>4. CASE drive.parted
  <2>1. PICK k \in DOMAIN drive.volumes : dev = <<s, k>>
    BY <1>1, <1>4 DEF DevicesOf, drive
  <2>2. k \in Nat /\ k # 0 /\ drive.volumes # <<>>
    BY <1>3, <2>1
  <2>3. HeldIn(slots, dev) = <<drive, k>>
    BY <2>1, <2>2 DEF HeldIn, drive
  <2> QED
    BY <1>1, <1>3, <1>4, <2>1, <2>2, <2>3 DEF VolumeAt, Dev, drive
<1>5. CASE ~drive.parted
  <2>1. drive.volumes # <<>> /\ dev = <<s, 0>>
    BY <1>1, <1>5 DEF DevicesOf, drive
  <2>2. 1 \in DOMAIN drive.volumes
    BY <1>3, <2>1, EmptySeq
  <2>3. HeldIn(slots, dev) = <<drive, 1>>
    BY <2>1 DEF HeldIn, drive
  <2> QED
    BY <1>1, <1>3, <1>5, <2>1, <2>2, <2>3 DEF VolumeAt, Dev, drive
<1> QED
  BY <1>3, <1>4, <1>5

\* Behind two names there are two volumes.
LEMMA HeldOnce ==
  ASSUME NEW slots, Typed(slots), Apart(slots), NEW d \in PresentIn(slots), NEW e \in PresentIn(slots),
         HeldIn(slots, d) = HeldIn(slots, e)
  PROVE  d = e
<1>1. /\ d[1] \in Slots /\ e[1] \in Slots /\ slots[d[1]] = slots[e[1]]
      /\ d = <<d[1], d[2]>> /\ e = <<e[1], e[2]>>
  BY PresentHeld
<1>2. slots[d[1]] # NoDrive
  BY PresentHeld DEF NoDrive
<1>3. d[1] = e[1]
  BY <1>1, <1>2 DEF Apart
<1>4. d[2] = e[2]
  BY <1>3, PresentHeld
<1> QED
  BY <1>1, <1>3, <1>4

----------------------------------------------------------------------------
(* Filesystems *)

\* A member of filesystem f is behind device d.
Home(d, f) == d \in Present \cap Allowed /\ VolumeOf(d).fs = f

\* No device of it went, and it can be told what it is.
Sure(f) == f \notin left /\ Legible(f)

Shared(f) == VolumeOfFs(f).is = "btrfs" /\ VolumeOfFs(f).says > 1

\* A filesystem has finitely many members.
LEMMA MembersFinite ==
  ASSUME NEW f
  PROVE  IsFiniteSet(VolumesOf(f))
<1> DEFINE Of(drive) == {j \in DOMAIN drive.volumes : drive.volumes[j].fs = f}
           In(drive) == {<<drive, k>> : k \in Of(drive)}
           all == {In(drive) : drive \in Drives}
<1>1. \A drive \in Drives : IsFiniteSet(In(drive))
  <2> TAKE drive \in Drives
  <2> DEFINE D == Of(drive)
             I == In(drive)
             map == [k \in D |-> <<drive, k>>]
  <2>1. D \in SUBSET (1..Len(drive.volumes)) /\ Len(drive.volumes) \in Nat
    BY DriveType
  <2>2. IsFiniteSet(D)
    BY <2>1, FS_Interval, FS_Subset
  <2>3. map \in Surjection(D, I)
    BY DEF Surjection
  <2> HIDE DEF D, I, map
  <2>4. IsFiniteSet(I)
    BY <2>2, <2>3, FS_Surjection
  <2> QED
    BY <2>4 DEF I
<1>2. IsFiniteSet(all)
  <2> DEFINE map == [drive \in Drives |-> In(drive)]
  <2>1. map \in Surjection(Drives, all)
    BY DEF Surjection
  <2>2. IsFiniteSet(Drives)
    BY ConstantsAssumption
  <2> HIDE DEF map, all
  <2> QED
    BY <2>1, <2>2, FS_Surjection
<1>3. \A T \in all : IsFiniteSet(T)
  BY <1>1
<1>4. VolumesOf(f) = UNION all
  BY DEF VolumesOf
<1> HIDE DEF all
<1> QED
  BY <1>2, <1>3, <1>4, FS_UNION

\* A volume of a drive is a member of its filesystem.
LEMMA VolumesMember ==
  ASSUME NEW f, NEW drive \in Drives, NEW k \in DOMAIN drive.volumes, drive.volumes[k].fs = f
  PROVE  <<drive, k>> \in VolumesOf(f)
BY DEF VolumesOf

\* And a member of a filesystem is a volume of it.
LEMMA VolumesHave ==
  ASSUME NEW f, NEW v \in VolumesOf(f)
  PROVE  VolumeAt(v) \in Volumes /\ VolumeAt(v).fs = f
<1>1. PICK drive \in Drives : \E k \in DOMAIN drive.volumes : drive.volumes[k].fs = f /\ v = <<drive, k>>
  BY DEF VolumesOf
<1>2. PICK k \in DOMAIN drive.volumes : drive.volumes[k].fs = f /\ v = <<drive, k>>
  BY <1>1
<1>3. drive.volumes[k] \in Volumes
  BY DriveType
<1> QED
  BY <1>2, <1>3 DEF VolumeAt

\* Behind a device of a filesystem that is legible there is what it is said to be.
LEMMA HomeVolume ==
  ASSUME Typed(plugged), NEW f, Legible(f), NEW d, Home(d, f)
  PROVE  /\ HeldBy(d) \in VolumesOf(f) /\ VolumeOf(d) = VolumeOfFs(f)
         /\ VolumeOfFs(f) \in Volumes /\ VolumeOfFs(f).fs = f
<1>1. d \in PresentIn(plugged) /\ VolumeOf(d).fs = f
  BY DEF Home, Present
<1>2. /\ HeldIn(plugged, d)[1] \in Drives /\ HeldIn(plugged, d)[2] \in DOMAIN HeldIn(plugged, d)[1].volumes
      /\ HeldIn(plugged, d) = <<HeldIn(plugged, d)[1], HeldIn(plugged, d)[2]>>
  BY <1>1, PresentHeld
<1>3. HeldBy(d) \in VolumesOf(f)
  BY <1>1, <1>2, VolumesMember DEF VolumeOf, VolumeAt, HeldBy
<1> DEFINE v == CHOOSE v \in VolumesOf(f) : TRUE
<1>4. v \in VolumesOf(f) /\ VolumeOfFs(f) = VolumeAt(v)
  BY <1>3 DEF VolumeOfFs
<1> HIDE DEF v
<1>5. VolumeAt(HeldBy(d)) = VolumeOfFs(f)
  BY <1>3, <1>4 DEF Legible
<1> QED
  BY <1>3, <1>4, <1>5, VolumesHave DEF VolumeOf

Known == {"luks", "xfs", "ext4", "f2fs", "bcachefs", "btrfs"}

\* The first mark of an order that is there is the one that is found.
LEMMA MarkIsFirst ==
  ASSUME NEW order, Len(order) \in Nat, DOMAIN order = 1..Len(order), NEW volume,
         NEW i \in DOMAIN order, order[i] \in volume.marks,
         \A j \in DOMAIN order : j < i => order[j] \notin volume.marks
  PROVE  FirstMark(order, volume) = order[i]
<1> DEFINE found == {k \in DOMAIN order : order[k] \in volume.marks}
           least == CHOOSE k \in found : \A j \in found : k <= j
<1>1. i \in found /\ \A j \in found : i <= j
  OBVIOUS
<1>2. least \in found /\ \A j \in found : least <= j
  BY <1>1
<1>3. least = i
  BY <1>1, <1>2
<1> QED
  BY <1>1, <1>3 DEF FirstMark

\* One of the order is found, or none.
LEMMA MarkIsAny ==
  ASSUME NEW order, Len(order) \in Nat, DOMAIN order = 1..Len(order), NEW volume
  PROVE  FirstMark(order, volume) = "none" \/ \E i \in DOMAIN order : FirstMark(order, volume) = order[i]
<1> DEFINE found == {k \in DOMAIN order : order[k] \in volume.marks}
<1>1. CASE found = {}
  BY <1>1 DEF FirstMark
<1>2. CASE found # {}
  <2>1. found \in SUBSET Nat
    OBVIOUS
  <2>2. PICK n \in found : \A m \in found : n <= m
    BY <1>2, <2>1, LeastNat
  <2>3. \A j \in DOMAIN order : j < n => order[j] \notin volume.marks
    BY <2>1, <2>2
  <2>4. FirstMark(order, volume) = order[n]
    BY <2>2, <2>3, MarkIsFirst
  <2> QED
    BY <2>2, <2>4
<1> QED
  BY <1>1, <1>2

\* The order in which probe_fs_type looks.
LEMMA FsTypesAre ==
  /\ Len(FsTypes) = 6 /\ DOMAIN FsTypes = 1..6
  /\ FsTypes[1] = "luks" /\ FsTypes[2] = "xfs" /\ FsTypes[3] = "ext4" /\ FsTypes[4] = "f2fs"
  /\ FsTypes[5] = "bcachefs" /\ FsTypes[6] = "btrfs"
BY DEF FsTypes

\* What a volume can be taken for, and that only btrfs is over several devices.
LEMMA ProbeType ==
  ASSUME NEW volume
  PROVE  /\ ProbeFsType(volume) \in Known \cup {"none"}
         /\ volume.says \in Nat => Members(volume) \in Nat
         /\ Members(volume) > 0 => ProbeFsType(volume) = "btrfs" /\ Members(volume) > 1
<1>1. ProbeFsType(volume) \in Known \cup {"none"}
  <2>1. FirstMark(FsTypes, volume) = "none" \/ \E i \in DOMAIN FsTypes : FirstMark(FsTypes, volume) = FsTypes[i]
    BY FsTypesAre, MarkIsAny
  <2> QED
    BY <2>1, FsTypesAre DEF ProbeFsType, Known
<1>2. Members(volume) \in Nat \/ volume.says \notin Nat
  BY DEF Members
<1>3. Members(volume) > 0 => ProbeFsType(volume) = "btrfs" /\ Members(volume) > 1
  BY DEF Members
<1> QED
  BY <1>1, <1>2, <1>3

\* What is legible is probed as what it is.
LEMMA LegibleProbe ==
  ASSUME NEW f, Legible(f)
  PROVE  /\ ProbeFsType(VolumeOfFs(f)) = VolumeOfFs(f).is /\ VolumeOfFs(f).is \in Known
         /\ Members(VolumeOfFs(f)) = IF Shared(f) THEN VolumeOfFs(f).says ELSE 0
<1> DEFINE volume == VolumeOfFs(f)
<1>1. PICK i \in DOMAIN FsTypes : FsTypes[i] = volume.is
  BY DEF Legible
<1>2. volume.is \in volume.marks /\ \A j \in DOMAIN FsTypes : j < i => FsTypes[j] \notin volume.marks
  <2>1. CASE volume.marks = {volume.is}
    BY <1>1, <2>1, FsTypesAre
  <2>2. CASE volume.is = "luks" /\ "luks" \in volume.marks
    <3>1. i = 1
      BY <1>1, <2>2, FsTypesAre
    <3> QED
      BY <2>2, <3>1, FsTypesAre
  <2> QED
    BY <2>1, <2>2 DEF Legible
<1>3. ProbeFsType(volume) = volume.is
  BY <1>1, <1>2, MarkIsFirst, FsTypesAre DEF ProbeFsType
<1>4. volume.is \in Known
  BY <1>1, FsTypesAre DEF Known
<1> QED
  BY <1>3, <1>4 DEF Members, Shared

\* A filesystem that is not shared has one volume.
LEMMA AloneOnce ==
  ASSUME NEW f, Legible(f), ~Shared(f), NEW v \in VolumesOf(f), NEW w \in VolumesOf(f)
  PROVE  v = w
<1>1. CASE VolumeOfFs(f).is = "btrfs"
  <2>1. IsFiniteSet(VolumesOf(f)) /\ Cardinality(VolumesOf(f)) = VolumeOfFs(f).says
    BY <1>1, MembersFinite DEF Legible
  <2>2. Cardinality(VolumesOf(f)) \in Nat
    BY <2>1, FS_CardinalityType
  <2>3. Cardinality(VolumesOf(f)) <= 1
    BY <1>1, <2>1, <2>2 DEF Shared
  <2>4. Cardinality(VolumesOf(f)) # 0
    BY <2>1, FS_EmptySet
  <2>5. Cardinality(VolumesOf(f)) = 1
    BY <2>2, <2>3, <2>4
  <2> QED
    BY <2>1, <2>5, FS_Singleton
<1>2. CASE VolumeOfFs(f).is # "btrfs"
  BY <1>2 DEF Legible
<1> QED
  BY <1>1, <1>2

\* Nor two devices.
LEMMA AloneHome ==
  ASSUME Typed(plugged), Apart(plugged), NEW f, Legible(f), ~Shared(f),
         NEW d, NEW e, Home(d, f), Home(e, f)
  PROVE  d = e
<1>1. HeldBy(d) \in VolumesOf(f) /\ HeldBy(e) \in VolumesOf(f)
  BY HomeVolume
<1>2. HeldIn(plugged, d) = HeldIn(plugged, e)
  BY <1>1, AloneOnce DEF HeldBy
<1> QED
  BY <1>2, HeldOnce DEF Home, Present

----------------------------------------------------------------------------
(* The invariant *)

TInv ==
    /\ Typed(plugged) /\ Apart(plugged)
    /\ devices \subseteq Dev
    /\ groups \in Seq(Group) /\ \A i \in DOMAIN groups : groups[i].devices # <<>>
    /\ singles \in Seq(Single) /\ sources \in Seq(Reported)
    /\ pc \in {"enumerate", "probe", "wait", "reprobe", "mount", "done"}
    /\ waited \in 0..Timeout /\ (pc \in {"enumerate", "probe", "wait", "reprobe"} => waited < Timeout)
    /\ changes \in 0..MaxChanges

\* Where the program is decides what there can be.
PhaseOK ==
    /\ pc = "enumerate" => known = {} /\ whole = {} /\ groups = <<>> /\ singles = <<>> /\ sources = <<>>
    /\ pc \in {"enumerate", "wait", "mount", "done"} => devices = {}
    /\ pc \notin {"mount", "done"} => mounts = {}
    /\ pc = "done" => groups = <<>> /\ singles = <<>>

OneGroupEach == \A i, j \in DOMAIN groups : groups[i].fs = groups[j].fs => i = j

\* No name is in a group twice.
Once(group) == \A k, l \in DOMAIN group.devices : group.devices[k] = group.devices[l] => k = l
NamesOnce == \A i \in DOMAIN groups : Once(groups[i])

\* What is to be mounted is mounted for one source only, on a point of its own.
MountOnce ==
    /\ \A i, j \in DOMAIN groups : groups[i].devices[1] = groups[j].devices[1] => i = j
    /\ \A i, j \in DOMAIN singles : singles[i].path = singles[j].path => i = j
    /\ \A i \in DOMAIN groups, j \in DOMAIN singles : groups[i].devices[1] # singles[j].path
    /\ \A i \in DOMAIN groups : groups[i].devices[1] \notin mounts
    /\ \A i \in DOMAIN singles : singles[i].path \notin mounts

\* What is still to be probed is in no list yet.
Unprobed ==
    pc = "probe" =>
        /\ \A i \in DOMAIN groups : \A k \in DOMAIN groups[i].devices : groups[i].devices[k] \notin devices
        /\ \A i \in DOMAIN singles : singles[i].path \notin devices

AllowedOnly ==
    /\ \A i \in DOMAIN groups : \A k \in DOMAIN groups[i].devices : groups[i].devices[k] \in Allowed
    /\ scanned \subseteq Allowed

MissingOnly == pc = "reprobe" => \A i \in DOMAIN groups : groups[i].fs \notin missing => IsComplete(groups[i])

LInv == OneGroupEach /\ NamesOnce /\ MountOnce /\ Unprobed /\ AllowedOnly /\ MissingOnly

HomeGroup(group) ==
    /\ \A k \in DOMAIN group.devices : Home(group.devices[k], group.fs)
    /\ Shared(group.fs) /\ group.expected = VolumeOfFs(group.fs).says

HomeSingle(single) ==
    /\ Home(single.path, single.fs) /\ single.type = VolumeOfFs(single.fs).is
    /\ ~Shared(single.fs) /\ VolumeOfFs(single.fs).is # "luks"

\* Behind the names put down for a filesystem that is sure there are members of it.
ListsHome ==
    /\ \A i \in DOMAIN groups : Sure(groups[i].fs) => HomeGroup(groups[i])
    /\ \A i \in DOMAIN singles : Sure(singles[i].fs) => HomeSingle(singles[i])

\* What there is one source of is not to become another one.
SourcesStand ==
    \A i \in DOMAIN sources :
        LET f == sources[i].fs IN
        Sure(f) =>
            /\ \A j \in DOMAIN sources : sources[j].fs = f => i = j
            /\ \A j \in DOMAIN groups : groups[j].fs # f
            /\ \A j \in DOMAIN singles : singles[j].fs # f
            /\ sources[i].state \in StatesFor(f)
            /\ pc \notin {"mount", "done"} => VolumeOfFs(f).is = "luks"
            /\ pc = "probe" => Home(sources[i].device, f) /\ sources[i].device \notin devices

Listed(f) ==
    \/ \E i \in DOMAIN groups : groups[i].fs = f
    \/ \E i \in DOMAIN singles : singles[i].fs = f
    \/ \E i \in DOMAIN sources : sources[i].fs = f

\* What was there is listed, or still to be probed.
NoneForgotten ==
    \A f \in known : Sure(f) =>
        /\ \E d \in Present : Home(d, f)
        /\ Listed(f) \/ (pc = "probe" /\ \E d \in devices : Home(d, f))

Covers(group) ==
    \A v \in VolumesOf(group.fs) : \E d \in Present :
        /\ Home(d, group.fs) /\ HeldBy(d) = v
        /\ d \in devices \/ \E k \in DOMAIN group.devices : group.devices[k] = d

\* The members of what was whole are in its group, or still to be looked at.
WholeCovered ==
    \A f \in whole : Sure(f) =>
        /\ \A i \in DOMAIN groups : groups[i].fs = f => Covers(groups[i])
        /\ pc = "probe" /\ Shared(f) /\ (\A i \in DOMAIN groups : groups[i].fs # f) =>
              \A v \in VolumesOf(f) : \E d \in devices : Home(d, f) /\ HeldBy(d) = v

SInv == ListsHome /\ SourcesStand /\ NoneForgotten /\ WholeCovered

DInv == TInv /\ PhaseOK /\ LInv /\ SInv

----------------------------------------------------------------------------
(* Coming and going *)

Moves ==
    \/ UNCHANGED <<plugged, left>>
    \/ \E slot \in Slots : Pull(slot)
    \/ UNCHANGED left /\ \E slot \in Slots, drive \in Drives :
          /\ plugged[slot] = NoDrive /\ \A s \in Slots : plugged[s] # drive
          /\ plugged' = [plugged EXCEPT ![slot] = drive]

\* Drives stay drives, each in one slot, and what went has gone.
LEMMA MovesTyped ==
  ASSUME Typed(plugged), Apart(plugged), Moves
  PROVE  Typed(plugged)' /\ Apart(plugged)' /\ left \subseteq left'
<1>1. CASE UNCHANGED <<plugged, left>>
  BY <1>1 DEF Typed, Apart
<1>2. CASE \E slot \in Slots : Pull(slot)
  BY <1>2 DEF Pull, Typed, Apart
<1>3. CASE UNCHANGED left /\ \E slot \in Slots, drive \in Drives :
              /\ plugged[slot] = NoDrive /\ \A s \in Slots : plugged[s] # drive
              /\ plugged' = [plugged EXCEPT ![slot] = drive]
  BY <1>3 DEF Typed, Apart
<1> QED
  BY <1>1, <1>2, <1>3 DEF Moves

\* What is behind a device that is there, if nothing of its filesystem goes, stays.
LEMMA HeldStays ==
  ASSUME Typed(plugged), Moves, NEW d \in Present, VolumeOf(d).fs \notin left'
  PROVE  d \in Present' /\ HeldBy(d)' = HeldBy(d) /\ VolumeOf(d)' = VolumeOf(d)
<1>1. /\ d[1] \in Slots /\ d \in DevicesOf(d[1], plugged[d[1]])
      /\ plugged[d[1]] # NoDrive
  BY PresentHeld DEF Present, NoDrive
<1>2. plugged'[d[1]] = plugged[d[1]]
  <2>1. CASE UNCHANGED <<plugged, left>>
    BY <2>1
  <2>2. CASE \E slot \in Slots : Pull(slot)
    <3>1. PICK slot \in Slots : Pull(slot)
      BY <2>2
    <3>2. d[1] # slot
      BY <1>1, <3>1 DEF Pull
    <3> QED
      BY <1>1, <3>1, <3>2 DEF Pull, Typed
  <2>3. CASE \E slot \in Slots, drive \in Drives :
                /\ plugged[slot] = NoDrive /\ \A s \in Slots : plugged[s] # drive
                /\ plugged' = [plugged EXCEPT ![slot] = drive]
    BY <1>1, <2>3 DEF Typed
  <2> QED
    BY <2>1, <2>2, <2>3 DEF Moves
<1> QED
  BY <1>1, <1>2 DEF Present, PresentIn, HeldBy, HeldIn, VolumeOf

\* So a device of a filesystem of which nothing went is a device of it.
LEMMA HomeStays ==
  ASSUME Typed(plugged), Moves, NEW f, f \notin left', NEW d, Home(d, f)
  PROVE  Home(d, f)' /\ HeldBy(d)' = HeldBy(d) /\ d \in Present /\ d \in Present'
BY HeldStays DEF Home

\* What is whole stays so if nothing of it goes.
LEMMA WholeStays ==
  ASSUME Typed(plugged), Moves, NEW f, f \notin left', f \in SeenWhole
  PROVE  f \in SeenWhole'
<1>1. PICK e \in Present \cap Allowed : VolumeOf(e).fs = f
  BY DEF SeenWhole, Seen
<1>2. e \in Present' \cap Allowed /\ VolumeOf(e)'.fs = f
  BY <1>1, HeldStays
<1>3. f \in Seen'
  BY <1>2 DEF Seen
<1>4. ASSUME NEW v \in VolumesOf(f)
      PROVE  v \in {HeldBy(d)' : d \in Present' \cap Allowed}
  <2>1. PICK d \in Present \cap Allowed : HeldBy(d) = v
    BY <1>4 DEF SeenWhole
  <2>2. VolumeOf(d).fs = f
    BY <2>1, VolumesHave DEF VolumeOf
  <2> QED
    BY <2>1, <2>2, HeldStays
<1> QED
  BY <1>3, <1>4 DEF SeenWhole

\* And what state it may be in, it may.
LEMMA StatesStay ==
  ASSUME Typed(plugged), Moves, NEW f, f \notin left', UNCHANGED whole \/ VolumeOfFs(f).is = "luks"
  PROVE  StatesFor(f) \subseteq StatesFor(f)'
<1>1. CASE VolumeOfFs(f).is = "luks"
  BY <1>1 DEF StatesFor
<1>2. CASE UNCHANGED whole
  BY <1>2, WholeStays DEF StatesFor
<1> QED
  BY <1>1, <1>2

\* No part of the invariant minds what drives come and go.
LEMMA MovingKeeps ==
  ASSUME DInv, Moves, changes' \in 0..MaxChanges,
         UNCHANGED <<mounts, scanned, pc, devices, groups, singles, missing, waited, sources, known, whole>>
  PROVE  DInv'
<1>0. /\ Typed(plugged) /\ Apart(plugged) /\ Typed(plugged)' /\ Apart(plugged)' /\ left \subseteq left'
  BY MovesTyped DEF DInv, TInv
<1>1. TInv' /\ PhaseOK' /\ LInv'
  <2>1. TInv'
    BY <1>0 DEF DInv, TInv, Typed, Apart
  <2>2. PhaseOK'
    BY DEF DInv, PhaseOK
  <2>3. OneGroupEach' /\ NamesOnce' /\ MountOnce'
    BY DEF DInv, LInv, OneGroupEach, NamesOnce, Once, MountOnce
  <2>4. Unprobed' /\ AllowedOnly' /\ MissingOnly'
    BY DEF DInv, LInv, Unprobed, AllowedOnly, MissingOnly, IsComplete
  <2> QED
    BY <2>1, <2>2, <2>3, <2>4 DEF LInv
<1>2. \A f : Sure(f)' => Sure(f) /\ f \notin left'
  BY <1>0 DEF Sure
<1>3. \A d, f : f \notin left' /\ Home(d, f) => Home(d, f)' /\ HeldBy(d)' = HeldBy(d) /\ d \in Present'
  BY <1>0, HomeStays
<1>4. ListsHome'
  <2>1. ASSUME NEW i \in DOMAIN groups, Sure(groups[i].fs)'
        PROVE  HomeGroup(groups[i])'
    <3>1. HomeGroup(groups[i])
      BY <1>2, <2>1 DEF DInv, SInv, ListsHome
    <3> QED
      BY <1>2, <1>3, <2>1, <3>1 DEF HomeGroup
  <2>2. ASSUME NEW i \in DOMAIN singles, Sure(singles[i].fs)'
        PROVE  HomeSingle(singles[i])'
    <3>1. HomeSingle(singles[i])
      BY <1>2, <2>2 DEF DInv, SInv, ListsHome
    <3> QED
      BY <1>2, <1>3, <2>2, <3>1 DEF HomeSingle
  <2> QED
    BY <2>1, <2>2 DEF ListsHome
<1>5. SourcesStand'
  <2> SUFFICES ASSUME NEW i \in DOMAIN sources, Sure(sources[i].fs)'
               PROVE  LET f == sources[i].fs IN
                        /\ \A j \in DOMAIN sources : sources[j].fs = f => i = j
                        /\ \A j \in DOMAIN groups : groups[j].fs # f
                        /\ \A j \in DOMAIN singles : singles[j].fs # f
                        /\ sources[i].state \in StatesFor(f)'
                        /\ pc \notin {"mount", "done"} => VolumeOfFs(f).is = "luks"
                        /\ pc = "probe" => Home(sources[i].device, f)' /\ sources[i].device \notin devices
    BY DEF SourcesStand
  <2> DEFINE f == sources[i].fs
  <2>1. Sure(f) /\ f \notin left'
    BY <1>2
  <2>2. /\ \A j \in DOMAIN sources : sources[j].fs = f => i = j
        /\ \A j \in DOMAIN groups : groups[j].fs # f
        /\ \A j \in DOMAIN singles : singles[j].fs # f
        /\ sources[i].state \in StatesFor(f)
        /\ pc \notin {"mount", "done"} => VolumeOfFs(f).is = "luks"
        /\ pc = "probe" => Home(sources[i].device, f) /\ sources[i].device \notin devices
    BY <2>1 DEF DInv, SInv, SourcesStand
  <2>3. StatesFor(f) \subseteq StatesFor(f)'
    BY <1>0, <2>1, StatesStay
  <2> QED
    BY <1>3, <2>1, <2>2, <2>3
<1>6. NoneForgotten'
  <2> SUFFICES ASSUME NEW f \in known, Sure(f)'
               PROVE  /\ \E d \in Present' : Home(d, f)'
                      /\ Listed(f)' \/ (pc = "probe" /\ \E d \in devices : Home(d, f)')
    BY DEF NoneForgotten
  <2>1. /\ \E d \in Present : Home(d, f)
        /\ Listed(f) \/ (pc = "probe" /\ \E d \in devices : Home(d, f))
    BY <1>2 DEF DInv, SInv, NoneForgotten
  <2>2. Listed(f) => Listed(f)'
    BY DEF Listed
  <2> QED
    BY <1>2, <1>3, <2>1, <2>2
<1>7. WholeCovered'
  <2> SUFFICES ASSUME NEW f \in whole, Sure(f)'
               PROVE  /\ \A i \in DOMAIN groups : groups[i].fs = f => Covers(groups[i])'
                      /\ pc = "probe" /\ Shared(f) /\ (\A i \in DOMAIN groups : groups[i].fs # f) =>
                           \A v \in VolumesOf(f) : \E d \in devices : Home(d, f)' /\ HeldBy(d)' = v
    BY DEF WholeCovered
  <2>1. /\ \A i \in DOMAIN groups : groups[i].fs = f => Covers(groups[i])
        /\ pc = "probe" /\ Shared(f) /\ (\A i \in DOMAIN groups : groups[i].fs # f) =>
             \A v \in VolumesOf(f) : \E d \in devices : Home(d, f) /\ HeldBy(d) = v
    BY <1>2 DEF DInv, SInv, WholeCovered
  <2>2. ASSUME NEW i \in DOMAIN groups, groups[i].fs = f
        PROVE  Covers(groups[i])'
    <3>1. Covers(groups[i])
      BY <2>1, <2>2
    <3> QED
      BY <1>2, <1>3, <2>2, <3>1 DEF Covers
  <2> QED
    BY <1>2, <1>3, <2>1, <2>2
<1> QED
  BY <1>1, <1>4, <1>5, <1>6, <1>7 DEF DInv, SInv

\* Drives that come and go change nothing that the invariant says.
LEMMA PluggingKeeps ==
  ASSUME DInv, NEW slot \in Slots, Unplug(slot) \/ \E drive \in Drives \ {NoDrive} : Plug(slot, drive)
  PROVE  DInv'
<1>1. changes' \in 0..MaxChanges
  BY ConstantsAssumption DEF DInv, TInv, Unplug, Pull, Plug
<1>2. Moves
  BY DEF Moves, Unplug, Plug
<1>3. UNCHANGED <<mounts, scanned, pc, devices, groups, singles, missing, waited, sources, known, whole>>
  BY DEF Unplug, Plug
<1> QED
  BY <1>1, <1>2, <1>3, MovingKeeps

----------------------------------------------------------------------------
(* The steps of the program *)

\* At the start there is nothing in any list.
LEMMA DiscoveryInitial == Init => DInv
<1> SUFFICES ASSUME Init PROVE DInv
  OBVIOUS
<1>1. TInv
  <2>1. Typed(plugged) /\ Apart(plugged)
    BY ConstantsAssumption DEF Init, Typed, Apart
  <2>2. groups \in Seq(Group) /\ singles \in Seq(Single) /\ sources \in Seq(Reported)
    BY EmptySeq DEF Init
  <2> QED
    BY <2>1, <2>2, ConstantsAssumption DEF Init, TInv
<1>2. PhaseOK
  BY DEF Init, PhaseOK
<1>3. LInv
  BY DEF Init, LInv, OneGroupEach, NamesOnce, MountOnce, Unprobed, AllowedOnly, MissingOnly
<1>4. SInv
  BY DEF Init, SInv, ListsHome, SourcesStand, NoneForgotten, WholeCovered
<1> QED
  BY <1>1, <1>2, <1>3, <1>4 DEF DInv

\* While the drives stay so does all that is said of what is behind them.
LEMMA SameDisks ==
  ASSUME UNCHANGED <<plugged, left>>
  PROVE  /\ Present' = Present
         /\ \A f : Sure(f)' <=> Sure(f)
         /\ \A d, f : Home(d, f)' <=> Home(d, f)
         /\ \A d : HeldBy(d)' = HeldBy(d) /\ VolumeOf(d)' = VolumeOf(d)
         /\ SeenWhole' = SeenWhole
<1>1. Present' = Present
  BY DEF Present
<1>2. \A d : HeldBy(d)' = HeldBy(d)
  BY DEF HeldBy
<1>3. \A d : VolumeOf(d)' = VolumeOf(d)
  BY <1>2 DEF VolumeOf
<1>4. \A f : Sure(f)' <=> Sure(f)
  BY DEF Sure
<1>5. \A d, f : Home(d, f)' <=> Home(d, f)
  BY <1>1, <1>3 DEF Home
<1>6. SeenWhole' = SeenWhole
  BY <1>1, <1>2, <1>3 DEF SeenWhole, Seen
<1> QED
  BY <1>1, <1>2, <1>3, <1>4, <1>5, <1>6

\* And of the states that are right.
LEMMA SameStates ==
  ASSUME UNCHANGED <<plugged, left>>, NEW f, UNCHANGED whole \/ VolumeOfFs(f).is = "luks"
  PROVE  StatesFor(f)' = StatesFor(f)
<1>1. SeenWhole' = SeenWhole
  BY SameDisks
<1>2. CASE VolumeOfFs(f).is = "luks"
  BY <1>2 DEF StatesFor
<1>3. CASE UNCHANGED whole
  BY <1>1, <1>3 DEF StatesFor
<1> QED
  BY <1>2, <1>3

\* A device that is there has a name of one.
LEMMA PresentTyped ==
  ASSUME Typed(plugged)
  PROVE  Present \subseteq Dev
BY PresentHeld DEF Present

\* Nothing whole but what is there, and what is one volume is whole if it is there.
LEMMA SeenHome ==
  ASSUME Typed(plugged)
  PROVE  /\ SeenWhole \subseteq Seen
         /\ \A f \in Seen : \E d \in Present : Home(d, f)
         /\ \A f \in Seen : Legible(f) /\ ~Shared(f) => f \in SeenWhole
         /\ \A f \in SeenWhole : \A v \in VolumesOf(f) : \E d \in Present : Home(d, f) /\ HeldBy(d) = v
<1>1. SeenWhole \subseteq Seen
  BY DEF SeenWhole
<1>2. ASSUME NEW f \in Seen
      PROVE  \E d \in Present : Home(d, f)
  BY DEF Seen, Home
<1>3. ASSUME NEW f \in Seen, Legible(f), ~Shared(f)
      PROVE  f \in SeenWhole
  <2>1. PICK d \in Present : Home(d, f)
    BY <1>2
  <2>2. HeldBy(d) \in VolumesOf(f)
    BY <1>3, <2>1, HomeVolume
  <2>3. \A v \in VolumesOf(f) : v = HeldBy(d)
    BY <1>3, <2>2, AloneOnce
  <2>4. d \in Present \cap Allowed
    BY <2>1 DEF Home
  <2> QED
    BY <2>3, <2>4 DEF SeenWhole
<1>4. ASSUME NEW f \in SeenWhole, NEW v \in VolumesOf(f)
      PROVE  \E d \in Present : Home(d, f) /\ HeldBy(d) = v
  <2>1. PICK d \in Present \cap Allowed : HeldBy(d) = v
    BY <1>4 DEF SeenWhole
  <2> QED
    BY <2>1, VolumesHave DEF Home, VolumeOf
<1> QED
  BY <1>1, <1>2, <1>3, <1>4

\* The devices are listed: what is seen is still to be probed.
LEMMA EnumerateKeeps ==
  ASSUME DInv, Enumerate
  PROVE  DInv'
<1>0. /\ UNCHANGED <<plugged, left, mounts, scanned, groups, singles, sources, missing, waited, changes>>
      /\ pc = "enumerate" /\ pc' = "probe" /\ devices' = Present /\ known' = Seen /\ whole' = SeenWhole
      /\ groups = <<>> /\ singles = <<>> /\ sources = <<>>
  BY DEF Enumerate, disks, DInv, PhaseOK
<1>1. TInv'
  <2>1. Present \subseteq Dev
    BY PresentTyped DEF DInv, TInv
  <2> QED
    BY <1>0, <2>1 DEF DInv, TInv, Typed, Apart
<1>2. PhaseOK'
  BY <1>0 DEF DInv, PhaseOK
<1>3. LInv'
  BY <1>0 DEF DInv, LInv, OneGroupEach, NamesOnce, MountOnce, Unprobed, AllowedOnly, MissingOnly
<1>4. ListsHome' /\ SourcesStand'
  BY <1>0 DEF ListsHome, SourcesStand
<1>5. /\ \A f : Sure(f)' => Legible(f)
      /\ \A d, f : Home(d, f)' <=> Home(d, f)
      /\ \A d : HeldBy(d)' = HeldBy(d)
      /\ Present' = Present
  BY <1>0, SameDisks DEF Sure
<1>6. /\ SeenWhole \subseteq Seen
      /\ \A f \in Seen : \E d \in Present : Home(d, f)
      /\ \A f \in Seen : Legible(f) /\ ~Shared(f) => f \in SeenWhole
      /\ \A f \in SeenWhole : \A v \in VolumesOf(f) : \E d \in Present : Home(d, f) /\ HeldBy(d) = v
  BY SeenHome DEF DInv, TInv
<1>7. NoneForgotten'
  BY <1>0, <1>5, <1>6 DEF NoneForgotten
<1>8. WholeCovered'
  BY <1>0, <1>5, <1>6 DEF WholeCovered
<1> QED
  BY <1>1, <1>2, <1>3, <1>4, <1>7, <1>8 DEF DInv, SInv

\* The phases follow each other with the lists as they are.
LEMMA TurningKeeps ==
  ASSUME DInv, ProbeEnds \/ RoundEnds \/ Return
  PROVE  DInv'
<1>0. /\ UNCHANGED <<plugged, left, mounts, scanned, devices, groups, singles, sources, missing, known, whole, changes>>
      /\ devices = {} /\ pc' \in {"wait", "mount", "done"}
      /\ pc \in {"mount", "done"} => pc' \in {"mount", "done"}
      /\ pc' = "done" => groups = <<>> /\ singles = <<>>
  BY DEF ProbeEnds, RoundEnds, Return, disks, history, DInv, PhaseOK
<1>1. TInv'
  <2>1. waited' \in 0..Timeout /\ (pc' = "wait" => waited' < Timeout)
    <3>1. CASE ProbeEnds
      BY <3>1 DEF ProbeEnds, DInv, TInv
    <3>2. CASE RoundEnds
      BY <3>2, ConstantsAssumption DEF RoundEnds, WaitEnds, DInv, TInv
    <3>3. CASE Return
      BY <3>3 DEF Return, DInv, TInv
    <3> QED
      BY <3>1, <3>2, <3>3
  <2> QED
    BY <1>0, <2>1 DEF DInv, TInv, Typed, Apart
<1>2. PhaseOK'
  <2>1. mounts' = mounts /\ (pc' \notin {"mount", "done"} => mounts = {})
    BY <1>0 DEF DInv, PhaseOK
  <2> QED
    BY <1>0, <2>1 DEF PhaseOK
<1>3. LInv'
  <2>1. OneGroupEach' /\ NamesOnce' /\ MountOnce'
    BY <1>0 DEF DInv, LInv, OneGroupEach, NamesOnce, Once, MountOnce
  <2>2. Unprobed' /\ AllowedOnly' /\ MissingOnly'
    BY <1>0 DEF DInv, LInv, Unprobed, AllowedOnly, MissingOnly
  <2> QED
    BY <2>1, <2>2 DEF LInv
<1>4. /\ \A f : Sure(f)' <=> Sure(f)
      /\ \A d, f : Home(d, f)' <=> Home(d, f)
      /\ \A d : HeldBy(d)' = HeldBy(d)
      /\ Present' = Present
      /\ \A f : StatesFor(f)' = StatesFor(f)
  BY <1>0, SameDisks, SameStates
<1>5. ListsHome'
  BY <1>0, <1>4 DEF DInv, SInv, ListsHome, HomeGroup, HomeSingle
<1>6. SourcesStand'
  BY <1>0, <1>4 DEF DInv, SInv, SourcesStand
<1>7. NoneForgotten'
  BY <1>0, <1>4 DEF DInv, SInv, NoneForgotten, Listed
<1>8. WholeCovered'
  <2>1. pc' # "probe"
    BY <1>0
  <2>2. \A i \in DOMAIN groups : Covers(groups[i]) => Covers(groups[i])'
    BY <1>0, <1>4 DEF Covers
  <2>3. \A f \in whole : Sure(f) => \A i \in DOMAIN groups : groups[i].fs = f => Covers(groups[i])
    BY DEF DInv, SInv, WholeCovered
  <2> QED
    BY <1>0, <1>4, <2>1, <2>2, <2>3 DEF WholeCovered
<1> QED
  BY <1>1, <1>2, <1>3, <1>5, <1>6, <1>7, <1>8 DEF DInv, SInv

\* They are listed again: what is whole now is in its group or still to be looked at.
LEMMA WaitKeeps ==
  ASSUME DInv, Wait
  PROVE  DInv'
<1>0. /\ UNCHANGED <<plugged, left, mounts, scanned, groups, singles, sources, waited, known, changes>>
      /\ pc = "wait" /\ pc' = "reprobe" /\ devices' = Present /\ whole' = SeenWhole
      /\ missing' = {groups[i].fs : i \in {j \in DOMAIN groups : ~IsComplete(groups[j])}}
  BY DEF Wait, disks
<1>1. TInv'
  <2>1. Present \subseteq Dev
    BY PresentTyped DEF DInv, TInv
  <2> QED
    BY <1>0, <2>1 DEF DInv, TInv, Typed, Apart
<1>2. PhaseOK'
  BY <1>0 DEF DInv, PhaseOK
<1>3. LInv'
  <2>1. OneGroupEach' /\ NamesOnce' /\ MountOnce'
    BY <1>0 DEF DInv, LInv, OneGroupEach, NamesOnce, Once, MountOnce
  <2>2. Unprobed' /\ AllowedOnly'
    BY <1>0 DEF DInv, LInv, Unprobed, AllowedOnly
  <2>3. MissingOnly'
    BY <1>0 DEF MissingOnly
  <2> QED
    BY <2>1, <2>2, <2>3 DEF LInv
<1>4. /\ \A f : Sure(f)' <=> Sure(f)
      /\ \A d, f : Home(d, f)' <=> Home(d, f)
      /\ \A d : HeldBy(d)' = HeldBy(d)
      /\ Present' = Present
      /\ \A f : VolumeOfFs(f).is = "luks" => StatesFor(f)' = StatesFor(f)
  BY <1>0, SameDisks, SameStates
<1>5. ListsHome'
  BY <1>0, <1>4 DEF DInv, SInv, ListsHome, HomeGroup, HomeSingle
<1>6. SourcesStand'
  BY <1>0, <1>4 DEF DInv, SInv, SourcesStand
<1>7. NoneForgotten'
  BY <1>0, <1>4 DEF DInv, SInv, NoneForgotten, Listed
<1>8. WholeCovered'
  <2>1. \A f \in SeenWhole : \A v \in VolumesOf(f) : \E d \in Present : Home(d, f) /\ HeldBy(d) = v
    BY SeenHome DEF DInv, TInv
  <2> QED
    BY <1>0, <1>4, <2>1 DEF WholeCovered, Covers
<1> QED
  BY <1>1, <1>2, <1>3, <1>5, <1>6, <1>7, <1>8 DEF DInv, SInv

----------------------------------------------------------------------------
(* Groups *)

\* A group has as many names as its filesystem has volumes just when it has them all.
LEMMA CompleteIsAll ==
  ASSUME Typed(plugged), Apart(plugged), NEW group \in Group, Once(group), Legible(group.fs), HomeGroup(group)
  PROVE  IsComplete(group) <=>
           \A v \in VolumesOf(group.fs) : \E k \in DOMAIN group.devices : HeldBy(group.devices[k]) = v
<1> DEFINE V == VolumesOf(group.fs)
           n == Len(group.devices)
           map == [k \in 1..n |-> HeldBy(group.devices[k])]
<1>1. n \in Nat /\ DOMAIN group.devices = 1..n
  BY LenProperties DEF Group
<1>2. \A k \in 1..n : Home(group.devices[k], group.fs)
  BY <1>1 DEF HomeGroup
<1>3. \A k \in 1..n : HeldBy(group.devices[k]) \in V
  BY <1>2, HomeVolume
<1>4. \A k, l \in 1..n : HeldBy(group.devices[k]) = HeldBy(group.devices[l]) => k = l
  <2> TAKE k, l \in 1..n
  <2>1. group.devices[k] \in PresentIn(plugged) /\ group.devices[l] \in PresentIn(plugged)
    BY <1>2 DEF Home, Present
  <2>2. HeldBy(group.devices[k]) = HeldBy(group.devices[l]) => group.devices[k] = group.devices[l]
    BY <2>1, HeldOnce DEF HeldBy
  <2> QED
    BY <1>1, <2>2 DEF Once
<1>5. map \in Injection(1..n, V)
  BY <1>3, <1>4 DEF Injection, IsInjective
<1>6. IsFiniteSet(V) /\ Cardinality(V) \in Nat /\ group.expected = Cardinality(V)
  BY MembersFinite, FS_CardinalityType DEF HomeGroup, Shared, Legible
<1>7. Cardinality(1..n) = n
  BY <1>1, FS_Interval
<1> HIDE DEF n, V
<1>8. /\ n <= Cardinality(V)
      /\ n = Cardinality(V) <=> map \in Surjection(1..n, V)
  BY <1>5, <1>6, <1>7, FS_Injection
<1>9. map \in Surjection(1..n, V) <=> \A v \in V : \E k \in 1..n : HeldBy(group.devices[k]) = v
  BY <1>3 DEF Surjection
<1>10. IsComplete(group) <=> n = Cardinality(V)
  BY <1>1, <1>6, <1>8 DEF IsComplete, n
<1> QED
  BY <1>1, <1>8, <1>9, <1>10 DEF n, V

\* One name more.
LEMMA OneMore ==
  ASSUME NEW names \in Seq(Dev), NEW dev \in Dev
  PROVE  /\ Append(names, dev) \in Seq(Dev) /\ Append(names, dev) # <<>>
         /\ Len(names) \in Nat /\ Len(Append(names, dev)) = Len(names) + 1
         /\ DOMAIN names = 1..Len(names) /\ DOMAIN Append(names, dev) = 1..(Len(names) + 1)
         /\ \A k \in 1..Len(names) : Append(names, dev)[k] = names[k]
         /\ Append(names, dev)[Len(names) + 1] = dev
         /\ names # <<>> => Append(names, dev)[1] = names[1]
<1>1. /\ Append(names, dev) \in Seq(Dev) /\ Append(names, dev) # <<>>
      /\ Len(Append(names, dev)) = Len(names) + 1
      /\ \A k \in 1..Len(names) : Append(names, dev)[k] = names[k]
      /\ Append(names, dev)[Len(names) + 1] = dev
  BY AppendProperties
<1>2. Len(names) \in Nat /\ DOMAIN names = 1..Len(names) /\ DOMAIN Append(names, dev) = 1..(Len(names) + 1)
  BY <1>1, LenProperties
<1>3. names # <<>> => Len(names) >= 1
  BY EmptySeq, <1>2
<1> QED
  BY <1>1, <1>2, <1>3

\* Group h is g with one device more.
Grown(g, h, dev) == h.fs = g.fs /\ h.devices = Append(g.devices, dev)

\* It has what it had, and the device.
LEMMA GrownHas ==
  ASSUME NEW g \in Group, NEW h \in Group, NEW dev \in Dev, Grown(g, h, dev)
  PROVE  /\ \A k \in DOMAIN g.devices : \E l \in DOMAIN h.devices : h.devices[l] = g.devices[k]
         /\ \E l \in DOMAIN h.devices : h.devices[l] = dev
         /\ \A l \in DOMAIN h.devices : h.devices[l] = dev \/ \E k \in DOMAIN g.devices : h.devices[l] = g.devices[k]
         /\ h.devices # <<>> /\ (g.devices # <<>> => h.devices[1] = g.devices[1])
         /\ Len(h.devices) = Len(g.devices) + 1 /\ Len(g.devices) \in Nat
<1> DEFINE old == g.devices
           new == h.devices
<1>1. old \in Seq(Dev) /\ new = Append(old, dev)
  BY DEF Group, Grown
<1> HIDE DEF old, new
<1>2. /\ new # <<>> /\ Len(new) = Len(old) + 1 /\ Len(old) \in Nat
      /\ DOMAIN old = 1..Len(old) /\ DOMAIN new = 1..(Len(old) + 1)
      /\ \A k \in 1..Len(old) : new[k] = old[k]
      /\ new[Len(old) + 1] = dev
      /\ old # <<>> => new[1] = old[1]
  BY <1>1, OneMore
<1>3. \A k \in DOMAIN old : \E l \in DOMAIN new : new[l] = old[k]
  <2> TAKE k \in DOMAIN old
  <2>1. k \in DOMAIN new /\ new[k] = old[k]
    BY <1>2
  <2> QED
    BY <2>1
<1>4. \E l \in DOMAIN new : new[l] = dev
  <2>1. Len(old) + 1 \in DOMAIN new
    BY <1>2
  <2> QED
    BY <1>2, <2>1
<1>5. \A l \in DOMAIN new : new[l] = dev \/ \E k \in DOMAIN old : new[l] = old[k]
  <2> TAKE l \in DOMAIN new
  <2>1. l = Len(old) + 1 \/ l \in 1..Len(old)
    BY <1>2
  <2> QED
    BY <1>2, <2>1
<1> QED
  BY <1>2, <1>3, <1>4, <1>5 DEF old, new

\* Once, if it did not have it.
LEMMA GrownOnce ==
  ASSUME NEW g \in Group, NEW h \in Group, NEW dev \in Dev, Grown(g, h, dev), Once(g),
         \A k \in DOMAIN g.devices : g.devices[k] # dev
  PROVE  Once(h)
<1> DEFINE old == g.devices
           new == h.devices
<1>1. old \in Seq(Dev) /\ new = Append(old, dev)
  BY DEF Group, Grown
<1>2. /\ \A k, l \in DOMAIN old : old[k] = old[l] => k = l
      /\ \A k \in DOMAIN old : old[k] # dev
  BY DEF Once
<1> HIDE DEF old, new
<1>3. /\ Len(old) \in Nat /\ DOMAIN old = 1..Len(old) /\ DOMAIN new = 1..(Len(old) + 1)
      /\ \A k \in 1..Len(old) : new[k] = old[k]
      /\ new[Len(old) + 1] = dev
  BY <1>1, OneMore
<1>4. \A k, l \in DOMAIN new : new[k] = new[l] => k = l
  <2> TAKE k, l \in DOMAIN new
  <2>1. k = Len(old) + 1 \/ k \in 1..Len(old)
    BY <1>3
  <2>2. l = Len(old) + 1 \/ l \in 1..Len(old)
    BY <1>3
  <2> QED
    BY <1>2, <1>3, <2>1, <2>2
<1> QED
  BY <1>4 DEF Once, new

\* Group h is g if that has the device or is of another filesystem, and else has it too.
Has(g, dev) == \E k \in DOMAIN g.devices : g.devices[k] = dev
MergedOne(g, h, dev, volume) ==
    /\ h.fs = g.fs /\ h.expected = g.expected /\ g \in Group /\ h \in Group
    /\ \/ h = g /\ (g.fs = volume.fs => Has(g, dev))
       \/ g.fs = volume.fs /\ Grown(g, h, dev) /\ ~Has(g, dev)

\* That is what Merged makes of every group.
LEMMA MergedIs ==
  ASSUME NEW list \in Seq(Group), NEW dev \in Dev, NEW volume, NEW new, new = Merged(list, dev, volume)
  PROVE  /\ new \in Seq(Group) /\ DOMAIN new = DOMAIN list
         /\ \A i \in DOMAIN list : MergedOne(list[i], new[i], dev, volume)
<1> DEFINE there(i) == \E k \in DOMAIN list[i].devices : list[i].devices[k] = dev
<1>1. DOMAIN list = 1..Len(list) /\ Len(list) \in Nat /\ \A i \in DOMAIN list : list[i] \in Group
  BY LenProperties, ElementOfSeq
<1>2. DOMAIN new = DOMAIN list
  BY DEF Merged
<1>3. ASSUME NEW i \in DOMAIN list
      PROVE  /\ new[i].fs = list[i].fs /\ new[i].expected = list[i].expected /\ new[i] \in Group
             /\ \/ new[i] = list[i] /\ (list[i].fs = volume.fs => there(i))
                \/ list[i].fs = volume.fs /\ Grown(list[i], new[i], dev) /\ ~there(i)
  <2>1. CASE list[i].fs # volume.fs \/ there(i)
    BY <1>1, <1>3, <2>1 DEF Merged
  <2>2. CASE ~(list[i].fs # volume.fs \/ there(i))
    <3>1. new[i] = [list[i] EXCEPT !.devices = Append(@, dev)]
      BY <1>3, <2>2 DEF Merged
    <3>2. list[i] \in Group
      BY <1>1, <1>3
    <3> DEFINE g == list[i]
    <3> HIDE DEF g
    <3>3. g \in Group /\ new[i] = [g EXCEPT !.devices = Append(@, dev)]
      BY <3>1, <3>2 DEF g
    <3>4. Append(g.devices, dev) \in Seq(Dev)
      BY <3>3, OneMore DEF Group
    <3>5. new[i] \in Group /\ new[i].fs = g.fs /\ new[i].expected = g.expected /\ new[i].devices = Append(g.devices, dev)
      BY <3>3, <3>4 DEF Group
    <3> QED
      BY <2>2, <3>5 DEF Grown, g
  <2> QED
    BY <2>1, <2>2
<1>4. new \in [1..Len(list) -> Group]
  BY <1>1, <1>2, <1>3 DEF Merged
<1>5. new \in Seq(Group)
  BY <1>1, <1>4
<1> QED
  BY <1>1, <1>2, <1>3, <1>5 DEF MergedOne, Has

\* A device is looked at again: it is added to the group it is missing in, and to no
\* other one.
LEMMA ReprobeKeeps ==
  ASSUME DInv, Reprobe
  PROVE  DInv'
<1> DEFINE dev == First(devices)
           volume == VolumeOf(dev)
           relevant == dev \in Present \cap Allowed /\ Members(volume) > 0 /\ volume.fs \in missing
<1>0. /\ UNCHANGED <<plugged, left, mounts, scanned, pc, singles, sources, missing, waited, known, whole, changes>>
      /\ pc = "reprobe" /\ devices # {} /\ devices' = devices \ {dev}
      /\ groups' = IF relevant THEN Merged(groups, dev, volume) ELSE groups
  BY DEF Reprobe, disks, history
<1>1. devices \subseteq Dev /\ dev \in devices /\ dev \in Dev /\ groups \in Seq(Group)
  BY <1>0, FirstIn DEF DInv, TInv
<1>2. /\ \A f : Sure(f)' <=> Sure(f)
      /\ \A d, f : Home(d, f)' <=> Home(d, f)
      /\ \A d : HeldBy(d)' = HeldBy(d)
      /\ Present' = Present
      /\ \A f : StatesFor(f)' = StatesFor(f)
  BY <1>0, SameDisks, SameStates
<1> HIDE DEF dev, relevant, volume
\* Each group is as it was, or has the device as a member it did not have.
<1>3. /\ groups' \in Seq(Group) /\ DOMAIN groups' = DOMAIN groups
      /\ \A i \in DOMAIN groups :
           /\ groups'[i].fs = groups[i].fs /\ groups'[i].expected = groups[i].expected
           /\ groups[i] \in Group /\ groups'[i] \in Group
           /\ \/ /\ groups'[i] = groups[i]
                 /\ relevant /\ groups[i].fs = volume.fs => \E k \in DOMAIN groups[i].devices : groups[i].devices[k] = dev
              \/ /\ relevant /\ groups[i].fs = volume.fs /\ Grown(groups[i], groups'[i], dev)
                 /\ \A k \in DOMAIN groups[i].devices : groups[i].devices[k] # dev
  <2>1. CASE relevant
    <3>1. groups' = Merged(groups, dev, volume)
      BY <1>0, <2>1
    <3>2. groups \in Seq(Group) /\ dev \in Dev
      BY <1>1
    <3>3. groups' \in Seq(Group) /\ DOMAIN groups' = DOMAIN groups
      BY <3>1, <3>2, MergedIs
    <3>4. \A i \in DOMAIN groups : MergedOne(groups[i], groups'[i], dev, volume)
      BY <3>1, <3>2, MergedIs
    <3> QED
      BY <2>1, <3>3, <3>4 DEF MergedOne, Has
  <2>2. CASE ~relevant
    <3>1. groups' = groups
      BY <1>0, <2>2
    <3>2. \A i \in DOMAIN groups : groups[i] \in Group
      BY <1>1, LenProperties, ElementOfSeq
    <3> QED
      BY <1>1, <2>2, <3>1, <3>2
  <2> QED
    BY <2>1, <2>2
<1>4. \A i \in DOMAIN groups :
        /\ groups'[i].devices # <<>> /\ groups'[i].devices[1] = groups[i].devices[1]
        /\ \A k \in DOMAIN groups[i].devices : \E l \in DOMAIN groups'[i].devices : groups'[i].devices[l] = groups[i].devices[k]
        /\ \A l \in DOMAIN groups'[i].devices :
             \/ relevant /\ groups[i].fs = volume.fs /\ groups'[i].devices[l] = dev
             \/ \E k \in DOMAIN groups[i].devices : groups'[i].devices[l] = groups[i].devices[k]
        /\ IsComplete(groups[i]) => IsComplete(groups'[i])
  <2> TAKE i \in DOMAIN groups
  <2>1. groups[i].devices # <<>>
    BY DEF DInv, TInv
  <2>2. CASE groups'[i] = groups[i]
    BY <2>1, <2>2
  <2>3. CASE relevant /\ groups[i].fs = volume.fs /\ Grown(groups[i], groups'[i], dev)
    <3> DEFINE g == groups[i]
               h == groups'[i]
    <3>1. g \in Group /\ h \in Group /\ Grown(g, h, dev) /\ g.devices # <<>> /\ g.expected = h.expected
      BY <1>3, <2>1, <2>3
    <3> HIDE DEF g, h
    <3>2. g.expected \in Nat
      BY <3>1 DEF Group
    <3>3. /\ h.devices # <<>> /\ h.devices[1] = g.devices[1]
          /\ \A k \in DOMAIN g.devices : \E l \in DOMAIN h.devices : h.devices[l] = g.devices[k]
          /\ \A l \in DOMAIN h.devices : h.devices[l] = dev \/ \E k \in DOMAIN g.devices : h.devices[l] = g.devices[k]
          /\ Len(h.devices) = Len(g.devices) + 1 /\ Len(g.devices) \in Nat
      BY <1>1, <3>1, GrownHas
    <3>4. IsComplete(g) => IsComplete(h)
      BY <3>1, <3>2, <3>3 DEF IsComplete
    <3> QED
      BY <2>3, <3>3, <3>4 DEF g, h
  <2> QED
    BY <1>3, <2>2, <2>3
<1>5. TInv'
  <2>1. \A i \in DOMAIN groups' : groups'[i].devices # <<>>
    BY <1>3, <1>4
  <2>2. devices' \subseteq Dev
    BY <1>0, <1>1
  <2> QED
    BY <1>0, <1>3, <2>1, <2>2 DEF DInv, TInv, Typed, Apart
<1>6. PhaseOK'
  BY <1>0 DEF DInv, PhaseOK
<1>7. LInv'
  <2>1. OneGroupEach'
    BY <1>3 DEF DInv, LInv, OneGroupEach
  <2>2. NamesOnce'
    <3> SUFFICES ASSUME NEW i \in DOMAIN groups PROVE Once(groups'[i])
      BY <1>3 DEF NamesOnce
    <3>1. Once(groups[i])
      BY DEF DInv, LInv, NamesOnce
    <3>2. CASE groups'[i] = groups[i]
      BY <3>1, <3>2
    <3>3. CASE groups'[i] # groups[i]
      BY <1>1, <1>3, <3>1, <3>3, GrownOnce
    <3> QED
      BY <3>2, <3>3
  <2>3. MountOnce'
    BY <1>0, <1>3, <1>4 DEF DInv, LInv, MountOnce
  <2>4. Unprobed'
    BY <1>0 DEF Unprobed
  <2>5. AllowedOnly'
    BY <1>0, <1>3, <1>4 DEF DInv, LInv, AllowedOnly, relevant
  <2>6. MissingOnly'
    BY <1>0, <1>3, <1>4 DEF DInv, LInv, MissingOnly
  <2> QED
    BY <2>1, <2>2, <2>3, <2>4, <2>5, <2>6 DEF LInv
<1>8. ListsHome'
  <2>1. ASSUME NEW i \in DOMAIN groups, Sure(groups[i].fs)
        PROVE  HomeGroup(groups[i])'
    <3>1. HomeGroup(groups[i])
      BY <2>1 DEF DInv, SInv, ListsHome
    <3>2. \A l \in DOMAIN groups'[i].devices : Home(groups'[i].devices[l], groups[i].fs)
      BY <1>4, <3>1 DEF HomeGroup, relevant, volume, Home
    <3> QED
      BY <1>2, <1>3, <3>1, <3>2 DEF HomeGroup
  <2> QED
    BY <1>0, <1>2, <1>3, <2>1 DEF DInv, SInv, ListsHome, HomeSingle
<1>9. SourcesStand' /\ NoneForgotten'
  <2>1. SourcesStand'
    BY <1>0, <1>2, <1>3 DEF DInv, SInv, SourcesStand
  <2>2. NoneForgotten'
    BY <1>0, <1>2, <1>3 DEF DInv, SInv, NoneForgotten, Listed
  <2> QED
    BY <2>1, <2>2
<1>10. WholeCovered'
  <2> SUFFICES ASSUME NEW f \in whole, Sure(f), NEW i \in DOMAIN groups, groups[i].fs = f
               PROVE  Covers(groups[i])'
    BY <1>0, <1>2, <1>3 DEF WholeCovered
  <2>1. Covers(groups[i]) /\ HomeGroup(groups[i])
    BY DEF DInv, SInv, WholeCovered, ListsHome
  <2>2. Legible(f) /\ Typed(plugged) /\ Apart(plugged) /\ Once(groups[i]) /\ groups[i] \in Group
    BY <1>3 DEF Sure, DInv, TInv, LInv, NamesOnce
  <2> SUFFICES ASSUME NEW v \in VolumesOf(f)
               PROVE  \E d \in Present :
                        /\ Home(d, f) /\ HeldBy(d) = v
                        /\ d \in devices' \/ \E k \in DOMAIN groups'[i].devices : groups'[i].devices[k] = d
    BY <1>2, <1>3 DEF Covers
  <2>3. PICK d \in Present :
          /\ Home(d, f) /\ HeldBy(d) = v
          /\ d \in devices \/ \E k \in DOMAIN groups[i].devices : groups[i].devices[k] = d
    BY <2>1 DEF Covers
  <2>4. CASE \E k \in DOMAIN groups[i].devices : groups[i].devices[k] = d
    BY <1>4, <2>3, <2>4
  <2>5. CASE d \in devices /\ d # dev
    BY <1>0, <2>3, <2>5
  <2>6. CASE d = dev
    <3>1. dev \in Present \cap Allowed /\ volume.fs = f /\ Members(volume) > 0
      <4>1. volume = VolumeOfFs(f) /\ volume \in Volumes /\ dev \in Present \cap Allowed /\ volume.fs = f
        BY <2>2, <2>3, <2>6, HomeVolume DEF volume, Home
      <4>2. Members(volume) = volume.says /\ volume.says > 1
        BY <2>1, <2>2, <4>1, LegibleProbe DEF HomeGroup, Shared
      <4>3. volume.says \in Nat
        BY <4>1 DEF Volumes
      <4> QED
        BY <4>1, <4>2, <4>3
    <3>2. CASE relevant
      <4>1. \E k \in DOMAIN groups'[i].devices : groups'[i].devices[k] = dev
        <5>1. CASE \E k \in DOMAIN groups[i].devices : groups[i].devices[k] = dev
          BY <1>4, <5>1
        <5>2. CASE Grown(groups[i], groups'[i], dev)
          BY <1>1, <1>3, <5>2, GrownHas
        <5> QED
          BY <1>3, <3>1, <3>2, <5>1, <5>2
      <4> QED
        BY <2>3, <2>6, <4>1
    <3>3. CASE ~relevant
      <4>1. IsComplete(groups[i])
        BY <1>0, <3>1, <3>3 DEF relevant, DInv, LInv, MissingOnly
      <4>2. PICK k \in DOMAIN groups[i].devices : HeldBy(groups[i].devices[k]) = v
        BY <2>1, <2>2, <4>1, CompleteIsAll
      <4>3. Home(groups[i].devices[k], f) /\ groups[i].devices[k] \in Present
        BY <2>1 DEF HomeGroup, Home
      <4> QED
        BY <1>4, <4>2, <4>3
    <3> QED
      BY <3>2, <3>3
  <2> QED
    BY <2>3, <2>4, <2>5, <2>6
<1> QED
  BY <1>5, <1>6, <1>7, <1>8, <1>9, <1>10 DEF DInv, SInv

----------------------------------------------------------------------------
(* Probing a device *)

\* The device that comes first has been looked at.
Probing ==
    /\ pc = "probe" /\ devices # {} /\ devices' = devices \ {First(devices)}
    /\ Moves /\ changes' \in 0..MaxChanges
    /\ UNCHANGED <<mounts, scanned, pc, missing, waited, known, whole>>

\* Whatever comes of the device.
LEMMA ProbingMoves ==
  ASSUME DInv, Probing
  PROVE  /\ First(devices) \in devices /\ First(devices) \in Dev
         /\ Typed(plugged)' /\ Apart(plugged)' /\ devices' \subseteq Dev
         /\ \A f : Sure(f)' => Sure(f) /\ f \notin left'
         /\ \A d, f : f \notin left' /\ Home(d, f) => Home(d, f)' /\ HeldBy(d)' = HeldBy(d) /\ d \in Present'
         /\ \A f : f \notin left' => StatesFor(f) \subseteq StatesFor(f)'
         /\ PhaseOK' /\ MissingOnly'
<1>1. devices \subseteq Dev /\ First(devices) \in devices
  BY FirstIn DEF Probing, DInv, TInv
<1>2. Moves /\ Typed(plugged) /\ Apart(plugged) /\ UNCHANGED whole
  BY DEF Probing, DInv, TInv
<1>3. Typed(plugged)' /\ Apart(plugged)' /\ left \subseteq left'
  BY <1>2, MovesTyped
<1>4. \A f : Sure(f)' => Sure(f) /\ f \notin left'
  BY <1>3 DEF Sure
<1>5. \A d, f : f \notin left' /\ Home(d, f) => Home(d, f)' /\ HeldBy(d)' = HeldBy(d) /\ d \in Present'
  BY <1>2, HomeStays
<1>6. \A f : f \notin left' => StatesFor(f) \subseteq StatesFor(f)'
  BY <1>2, StatesStay
<1>7. PhaseOK'
  BY DEF Probing, DInv, PhaseOK
<1>8. MissingOnly'
  BY DEF Probing, MissingOnly
<1>9. devices' \subseteq Dev
  BY <1>1 DEF Probing
<1> QED
  BY <1>1, <1>3, <1>4, <1>5, <1>6, <1>7, <1>8, <1>9

\* What a device is that the probe has at hand.
LEMMA AtHand ==
  ASSUME DInv, NEW f, Sure(f), NEW d, Home(d, f)
  PROVE  /\ VolumeOf(d) = VolumeOfFs(f) /\ VolumeOf(d).fs = f /\ d \in Present \cap Allowed
         /\ ProbeFsType(VolumeOf(d)) = VolumeOfFs(f).is /\ VolumeOfFs(f).is \in Known
         /\ Shared(f) => Members(VolumeOf(d)) = VolumeOfFs(f).says /\ Members(VolumeOf(d)) > 0
                         /\ VolumeOfFs(f).is = "btrfs"
         /\ ~Shared(f) => Members(VolumeOf(d)) = 0
<1>1. Legible(f) /\ Typed(plugged)
  BY DEF Sure, DInv, TInv
<1>2. VolumeOf(d) = VolumeOfFs(f) /\ VolumeOfFs(f) \in Volumes
  BY <1>1, HomeVolume
<1>3. /\ ProbeFsType(VolumeOfFs(f)) = VolumeOfFs(f).is /\ VolumeOfFs(f).is \in Known
      /\ Members(VolumeOfFs(f)) = IF Shared(f) THEN VolumeOfFs(f).says ELSE 0
  BY <1>1, LegibleProbe
<1>4. VolumeOfFs(f).says \in Nat
  BY <1>2 DEF Volumes
<1> QED
  BY <1>2, <1>3, <1>4 DEF Shared, Home

\* If the device joined no group.
LEMMA AloneProbed ==
  ASSUME DInv, Probing, UNCHANGED groups, \A f : Listed(f) => Listed(f)',
         \A f : Sure(f)' /\ Home(First(devices), f) => ~Shared(f) /\ Listed(f)'
  PROVE  /\ \A i \in DOMAIN groups : Sure(groups[i].fs)' => HomeGroup(groups[i])'
         /\ NoneForgotten' /\ WholeCovered' /\ OneGroupEach' /\ NamesOnce' /\ AllowedOnly'
<1> DEFINE dev == First(devices)
<1>1. /\ \A f : Sure(f)' => Sure(f) /\ f \notin left'
      /\ \A d, f : f \notin left' /\ Home(d, f) => Home(d, f)' /\ HeldBy(d)' = HeldBy(d) /\ d \in Present'
  BY ProbingMoves
<1>2. /\ pc = "probe" /\ pc' = "probe" /\ devices' = devices \ {dev} /\ UNCHANGED <<known, whole, scanned>>
  BY DEF Probing
<1> HIDE DEF dev
<1>3. \A f : Sure(f)' /\ Home(dev, f) => ~Shared(f) /\ Listed(f)'
  BY DEF dev
<1>4. ASSUME NEW i \in DOMAIN groups, Sure(groups[i].fs)'
      PROVE  HomeGroup(groups[i]) /\ HomeGroup(groups[i])'
  <2>1. HomeGroup(groups[i])
    BY <1>1, <1>4 DEF DInv, SInv, ListsHome
  <2> QED
    BY <1>1, <1>4, <2>1 DEF HomeGroup
<1>5. NoneForgotten'
  <2> SUFFICES ASSUME NEW f \in known, Sure(f)'
               PROVE  /\ \E d \in Present' : Home(d, f)'
                      /\ Listed(f)' \/ (pc' = "probe" /\ \E d \in devices' : Home(d, f)')
    BY <1>2 DEF NoneForgotten
  <2>1. /\ \E d \in Present : Home(d, f)
        /\ Listed(f) \/ (pc = "probe" /\ \E d \in devices : Home(d, f))
    BY <1>1 DEF DInv, SInv, NoneForgotten
  <2>2. \E d \in Present' : Home(d, f)'
    BY <1>1, <2>1
  <2>3. CASE Listed(f)
    BY <2>2, <2>3
  <2>4. CASE \E d \in devices : Home(d, f)
    BY <1>1, <1>2, <1>3, <2>2, <2>4
  <2> QED
    BY <2>1, <2>3, <2>4
<1>6. WholeCovered'
  <2> SUFFICES ASSUME NEW f \in whole, Sure(f)'
               PROVE  /\ \A i \in DOMAIN groups : groups[i].fs = f => Covers(groups[i])'
                      /\ Shared(f) /\ (\A i \in DOMAIN groups : groups[i].fs # f) =>
                           \A v \in VolumesOf(f) : \E d \in devices' : Home(d, f)' /\ HeldBy(d)' = v
    BY <1>2 DEF WholeCovered
  <2>1. /\ \A i \in DOMAIN groups : groups[i].fs = f => Covers(groups[i])
        /\ Shared(f) /\ (\A i \in DOMAIN groups : groups[i].fs # f) =>
             \A v \in VolumesOf(f) : \E d \in devices : Home(d, f) /\ HeldBy(d) = v
    BY <1>1, <1>2 DEF DInv, SInv, WholeCovered
  <2>2. ASSUME NEW i \in DOMAIN groups, groups[i].fs = f
        PROVE  Covers(groups[i])'
    <3>1. Covers(groups[i]) /\ Shared(f)
      BY <1>4, <2>1, <2>2 DEF HomeGroup
    <3>2. ~Home(dev, f)
      BY <1>3, <3>1
    <3> QED
      BY <1>1, <1>2, <2>2, <3>1, <3>2 DEF Covers
  <2>3. ASSUME Shared(f), \A i \in DOMAIN groups : groups[i].fs # f, NEW v \in VolumesOf(f)
        PROVE  \E d \in devices' : Home(d, f)' /\ HeldBy(d)' = v
    <3>1. PICK d \in devices : Home(d, f) /\ HeldBy(d) = v
      BY <2>1, <2>3
    <3>2. d # dev
      BY <1>3, <2>3, <3>1
    <3> QED
      BY <1>1, <1>2, <3>1, <3>2
  <2> QED
    BY <2>2, <2>3
<1>7. OneGroupEach' /\ NamesOnce' /\ AllowedOnly'
  BY <1>2 DEF DInv, LInv, OneGroupEach, NamesOnce, Once, AllowedOnly
<1> QED
  BY <1>4, <1>5, <1>6, <1>7

\* A device is passed over only if nothing can be told of it.
LEMMA PassedKeeps ==
  ASSUME DInv, Probing, UNCHANGED <<groups, singles, sources>>,
         First(devices) \in Present \cap Allowed => ProbeFsType(VolumeOf(First(devices))) = "none"
  PROVE  DInv'
<1> DEFINE dev == First(devices)
<1>0. /\ dev \in devices /\ Typed(plugged)' /\ Apart(plugged)' /\ devices' \subseteq Dev
      /\ \A f : Sure(f)' => Sure(f) /\ f \notin left'
      /\ \A d, f : f \notin left' /\ Home(d, f) => Home(d, f)' /\ HeldBy(d)' = HeldBy(d) /\ d \in Present'
      /\ \A f : f \notin left' => StatesFor(f) \subseteq StatesFor(f)'
      /\ PhaseOK' /\ MissingOnly'
  BY ProbingMoves
<1>1. /\ pc = "probe" /\ pc' = "probe" /\ devices' = devices \ {dev} /\ changes' \in 0..MaxChanges
      /\ UNCHANGED <<mounts, scanned, missing, waited, known, whole>>
  BY DEF Probing
<1>2. \A f : Sure(f)' => ~Home(dev, f)
  BY <1>0, AtHand DEF Known, dev
<1> HIDE DEF dev
<1>3. \A f : Listed(f) => Listed(f)'
  BY DEF Listed
<1>4. /\ \A i \in DOMAIN groups : Sure(groups[i].fs)' => HomeGroup(groups[i])'
      /\ NoneForgotten' /\ WholeCovered' /\ OneGroupEach' /\ NamesOnce' /\ AllowedOnly'
  BY <1>2, <1>3, AloneProbed DEF dev
<1>5. TInv'
  BY <1>0, <1>1 DEF DInv, TInv
<1>6. MountOnce' /\ Unprobed'
  BY <1>1 DEF DInv, LInv, MountOnce, Unprobed
<1>7. ASSUME NEW i \in DOMAIN singles, Sure(singles[i].fs)'
      PROVE  HomeSingle(singles[i])'
  <2>1. HomeSingle(singles[i])
    BY <1>0, <1>7 DEF DInv, SInv, ListsHome
  <2> QED
    BY <1>0, <1>7, <2>1 DEF HomeSingle
<1>8. SourcesStand'
  <2> SUFFICES ASSUME NEW i \in DOMAIN sources, Sure(sources[i].fs)'
               PROVE  LET f == sources[i].fs IN
                        /\ \A j \in DOMAIN sources : sources[j].fs = f => i = j
                        /\ \A j \in DOMAIN groups : groups[j].fs # f
                        /\ \A j \in DOMAIN singles : singles[j].fs # f
                        /\ sources[i].state \in StatesFor(f)'
                        /\ VolumeOfFs(f).is = "luks"
                        /\ Home(sources[i].device, f)' /\ sources[i].device \notin devices'
    BY <1>1 DEF SourcesStand
  <2> DEFINE f == sources[i].fs
  <2>1. /\ \A j \in DOMAIN sources : sources[j].fs = f => i = j
        /\ \A j \in DOMAIN groups : groups[j].fs # f
        /\ \A j \in DOMAIN singles : singles[j].fs # f
        /\ sources[i].state \in StatesFor(f)
        /\ VolumeOfFs(f).is = "luks"
        /\ Home(sources[i].device, f) /\ sources[i].device \notin devices
    BY <1>0, <1>1 DEF DInv, SInv, SourcesStand
  <2> QED
    BY <1>0, <1>1, <2>1
<1> QED
  BY <1>0, <1>4, <1>5, <1>6, <1>7, <1>8 DEF DInv, LInv, SInv, ListsHome

\* A list with one more at the end.
Longer(list, new, n, e) ==
    /\ DOMAIN list = 1..n /\ DOMAIN new = 1..(n + 1)
    /\ \A i \in 1..n : i \in DOMAIN new /\ new[i] = list[i]
    /\ n + 1 \in DOMAIN new /\ n + 1 \notin DOMAIN list /\ new[n + 1] = e

LEMMA AppendIsLonger ==
  ASSUME NEW S, NEW list \in Seq(S), NEW e \in S, NEW new, new = Append(list, e)
  PROVE  new \in Seq(S) /\ \E n \in Nat : Longer(list, new, n, e)
<1>1. /\ new \in Seq(S) /\ Len(new) = Len(list) + 1
      /\ \A i \in 1..Len(list) : new[i] = list[i]
      /\ new[Len(list) + 1] = e
  BY AppendProperties
<1>2. Len(list) \in Nat /\ DOMAIN list = 1..Len(list) /\ DOMAIN new = 1..(Len(list) + 1)
  BY <1>1, LenProperties
<1>3. Longer(list, new, Len(list), e)
  BY <1>1, <1>2 DEF Longer
<1> QED
  BY <1>1, <1>2, <1>3

\* A group has a first device.
LEMMA GroupHasFirst ==
  ASSUME DInv, NEW i \in DOMAIN groups
  PROVE  1 \in DOMAIN groups[i].devices /\ groups[i] \in Group
<1>1. groups \in Seq(Group) /\ groups[i].devices # <<>>
  BY DEF DInv, TInv
<1>2. groups[i] \in Group
  BY <1>1, ElementOfSeq, LenProperties
<1> DEFINE names == groups[i].devices
<1>3. names \in Seq(Dev) /\ names # <<>>
  BY <1>1, <1>2 DEF Group
<1> HIDE DEF names
<1>4. Len(names) \in Nat /\ Len(names) # 0 /\ DOMAIN names = 1..Len(names)
  BY <1>3, EmptySeq, LenProperties
<1> QED
  BY <1>2, <1>4 DEF names

\* A device that is to be mounted by itself.
LEMMA SingleKeeps ==
  ASSUME DInv, Probing, UNCHANGED <<groups, sources>>,
         NEW single \in Single, singles' = Append(singles, single), single.path = First(devices),
         \A f : Sure(f)' /\ Home(First(devices), f) => ~Shared(f) /\ f = single.fs,
         Sure(single.fs)' => HomeSingle(single)
  PROVE  DInv'
<1> DEFINE dev == First(devices)
<1>0. /\ dev \in devices /\ Typed(plugged)' /\ Apart(plugged)' /\ devices' \subseteq Dev
      /\ \A f : Sure(f)' => Sure(f) /\ f \notin left'
      /\ \A d, f : f \notin left' /\ Home(d, f) => Home(d, f)' /\ HeldBy(d)' = HeldBy(d) /\ d \in Present'
      /\ \A f : f \notin left' => StatesFor(f) \subseteq StatesFor(f)'
      /\ PhaseOK' /\ MissingOnly'
  BY ProbingMoves
<1>1. /\ pc = "probe" /\ pc' = "probe" /\ devices' = devices \ {dev} /\ changes' \in 0..MaxChanges
      /\ UNCHANGED <<mounts, scanned, missing, waited, known, whole>>
  BY DEF Probing
<1>2. \A f : Sure(f)' /\ Home(dev, f) => ~Shared(f) /\ f = single.fs
  OBVIOUS
<1>3. single.path = dev
  OBVIOUS
<1> HIDE DEF dev
<1>4. singles' \in Seq(Single) /\ \E n \in Nat : Longer(singles, singles', n, single)
  <2>1. singles \in Seq(Single) /\ single \in Single /\ singles' = Append(singles, single)
    BY DEF DInv, TInv
  <2> QED
    BY <2>1, AppendIsLonger
<1>5. PICK n \in Nat : Longer(singles, singles', n, single)
  BY <1>4
<1>6. /\ DOMAIN singles = 1..n /\ DOMAIN singles' = 1..(n + 1) /\ singles' \in Seq(Single)
      /\ \A i \in 1..n : i \in DOMAIN singles' /\ singles'[i] = singles[i]
      /\ n + 1 \in DOMAIN singles' /\ n + 1 \notin DOMAIN singles /\ singles'[n + 1] = single
  BY <1>4, <1>5 DEF Longer
<1>7. \A i \in DOMAIN singles' : i = n + 1 \/ (i \in DOMAIN singles /\ singles'[i] = singles[i])
  BY <1>6
<1>8. \A f : (Listed(f) => Listed(f)') /\ (f = single.fs => Listed(f)')
  BY <1>6 DEF Listed
<1>9. /\ \A i \in DOMAIN groups : Sure(groups[i].fs)' => HomeGroup(groups[i])'
      /\ NoneForgotten' /\ WholeCovered' /\ OneGroupEach' /\ NamesOnce' /\ AllowedOnly'
  BY <1>2, <1>8, AloneProbed DEF dev
<1>10. TInv'
  BY <1>0, <1>1, <1>6 DEF DInv, TInv
<1>11. MountOnce'
  <2>1. \A i \in DOMAIN groups : 1 \in DOMAIN groups[i].devices
    BY GroupHasFirst
  <2>2. /\ \A i \in DOMAIN groups : groups[i].devices[1] # dev
        /\ \A i \in DOMAIN singles : singles[i].path # dev
        /\ mounts = {}
    BY <1>0, <1>1, <2>1 DEF DInv, LInv, Unprobed, PhaseOK
  <2> QED
    BY <1>1, <1>6, <1>7, <1>3, <2>2 DEF DInv, LInv, MountOnce
<1>12. Unprobed'
  BY <1>1, <1>6, <1>7, <1>3 DEF DInv, LInv, Unprobed
<1>13. ASSUME NEW i \in DOMAIN singles', Sure(singles[i].fs)'
       PROVE  HomeSingle(singles[i])'
  <2>1. PICK s \in Single : s = singles'[i]
    BY <1>6, <1>7, <1>13, ElementOfSeq DEF DInv, TInv
  <2>2. HomeSingle(s)
    <3>1. CASE i = n + 1
      BY <1>6, <1>13, <2>1, <3>1
    <3>2. CASE i \in DOMAIN singles /\ singles'[i] = singles[i]
      BY <1>0, <1>13, <2>1, <3>2 DEF DInv, SInv, ListsHome
    <3> QED
      BY <1>7, <1>13, <3>1, <3>2
  <2>3. Home(s.path, s.fs)'
    BY <1>0, <1>13, <2>1, <2>2 DEF HomeSingle
  <2> QED
    BY <2>1, <2>2, <2>3 DEF HomeSingle
<1>14. SourcesStand'
  <2> SUFFICES ASSUME NEW i \in DOMAIN sources, Sure(sources[i].fs)'
               PROVE  LET f == sources[i].fs IN
                        /\ \A j \in DOMAIN sources : sources[j].fs = f => i = j
                        /\ \A j \in DOMAIN groups : groups[j].fs # f
                        /\ \A j \in DOMAIN singles' : singles'[j].fs # f
                        /\ sources[i].state \in StatesFor(f)'
                        /\ VolumeOfFs(f).is = "luks"
                        /\ Home(sources[i].device, f)' /\ sources[i].device \notin devices'
    BY <1>1 DEF SourcesStand
  <2> DEFINE f == sources[i].fs
  <2>1. /\ \A j \in DOMAIN sources : sources[j].fs = f => i = j
        /\ \A j \in DOMAIN groups : groups[j].fs # f
        /\ \A j \in DOMAIN singles : singles[j].fs # f
        /\ sources[i].state \in StatesFor(f)
        /\ VolumeOfFs(f).is = "luks"
        /\ Home(sources[i].device, f) /\ sources[i].device \notin devices
    BY <1>0, <1>1 DEF DInv, SInv, SourcesStand
  <2>2. single.fs # f
    BY <2>1 DEF HomeSingle
  <2> QED
    BY <1>0, <1>1, <1>6, <1>7, <2>1, <2>2
<1> QED
  BY <1>0, <1>9, <1>10, <1>11, <1>12, <1>13, <1>14 DEF DInv, LInv, SInv, ListsHome

\* A LUKS container is a source at once.
LEMMA ContainerKeeps ==
  ASSUME DInv, Probing, UNCHANGED <<groups, singles>>,
         NEW source \in Reported, sources' = Append(sources, source),
         source.device = First(devices), source.state = "Encrypted",
         \A f : Sure(f)' /\ Home(First(devices), f) => f = source.fs,
         Sure(source.fs)' => Home(First(devices), source.fs) /\ VolumeOfFs(source.fs).is = "luks"
  PROVE  DInv'
<1> DEFINE dev == First(devices)
<1>0. /\ dev \in devices /\ Typed(plugged)' /\ Apart(plugged)' /\ devices' \subseteq Dev
      /\ \A f : Sure(f)' => Sure(f) /\ f \notin left'
      /\ \A d, f : f \notin left' /\ Home(d, f) => Home(d, f)' /\ HeldBy(d)' = HeldBy(d) /\ d \in Present'
      /\ \A f : f \notin left' => StatesFor(f) \subseteq StatesFor(f)'
      /\ PhaseOK' /\ MissingOnly'
  BY ProbingMoves
<1>1. /\ pc = "probe" /\ pc' = "probe" /\ devices' = devices \ {dev} /\ changes' \in 0..MaxChanges
      /\ UNCHANGED <<mounts, scanned, missing, waited, known, whole>>
  BY DEF Probing
<1>2. /\ \A f : Sure(f)' /\ Home(dev, f) => f = source.fs
      /\ Sure(source.fs)' => Home(dev, source.fs) /\ VolumeOfFs(source.fs).is = "luks"
      /\ source.device = dev
  OBVIOUS
<1> HIDE DEF dev
<1>3. sources' \in Seq(Reported) /\ \E n \in Nat : Longer(sources, sources', n, source)
  <2>1. sources \in Seq(Reported) /\ source \in Reported /\ sources' = Append(sources, source)
    BY DEF DInv, TInv
  <2> QED
    BY <2>1, AppendIsLonger
<1>4. PICK n \in Nat : Longer(sources, sources', n, source)
  BY <1>3
<1>5. /\ DOMAIN sources = 1..n /\ DOMAIN sources' = 1..(n + 1)
      /\ \A i \in 1..n : i \in DOMAIN sources' /\ sources'[i] = sources[i]
      /\ n + 1 \in DOMAIN sources' /\ n + 1 \notin DOMAIN sources /\ sources'[n + 1] = source
  BY <1>4 DEF Longer
<1>6. \A i \in DOMAIN sources' : i = n + 1 \/ (i \in DOMAIN sources /\ sources'[i] = sources[i])
  BY <1>5
<1>7. \A f : (Listed(f) => Listed(f)') /\ (f = source.fs => Listed(f)')
  BY <1>5 DEF Listed
<1>8. /\ \A i \in DOMAIN groups : Sure(groups[i].fs)' => HomeGroup(groups[i])'
      /\ NoneForgotten' /\ WholeCovered' /\ OneGroupEach' /\ NamesOnce' /\ AllowedOnly'
  <2>1. \A f : Sure(f)' /\ Home(dev, f) => ~Shared(f) /\ Listed(f)'
    BY <1>2, <1>7 DEF Shared
  <2> QED
    BY <1>7, <2>1, AloneProbed DEF dev
<1>9. TInv'
  BY <1>0, <1>1, <1>3 DEF DInv, TInv
<1>10. MountOnce' /\ Unprobed'
  BY <1>1 DEF DInv, LInv, MountOnce, Unprobed
<1>11. ASSUME NEW i \in DOMAIN singles, Sure(singles[i].fs)'
       PROVE  HomeSingle(singles[i])'
  <2>1. HomeSingle(singles[i])
    BY <1>0, <1>11 DEF DInv, SInv, ListsHome
  <2> QED
    BY <1>0, <1>11, <2>1 DEF HomeSingle
<1>12. SourcesStand'
  <2>1. ASSUME NEW f, Sure(f)'
        PROVE  \A i \in DOMAIN sources : sources[i].fs = f =>
                        /\ \A j \in DOMAIN sources : sources[j].fs = f => i = j
                        /\ \A j \in DOMAIN groups : groups[j].fs # f
                        /\ \A j \in DOMAIN singles : singles[j].fs # f
                        /\ sources[i].state \in StatesFor(f)
                        /\ VolumeOfFs(f).is = "luks"
                        /\ Home(sources[i].device, f) /\ sources[i].device \notin devices
    BY <1>0, <1>1, <2>1 DEF DInv, SInv, SourcesStand
  <2>2. ASSUME Sure(source.fs)'
        PROVE  /\ \A j \in DOMAIN sources : sources[j].fs # source.fs
               /\ \A j \in DOMAIN groups : groups[j].fs # source.fs
               /\ \A j \in DOMAIN singles : singles[j].fs # source.fs
               /\ source.state \in StatesFor(source.fs)
               /\ VolumeOfFs(source.fs).is = "luks"
               /\ Home(source.device, source.fs)
    <3>1. Home(dev, source.fs) /\ VolumeOfFs(source.fs).is = "luks" /\ ~Shared(source.fs)
      BY <1>2, <2>2 DEF Shared
    <3>2. Sure(source.fs) /\ Legible(source.fs) /\ Typed(plugged) /\ Apart(plugged)
      BY <1>0, <2>2 DEF Sure, DInv, TInv
    <3>3. \A j \in DOMAIN sources : sources[j].fs # source.fs
      BY <1>0, <2>1, <2>2, <3>1, <3>2, AloneHome
    <3>4. \A j \in DOMAIN groups : groups[j].fs # source.fs
      BY <3>1, <3>2 DEF DInv, SInv, ListsHome, HomeGroup
    <3>5. \A j \in DOMAIN singles : singles[j].fs # source.fs
      BY <3>1, <3>2 DEF DInv, SInv, ListsHome, HomeSingle
    <3>6. source.state \in StatesFor(source.fs)
      BY <3>1 DEF StatesFor
    <3> QED
      BY <1>2, <3>1, <3>3, <3>4, <3>5, <3>6
  <2> SUFFICES ASSUME NEW i \in DOMAIN sources', Sure(sources[i].fs)', NEW f, f = sources'[i].fs
               PROVE  /\ \A j \in DOMAIN sources' : sources'[j].fs = f => i = j
                      /\ \A j \in DOMAIN groups : groups[j].fs # f
                      /\ \A j \in DOMAIN singles : singles[j].fs # f
                      /\ sources'[i].state \in StatesFor(f)'
                      /\ VolumeOfFs(f).is = "luks"
                      /\ Home(sources[i].device, f)' /\ sources'[i].device \notin devices'
    BY <1>1 DEF SourcesStand
  <2>3. Sure(f)' /\ f \notin left'
    BY <1>0
  <2>4. PICK d : d = sources'[i].device
    OBVIOUS
  <2>5. CASE i = n + 1
    <3>1. f = source.fs /\ d = source.device /\ sources'[i].state = source.state
      BY <1>5, <2>4, <2>5
    <3>2. \A j \in DOMAIN sources' : sources'[j].fs = f => i = j
      BY <1>6, <2>2, <2>3, <2>5, <3>1
    <3>3. Home(d, f)' /\ d \notin devices'
      BY <1>0, <1>1, <1>2, <2>2, <2>3, <3>1
    <3> QED
      BY <1>0, <2>2, <2>3, <2>4, <3>1, <3>2, <3>3
  <2>6. CASE i \in DOMAIN sources /\ sources'[i] = sources[i]
    <3>1. \A j \in DOMAIN sources' : sources'[j].fs = f => i = j
      BY <1>5, <1>6, <2>1, <2>2, <2>3, <2>6
    <3>2. Home(d, f)' /\ d \notin devices'
      BY <1>0, <1>1, <2>1, <2>3, <2>4, <2>6
    <3> QED
      BY <1>0, <2>1, <2>3, <2>4, <2>6, <3>1, <3>2
  <2> QED
    BY <1>6, <2>5, <2>6
<1> QED
  BY <1>0, <1>8, <1>9, <1>10, <1>11, <1>12 DEF DInv, LInv, SInv, ListsHome

FirstOf(dev, volume) == [fs |-> volume.fs, devices |-> <<dev>>, expected |-> Members(volume)]

\* Group h is g, or with dev if that is a member of its filesystem.
JoinedOne(g, h, dev, volume) ==
    \/ h = g /\ g.fs # volume.fs
    \/ /\ g.fs = volume.fs /\ Grown(g, h, dev)
       /\ h.expected = IF g.expected < Members(volume) THEN Members(volume) ELSE g.expected

\* A member is in the group of its filesystem, alone or after those that were there.
LEMMA JoinedIs ==
  ASSUME NEW list \in Seq(Group), NEW dev \in Dev, NEW volume \in Volumes, NEW new, new = Joined(list, dev, volume)
  PROVE  /\ new \in Seq(Group)
         /\ \/ /\ \A i \in DOMAIN list : list[i].fs # volume.fs
               /\ \E n \in Nat : Longer(list, new, n, FirstOf(dev, volume))
            \/ /\ DOMAIN new = DOMAIN list /\ \E i \in DOMAIN list : list[i].fs = volume.fs
               /\ \A i \in DOMAIN list : JoinedOne(list[i], new[i], dev, volume)
<1>1. DOMAIN list = 1..Len(list) /\ Len(list) \in Nat /\ \A i \in DOMAIN list : list[i] \in Group
  BY LenProperties, ElementOfSeq
<1>2. Members(volume) \in Nat /\ volume.fs \in STRING
  BY ProbeType DEF Volumes
<1>3. CASE GroupsOf(list, volume.fs) = {}
  <2> DEFINE first == FirstOf(dev, volume)
  <2>1. first \in Group
    BY <1>2 DEF Group, FirstOf
  <2>2. new = Append(list, first)
    BY <1>3 DEF Joined, FirstOf
  <2>3. \A i \in DOMAIN list : list[i].fs # volume.fs
    BY <1>3 DEF GroupsOf
  <2> HIDE DEF first
  <2>4. new \in Seq(Group) /\ \E n \in Nat : Longer(list, new, n, first)
    BY <2>1, <2>2, AppendIsLonger
  <2> QED
    BY <2>3, <2>4 DEF first
<1>4. CASE GroupsOf(list, volume.fs) # {}
  <2> DEFINE most(g) == IF g.expected < Members(volume) THEN Members(volume) ELSE g.expected
  <2>1. new = [i \in DOMAIN list |->
                 IF list[i].fs # volume.fs THEN list[i]
                 ELSE [list[i] EXCEPT !.devices = Append(@, dev),
                                      !.expected = IF @ < Members(volume) THEN Members(volume) ELSE @]]
    BY <1>4 DEF Joined
  <2>2. ASSUME NEW i \in DOMAIN list
        PROVE  /\ new[i] \in Group
               /\ \/ new[i] = list[i] /\ list[i].fs # volume.fs
                  \/ list[i].fs = volume.fs /\ Grown(list[i], new[i], dev) /\ new[i].expected = most(list[i])
    <3>1. CASE list[i].fs # volume.fs
      BY <1>1, <2>1, <2>2, <3>1
    <3>2. CASE list[i].fs = volume.fs
      <4>1. PICK g \in Group : g = list[i]
        BY <1>1, <2>2
      <4>2. new[i] = [g EXCEPT !.devices = Append(@, dev),
                               !.expected = IF @ < Members(volume) THEN Members(volume) ELSE @]
        BY <2>1, <2>2, <3>2, <4>1
      <4>3. Append(g.devices, dev) \in Seq(Dev) /\ most(g) \in Nat
        BY <1>2, OneMore DEF Group
      <4>4. /\ new[i] \in Group /\ new[i].fs = g.fs /\ new[i].devices = Append(g.devices, dev)
            /\ new[i].expected = most(g)
        BY <4>2, <4>3 DEF Group
      <4> QED
        BY <3>2, <4>1, <4>4 DEF Grown
    <3> QED
      BY <3>1, <3>2
  <2>3. DOMAIN new = DOMAIN list
    BY <2>1
  <2>4. new \in [1..Len(list) -> Group]
    BY <1>1, <2>1, <2>2
  <2>5. new \in Seq(Group)
    BY <1>1, <2>4
  <2>6. \E i \in DOMAIN list : list[i].fs = volume.fs
    BY <1>4 DEF GroupsOf
  <2> QED
    BY <2>2, <2>3, <2>5, <2>6 DEF JoinedOne
<1> QED
  BY <1>3, <1>4

\* The group with which a member is after it joined is one, and the others are as they were.
JoinedAt(m, dev, volume) ==
    /\ m \in DOMAIN groups' /\ DOMAIN groups' = DOMAIN groups \cup {m}
    /\ groups'[m].fs = volume.fs
    /\ \A i \in DOMAIN groups : i # m => groups'[i] = groups[i] /\ groups[i].fs # volume.fs
    /\ IF m \in DOMAIN groups
       THEN JoinedOne(groups[m], groups'[m], dev, volume) /\ groups[m].fs = volume.fs
       ELSE groups'[m] = FirstOf(dev, volume)

\* There is such a group.
LEMMA JoinedOnce ==
  ASSUME DInv, NEW dev \in Dev, NEW volume \in Volumes, groups' = Joined(groups, dev, volume)
  PROVE  groups' \in Seq(Group) /\ \E m : JoinedAt(m, dev, volume)
<1>1. groups \in Seq(Group) /\ OneGroupEach
  BY DEF DInv, TInv, LInv
<1>2. /\ groups' \in Seq(Group)
      /\ \/ /\ \A i \in DOMAIN groups : groups[i].fs # volume.fs
            /\ \E n \in Nat : Longer(groups, groups', n, FirstOf(dev, volume))
         \/ /\ DOMAIN groups' = DOMAIN groups /\ \E i \in DOMAIN groups : groups[i].fs = volume.fs
            /\ \A i \in DOMAIN groups : JoinedOne(groups[i], groups'[i], dev, volume)
  BY <1>1, JoinedIs
<1>3. CASE /\ \A i \in DOMAIN groups : groups[i].fs # volume.fs
           /\ \E n \in Nat : Longer(groups, groups', n, FirstOf(dev, volume))
  <2>1. PICK n \in Nat : Longer(groups, groups', n, FirstOf(dev, volume))
    BY <1>3
  <2>2. JoinedAt(n + 1, dev, volume)
    <3>1. n + 1 \in DOMAIN groups' /\ DOMAIN groups' = DOMAIN groups \cup {n + 1} /\ n + 1 \notin DOMAIN groups
      BY <2>1 DEF Longer
    <3>2. groups'[n + 1] = FirstOf(dev, volume) /\ \A i \in DOMAIN groups : groups'[i] = groups[i]
      BY <2>1 DEF Longer
    <3>3. groups'[n + 1].fs = volume.fs
      BY <3>2 DEF FirstOf
    <3> QED
      BY <1>3, <3>1, <3>2, <3>3 DEF JoinedAt
  <2> QED
    BY <1>2, <2>2
<1>4. CASE /\ DOMAIN groups' = DOMAIN groups /\ \E i \in DOMAIN groups : groups[i].fs = volume.fs
           /\ \A i \in DOMAIN groups : JoinedOne(groups[i], groups'[i], dev, volume)
  <2>1. PICK m \in DOMAIN groups : groups[m].fs = volume.fs
    BY <1>4
  <2>2. \A i \in DOMAIN groups : i # m => groups[i].fs # volume.fs
    BY <1>1, <2>1 DEF OneGroupEach
  <2>3. \A i \in DOMAIN groups : i # m => groups'[i] = groups[i]
    BY <1>4, <2>2 DEF JoinedOne
  <2>4. groups'[m].fs = volume.fs
    BY <1>4, <2>1 DEF JoinedOne, Grown
  <2>5. DOMAIN groups' = DOMAIN groups \cup {m}
    BY <1>4
  <2>6. JoinedAt(m, dev, volume)
    BY <1>4, <2>1, <2>2, <2>3, <2>4, <2>5 DEF JoinedAt
  <2> QED
    BY <1>2, <2>6
<1> QED
  BY <1>2, <1>3, <1>4

\* The group that a device joined: it has it, once, and what it had.
LEMMA JoinedHas ==
  ASSUME DInv, NEW dev \in Dev, NEW volume \in Volumes, NEW m, JoinedAt(m, dev, volume), NEW g \in Group, g = groups'[m],
         \A i \in DOMAIN groups : \A k \in DOMAIN groups[i].devices : groups[i].devices[k] # dev
  PROVE  /\ Once(g) /\ g.devices # <<>>
         /\ g.devices[1] = dev \/ (m \in DOMAIN groups /\ g.devices[1] = groups[m].devices[1])
         /\ \E l \in DOMAIN g.devices : g.devices[l] = dev
         /\ \A l \in DOMAIN g.devices :
              g.devices[l] = dev \/ (m \in DOMAIN groups /\ \E k \in DOMAIN groups[m].devices : g.devices[l] = groups[m].devices[k])
         /\ m \in DOMAIN groups =>
              \A k \in DOMAIN groups[m].devices : \E l \in DOMAIN g.devices : g.devices[l] = groups[m].devices[k]
<1>1. CASE m \in DOMAIN groups
  <2>1. PICK old \in Group : old = groups[m]
    BY <1>1, GroupHasFirst
  <2>2. Grown(old, g, dev) /\ old.devices # <<>>
    BY <1>1, <2>1 DEF JoinedAt, JoinedOne, DInv, TInv
  <2>3. Once(old) /\ \A k \in DOMAIN old.devices : old.devices[k] # dev
    BY <1>1, <2>1 DEF DInv, LInv, NamesOnce
  <2>4. Once(g)
    BY <2>2, <2>3, GrownOnce
  <2>5. /\ \A k \in DOMAIN old.devices : \E l \in DOMAIN g.devices : g.devices[l] = old.devices[k]
        /\ \E l \in DOMAIN g.devices : g.devices[l] = dev
        /\ \A l \in DOMAIN g.devices : g.devices[l] = dev \/ \E k \in DOMAIN old.devices : g.devices[l] = old.devices[k]
        /\ g.devices # <<>> /\ g.devices[1] = old.devices[1]
    BY <2>2, GrownHas
  <2> QED
    BY <1>1, <2>1, <2>4, <2>5
<1>2. CASE m \notin DOMAIN groups
  <2>1. g = FirstOf(dev, volume)
    BY <1>2 DEF JoinedAt
  <2>2. g.devices = <<dev>>
    BY <2>1 DEF FirstOf
  <2>3. DOMAIN g.devices = {1} /\ g.devices[1] = dev /\ g.devices # <<>>
    BY <2>2
  <2> QED
    BY <1>2, <2>3 DEF Once
<1> QED
  BY <1>1, <1>2

\* A member of a filesystem over several devices.
LEMMA MemberKeeps ==
  ASSUME DInv, Probing, UNCHANGED <<plugged, left, singles, sources>>,
         First(devices) \in Present \cap Allowed, Members(VolumeOf(First(devices))) > 0,
         groups' = Joined(groups, First(devices), VolumeOf(First(devices)))
  PROVE  DInv'
<1> DEFINE dev == First(devices)
           volume == VolumeOf(dev)
<1>0. /\ dev \in devices /\ dev \in Dev /\ Typed(plugged)' /\ Apart(plugged)' /\ devices' \subseteq Dev
      /\ PhaseOK' /\ MissingOnly'
  BY ProbingMoves
<1>1. /\ pc = "probe" /\ pc' = "probe" /\ devices' = devices \ {dev} /\ changes' \in 0..MaxChanges
      /\ UNCHANGED <<mounts, scanned, missing, waited, known, whole>>
  BY DEF Probing
<1>2. /\ \A f : Sure(f)' <=> Sure(f)
      /\ \A d, f : Home(d, f)' <=> Home(d, f)
      /\ \A d : HeldBy(d)' = HeldBy(d)
      /\ Present' = Present
      /\ \A f : StatesFor(f)' = StatesFor(f)
  BY <1>1, SameDisks, SameStates
<1>3. volume \in Volumes /\ dev \in Present \cap Allowed /\ Home(dev, volume.fs)
  <2>1. dev \in PresentIn(plugged) /\ Typed(plugged)
    BY DEF Present, DInv, TInv
  <2>2. VolumeAt(HeldIn(plugged, dev)) \in Volumes
    BY <2>1, PresentHeld
  <2> QED
    BY <2>2 DEF VolumeOf, HeldBy, Home
<1>4. \A f : Home(dev, f) => f = volume.fs
  BY DEF Home
\* A filesystem that is sure and of which this is a member is shared.
<1>5. Sure(volume.fs) => Shared(volume.fs) /\ Members(volume) = VolumeOfFs(volume.fs).says
                         /\ VolumeOfFs(volume.fs).is = "btrfs"
  <2> SUFFICES ASSUME Sure(volume.fs)
               PROVE  Shared(volume.fs) /\ Members(volume) = VolumeOfFs(volume.fs).says
                      /\ VolumeOfFs(volume.fs).is = "btrfs"
    OBVIOUS
  <2>1. Members(volume) > 0
    OBVIOUS
  <2> HIDE DEF volume
  <2> QED
    BY <1>3, <2>1, AtHand DEF volume
<1>6. groups' \in Seq(Group) /\ \E m : JoinedAt(m, dev, volume)
  <2> HIDE DEF volume, dev
  <2>1. groups' = Joined(groups, dev, volume)
    BY DEF volume, dev
  <2> QED
    BY <1>0, <1>3, <2>1, JoinedOnce
<1> HIDE DEF dev, volume
<1>7. PICK m : JoinedAt(m, dev, volume)
  BY <1>6
<1>8. /\ m \in DOMAIN groups' /\ DOMAIN groups' = DOMAIN groups \cup {m}
      /\ groups'[m].fs = volume.fs
      /\ \A i \in DOMAIN groups : i # m => groups'[i] = groups[i] /\ groups[i].fs # volume.fs
      /\ m \in DOMAIN groups => groups[m].fs = volume.fs
  BY <1>7 DEF JoinedAt
<1>9. PICK g \in Group : g = groups'[m]
  BY <1>6, <1>8, ElementOfSeq, LenProperties
<1>10. g.fs = volume.fs
  BY <1>8, <1>9
<1>11. /\ \A i \in DOMAIN groups : \A k \in DOMAIN groups[i].devices : groups[i].devices[k] # dev
       /\ \A i \in DOMAIN singles : singles[i].path # dev
       /\ mounts = {}
  BY <1>0, <1>1 DEF DInv, LInv, Unprobed, PhaseOK
<1>12. /\ Once(g) /\ g.devices # <<>>
       /\ g.devices[1] = dev \/ (m \in DOMAIN groups /\ g.devices[1] = groups[m].devices[1])
       /\ \E l \in DOMAIN g.devices : g.devices[l] = dev
       /\ \A l \in DOMAIN g.devices :
            g.devices[l] = dev \/ (m \in DOMAIN groups /\ \E k \in DOMAIN groups[m].devices : g.devices[l] = groups[m].devices[k])
       /\ m \in DOMAIN groups =>
            \A k \in DOMAIN groups[m].devices : \E l \in DOMAIN g.devices : g.devices[l] = groups[m].devices[k]
  BY <1>0, <1>3, <1>7, <1>9, <1>11, JoinedHas
<1>13. TInv'
  <2>1. \A i \in DOMAIN groups' : groups'[i].devices # <<>>
    BY <1>8, <1>9, <1>12 DEF DInv, TInv
  <2> QED
    BY <1>0, <1>1, <1>6, <2>1 DEF DInv, TInv
<1>14. LInv'
  <2>1. OneGroupEach'
    BY <1>8 DEF DInv, LInv, OneGroupEach
  <2>2. NamesOnce'
    <3> SUFFICES ASSUME NEW i \in DOMAIN groups' PROVE Once(groups'[i])
      BY DEF NamesOnce
    <3>1. CASE i = m
      BY <1>9, <1>12, <3>1
    <3>2. CASE i # m
      BY <1>8, <3>2 DEF DInv, LInv, NamesOnce
    <3> QED
      BY <3>1, <3>2
  <2>3. \A i \in DOMAIN groups : 1 \in DOMAIN groups[i].devices /\ groups[i].devices[1] # dev
    BY <1>11, GroupHasFirst
  <2>4. MountOnce'
    <3>1. \A i \in DOMAIN groups' : i # m => groups'[i].devices[1] # g.devices[1]
      BY <1>8, <1>12, <2>3 DEF DInv, LInv, MountOnce
    <3>2. \A i, j \in DOMAIN groups' : groups'[i].devices[1] = groups'[j].devices[1] => i = j
      BY <1>8, <1>9, <3>1 DEF DInv, LInv, MountOnce
    <3>3. \A i \in DOMAIN groups', j \in DOMAIN singles : groups'[i].devices[1] # singles[j].path
      BY <1>8, <1>9, <1>11, <1>12 DEF DInv, LInv, MountOnce
    <3> QED
      BY <1>1, <1>11, <3>2, <3>3 DEF DInv, LInv, MountOnce
  <2>5. Unprobed'
    <3>1. \A i \in DOMAIN groups' : \A k \in DOMAIN groups'[i].devices : groups'[i].devices[k] \notin devices'
      BY <1>1, <1>8, <1>9, <1>12 DEF DInv, LInv, Unprobed
    <3> QED
      BY <1>1, <3>1 DEF DInv, LInv, Unprobed
  <2>6. AllowedOnly'
    BY <1>1, <1>3, <1>8, <1>9, <1>12 DEF DInv, LInv, AllowedOnly
  <2> QED
    BY <1>0, <2>1, <2>2, <2>4, <2>5, <2>6 DEF LInv
<1>15. ListsHome'
  <2>1. ASSUME Sure(volume.fs)
        PROVE  HomeGroup(g)
    <3>1. m \in DOMAIN groups => HomeGroup(groups[m])
      BY <1>8, <2>1 DEF DInv, SInv, ListsHome
    <3>2. \A l \in DOMAIN g.devices : Home(g.devices[l], g.fs)
      BY <1>3, <1>8, <1>10, <1>12, <3>1 DEF HomeGroup
    <3>3. g.expected = VolumeOfFs(volume.fs).says
      <4>1. CASE m \in DOMAIN groups
        BY <1>5, <1>7, <1>8, <1>9, <2>1, <3>1, <4>1 DEF JoinedAt, JoinedOne, Grown, HomeGroup
      <4>2. CASE m \notin DOMAIN groups
        BY <1>5, <1>7, <1>9, <2>1, <4>2 DEF JoinedAt, FirstOf
      <4> QED
        BY <4>1, <4>2
    <3> QED
      BY <1>5, <1>10, <2>1, <3>2, <3>3 DEF HomeGroup
  <2>2. ASSUME NEW i \in DOMAIN groups', NEW h, h = groups'[i], Sure(h.fs)
        PROVE  HomeGroup(h)
    <3>1. CASE i = m
      BY <1>9, <1>10, <2>1, <2>2, <3>1
    <3>2. CASE i # m
      BY <1>8, <2>2, <3>2 DEF DInv, SInv, ListsHome
    <3> QED
      BY <3>1, <3>2
  <2>3. \A i \in DOMAIN groups' : Sure(groups[i].fs)' => HomeGroup(groups[i])'
    BY <1>2, <2>2 DEF HomeGroup
  <2> QED
    BY <1>2, <2>3 DEF DInv, SInv, ListsHome, HomeSingle
<1>16. SourcesStand'
  <2>1. ASSUME NEW i \in DOMAIN sources, Sure(sources[i].fs)
        PROVE  volume.fs # sources[i].fs
    <3>1. VolumeOfFs(sources[i].fs).is = "luks"
      BY <1>1, <2>1 DEF DInv, SInv, SourcesStand
    <3> QED
      BY <1>5, <2>1, <3>1
  <2> QED
    BY <1>1, <1>2, <1>8, <2>1 DEF DInv, SInv, SourcesStand
<1>17. NoneForgotten'
  <2>1. \A f : Listed(f) => Listed(f)'
    BY <1>8 DEF Listed
  <2>2. \A f : f = volume.fs => Listed(f)'
    BY <1>8 DEF Listed
  <2> SUFFICES ASSUME NEW f \in known, Sure(f)
               PROVE  Listed(f)' \/ \E d \in devices' : Home(d, f)
    BY <1>1, <1>2 DEF DInv, SInv, NoneForgotten
  <2>3. Listed(f) \/ \E d \in devices : Home(d, f)
    BY DEF DInv, SInv, NoneForgotten
  <2> QED
    BY <1>1, <1>4, <2>1, <2>2, <2>3
<1>18. WholeCovered'
  <2> SUFFICES ASSUME NEW f \in whole, Sure(f)
               PROVE  /\ \A i \in DOMAIN groups' : groups'[i].fs = f => Covers(groups[i])'
                      /\ Shared(f) /\ (\A i \in DOMAIN groups' : groups'[i].fs # f) =>
                           \A v \in VolumesOf(f) : \E d \in devices' : Home(d, f) /\ HeldBy(d) = v
    BY <1>1, <1>2 DEF WholeCovered
  <2>1. /\ \A i \in DOMAIN groups : groups[i].fs = f => Covers(groups[i])
        /\ Shared(f) /\ (\A i \in DOMAIN groups : groups[i].fs # f) =>
             \A v \in VolumesOf(f) : \E d \in devices : Home(d, f) /\ HeldBy(d) = v
    BY <1>1 DEF DInv, SInv, WholeCovered
  <2>2. ASSUME NEW i \in DOMAIN groups', NEW h, h = groups'[i], h.fs = f, NEW v \in VolumesOf(f)
        PROVE  \E d \in Present :
                 /\ Home(d, f) /\ HeldBy(d) = v
                 /\ d \in devices' \/ \E k \in DOMAIN h.devices : h.devices[k] = d
    <3>1. CASE i # m
      <4>1. i \in DOMAIN groups /\ h = groups[i] /\ f # volume.fs
        BY <1>8, <2>2, <3>1
      <4>2. Covers(h)
        BY <2>1, <2>2, <4>1
      <4> QED
        BY <1>1, <1>4, <2>2, <4>1, <4>2 DEF Covers
    <3>2. CASE i = m /\ m \in DOMAIN groups
      <4>1. h = g /\ Covers(groups[m]) /\ groups[m].fs = f
        BY <1>8, <1>9, <2>1, <2>2, <3>2
      <4>2. PICK d \in Present :
              /\ Home(d, f) /\ HeldBy(d) = v
              /\ d \in devices \/ \E k \in DOMAIN groups[m].devices : groups[m].devices[k] = d
        BY <2>2, <4>1 DEF Covers
      <4> QED
        BY <1>1, <1>12, <3>2, <4>1, <4>2
    <3>3. CASE i = m /\ m \notin DOMAIN groups
      <4>1. h = g /\ f = volume.fs
        BY <1>8, <1>9, <2>2, <3>3
      <4>2. Shared(f) /\ \A j \in DOMAIN groups : groups[j].fs # f
        BY <1>5, <1>8, <3>3, <4>1
      <4>3. PICK d \in devices : Home(d, f) /\ HeldBy(d) = v
        BY <2>1, <2>2, <4>2
      <4> QED
        BY <1>1, <1>12, <4>1, <4>3 DEF Home
    <3> QED
      BY <3>1, <3>2, <3>3
  <2>3. \A i \in DOMAIN groups' : groups'[i].fs = f => Covers(groups[i])'
    BY <1>2, <2>2 DEF Covers
  <2>4. ASSUME Shared(f), \A i \in DOMAIN groups' : groups'[i].fs # f, NEW v \in VolumesOf(f)
        PROVE  \E d \in devices' : Home(d, f) /\ HeldBy(d) = v
    <3>1. f # volume.fs /\ \A i \in DOMAIN groups : groups[i].fs # f
      BY <1>8, <2>4
    <3>2. PICK d \in devices : Home(d, f) /\ HeldBy(d) = v
      BY <2>1, <2>4, <3>1
    <3> QED
      BY <1>1, <1>4, <3>1, <3>2
  <2> QED
    BY <2>3, <2>4
<1> QED
  BY <1>0, <1>13, <1>14, <1>15, <1>16, <1>17, <1>18 DEF DInv, SInv

\* A device is probed.
LEMMA ProbeDeviceKeeps ==
  ASSUME DInv, ProbeDevice
  PROVE  DInv'
<1> DEFINE dev == First(devices)
           volume == VolumeOf(dev)
           type == IF dev \in Present \cap Allowed THEN ProbeFsType(volume) ELSE "none"
           member == type # "none" /\ Members(volume) > 0
           luks == Source(volume.fs, dev, "Encrypted")
           single == [path |-> dev, type |-> type, fs |-> volume.fs]
<1>0. /\ pc = "probe" /\ devices # {} /\ devices' = devices \ {dev}
      /\ UNCHANGED <<plugged, left, mounts, scanned, pc, missing, waited, known, whole, changes>>
      /\ sources' = IF type # "luks" THEN sources ELSE Append(sources, luks)
      /\ groups' = IF member THEN Joined(groups, dev, volume) ELSE groups
      /\ singles' = IF member \/ type \in {"none", "luks"} THEN singles ELSE Append(singles, single)
  BY DEF ProbeDevice, disks, history
<1>1. Probing
  BY <1>0 DEF Probing, Moves, DInv, TInv
<1>2. dev \in devices /\ dev \in Dev /\ (\A f : Sure(f)' => Sure(f))
  BY <1>1, ProbingMoves
<1>3. \A f : Sure(f) /\ Home(dev, f) =>
        /\ volume = VolumeOfFs(f) /\ volume.fs = f /\ type = VolumeOfFs(f).is
        /\ Shared(f) => Members(volume) > 0 /\ type = "btrfs"
        /\ ~Shared(f) => Members(volume) = 0
  BY AtHand
<1>4. /\ ProbeFsType(volume) \in Known \cup {"none"}
      /\ Members(volume) > 0 => ProbeFsType(volume) = "btrfs"
  BY ProbeType
<1>5. type # "none" => dev \in Present \cap Allowed /\ type = ProbeFsType(volume) /\ Home(dev, volume.fs)
                       /\ volume.fs \in STRING
  <2> SUFFICES ASSUME type # "none"
               PROVE  dev \in Present \cap Allowed /\ volume.fs \in STRING
    BY DEF Home
  <2>1. dev \in Present \cap Allowed
    OBVIOUS
  <2>2. VolumeAt(HeldIn(plugged, dev)) \in Volumes
    BY <2>1, PresentHeld DEF Present, DInv, TInv
  <2> QED
    BY <2>1, <2>2 DEF VolumeOf, HeldBy, Volumes
<1> HIDE DEF dev, volume, type, luks, single
<1>6. CASE type = "none"
  BY <1>0, <1>1, <1>6, PassedKeeps DEF dev, type, volume
<1>7. CASE type = "luks"
  <2>1. luks \in Reported /\ luks.device = dev /\ luks.state = "Encrypted" /\ luks.fs = volume.fs
    BY <1>2, <1>5, <1>7 DEF luks, Source, Reported
  <2>2. ~member
    BY <1>4, <1>5, <1>7
  <2>3. UNCHANGED <<groups, singles>> /\ sources' = Append(sources, luks)
    BY <1>0, <1>7, <2>2
  <2>4. \A f : Sure(f)' /\ Home(dev, f) => f = luks.fs
    BY <1>2, <1>3, <2>1
  <2>5. Sure(luks.fs) => Home(dev, luks.fs) /\ VolumeOfFs(luks.fs).is = "luks"
    BY <1>3, <1>5, <1>7, <2>1
  <2>6. \A f : Sure(f)' => Sure(f)
    BY <1>2
  <2>7. PICK source \in Reported : source = luks
    BY <2>1
  <2>8. Sure(source.fs)' => Home(dev, source.fs) /\ VolumeOfFs(source.fs).is = "luks"
    BY <2>5, <2>6, <2>7
  <2> QED
    BY <1>1, <2>1, <2>3, <2>4, <2>7, <2>8, ContainerKeeps DEF dev
<1>8. CASE member
  <2>1. UNCHANGED <<plugged, left, singles, sources>> /\ groups' = Joined(groups, dev, volume)
    BY <1>0, <1>4, <1>5, <1>8
  <2> QED
    BY <1>1, <1>5, <1>8, <2>1, MemberKeeps DEF dev, volume
<1>9. CASE type \notin {"none", "luks"} /\ ~member
  <2>1. type \in {"xfs", "ext4", "f2fs", "bcachefs", "btrfs"}
    BY <1>4, <1>5, <1>9 DEF Known
  <2>2. single \in Single /\ single.path = dev /\ single.type = type /\ single.fs = volume.fs
    BY <1>2, <1>5, <1>9, <2>1 DEF single, Single
  <2>3. UNCHANGED <<groups, sources>> /\ singles' = Append(singles, single)
    BY <1>0, <1>9
  <2>4. \A f : Sure(f)' /\ Home(dev, f) => ~Shared(f) /\ f = single.fs
    BY <1>2, <1>3, <1>9, <2>2
  <2>5. Sure(single.fs) => HomeSingle(single)
    BY <1>3, <1>5, <1>9, <2>2 DEF HomeSingle
  <2>6. PICK s \in Single : s = single
    BY <2>2
  <2>7. Sure(s.fs)' => HomeSingle(s)
    BY <1>2, <2>5, <2>6
  <2> QED
    BY <1>1, <2>2, <2>3, <2>4, <2>6, <2>7, SingleKeeps DEF dev
<1> QED
  BY <1>6, <1>7, <1>8, <1>9

\* Its drive goes while it is: it is a filesystem on one device then, but not one that is
\* sure any more.
LEMMA ProbeCutKeeps ==
  ASSUME DInv, ProbeCut
  PROVE  DInv'
<1> DEFINE dev == First(devices)
           volume == VolumeOf(dev)
           single == [path |-> dev, type |-> ProbeFsType(volume), fs |-> volume.fs]
<1>0. /\ pc = "probe" /\ devices # {} /\ devices' = devices \ {dev}
      /\ dev \in Present \cap Allowed /\ Members(volume) > 0 /\ Pull(dev[1])
      /\ UNCHANGED <<mounts, scanned, pc, groups, missing, waited, sources, known, whole>>
      /\ singles' = Append(singles, single)
  BY DEF ProbeCut
<1>1. /\ dev[1] \in Slots /\ dev \in DevicesOf(dev[1], plugged[dev[1]]) /\ VolumeOf(dev) \in Volumes
      /\ dev \in Dev
  BY <1>0, PresentHeld DEF Present, DInv, TInv, VolumeOf, HeldBy
<1>2. Probing
  <2>1. Moves
    BY <1>0, <1>1 DEF Moves
  <2>2. changes' \in 0..MaxChanges
    BY <1>0, ConstantsAssumption DEF Pull, DInv, TInv
  <2> QED
    BY <1>0, <2>1, <2>2 DEF Probing
<1>3. volume.fs \in left'
  BY <1>0, <1>1 DEF Pull
<1>4. \A f : Sure(f)' => ~Home(dev, f)
  BY <1>3 DEF Sure, Home
<1>5. single \in Single /\ single.path = dev /\ single.fs = volume.fs
  BY <1>0, <1>1, ProbeType DEF Single, Volumes
<1> HIDE DEF dev, volume, single
<1>6. PICK s \in Single : s = single
  BY <1>5
<1>7. ~Sure(s.fs)'
  BY <1>3, <1>5, <1>6 DEF Sure
<1>8. UNCHANGED <<groups, sources>> /\ singles' = Append(singles, s) /\ s.path = dev
  BY <1>0, <1>5, <1>6
<1> QED
  BY <1>2, <1>4, <1>7, <1>8, SingleKeeps DEF dev

----------------------------------------------------------------------------
(* Mounting *)

\* What is in a list is in the other, and the other way unless it is of filesystem f.
Within(new, list) == \A i \in DOMAIN new : \E j \in DOMAIN list : new[i] = list[j]
LacksOnly(f, new, list) == \A j \in DOMAIN list : list[j].fs = f \/ \E i \in DOMAIN new : new[i] = list[j]

\* What is left of a list without its first.
LEMMA TailIs ==
  ASSUME NEW S, NEW list \in Seq(S), list # <<>>, NEW new, new = Tail(list)
  PROVE  /\ new \in Seq(S) /\ 1 \in DOMAIN list /\ list[1] \in S /\ Head(list) = list[1]
         /\ \A i \in DOMAIN new : i \in Nat /\ i + 1 \in DOMAIN list /\ new[i] = list[i + 1] /\ i + 1 # 1
         /\ Within(new, list) /\ LacksOnly(list[1].fs, new, list)
<1>1. /\ new \in Seq(S) /\ Len(new) = Len(list) - 1
      /\ \A i \in 1..Len(new) : new[i] = list[i + 1]
  BY HeadTailProperties
<1>2. Len(list) \in Nat /\ Len(list) # 0 /\ DOMAIN list = 1..Len(list) /\ DOMAIN new = 1..Len(new)
  BY <1>1, EmptySeq, LenProperties
<1>3. 1 \in DOMAIN list /\ list[1] \in S /\ Head(list) = list[1]
  BY <1>2, ElementOfSeq
<1>4. \A i \in DOMAIN new : i \in Nat /\ i + 1 \in DOMAIN list /\ new[i] = list[i + 1] /\ i + 1 # 1
  BY <1>1, <1>2
<1>5. Within(new, list)
  BY <1>4 DEF Within
<1>6. ASSUME NEW j \in DOMAIN list, j # 1
      PROVE  \E i \in DOMAIN new : new[i] = list[j]
  <2>1. j - 1 \in DOMAIN new /\ (j - 1) + 1 = j
    BY <1>1, <1>2, <1>6
  <2> QED
    BY <1>4, <2>1
<1>7. LacksOnly(list[1].fs, new, list)
  BY <1>6 DEF LacksOnly
<1> QED
  BY <1>1, <1>3, <1>4, <1>5, <1>7

\* When something has been tried, it is a source instead of in its list.
LEMMA TriedKeeps ==
  ASSUME DInv, pc = "mount",
         UNCHANGED <<plugged, left, pc, devices, missing, waited, known, whole, changes>>,
         NEW source \in Reported, sources' = Append(sources, source),
         Within(groups', groups), LacksOnly(source.fs, groups', groups),
         Within(singles', singles), LacksOnly(source.fs, singles', singles),
         Sure(source.fs) =>
           /\ \A j \in DOMAIN groups' : groups'[j].fs # source.fs
           /\ \A j \in DOMAIN singles' : singles'[j].fs # source.fs
           /\ \A j \in DOMAIN sources : sources[j].fs # source.fs
           /\ source.state \in StatesFor(source.fs)
  PROVE  SInv' /\ sources' \in Seq(Reported)
<1>1. sources' \in Seq(Reported) /\ \E n \in Nat : Longer(sources, sources', n, source)
  <2>1. sources \in Seq(Reported) /\ source \in Reported /\ sources' = Append(sources, source)
    BY DEF DInv, TInv
  <2> QED
    BY <2>1, AppendIsLonger
<1>2. PICK n \in Nat : Longer(sources, sources', n, source)
  BY <1>1
<1>3. /\ n + 1 \in DOMAIN sources' /\ n + 1 \notin DOMAIN sources /\ sources'[n + 1] = source
      /\ \A i \in DOMAIN sources : i \in DOMAIN sources' /\ sources'[i] = sources[i]
      /\ \A i \in DOMAIN sources' : i = n + 1 \/ (i \in DOMAIN sources /\ sources'[i] = sources[i])
  BY <1>2 DEF Longer
<1>4. /\ \A f : Sure(f)' <=> Sure(f)
      /\ \A d, f : Home(d, f)' <=> Home(d, f)
      /\ \A d : HeldBy(d)' = HeldBy(d)
      /\ Present' = Present
      /\ \A f : StatesFor(f)' = StatesFor(f)
  BY SameDisks, SameStates
<1>5. ListsHome'
  BY <1>4 DEF DInv, SInv, ListsHome, Within, HomeGroup, HomeSingle
<1>6. SourcesStand'
  <2>1. ASSUME NEW i \in DOMAIN sources, Sure(sources[i].fs)
        PROVE  /\ sources[i].fs # source.fs
               /\ \A j \in DOMAIN sources : sources[j].fs = sources[i].fs => i = j
               /\ \A j \in DOMAIN groups' : groups'[j].fs # sources[i].fs
               /\ \A j \in DOMAIN singles' : singles'[j].fs # sources[i].fs
               /\ sources[i].state \in StatesFor(sources[i].fs)
    BY <2>1 DEF DInv, SInv, SourcesStand, Within
  <2>2. ASSUME NEW i \in DOMAIN sources', NEW s, s = sources'[i], Sure(s.fs)
        PROVE  /\ \A j \in DOMAIN sources' : sources'[j].fs = s.fs => i = j
               /\ \A j \in DOMAIN groups' : groups'[j].fs # s.fs
               /\ \A j \in DOMAIN singles' : singles'[j].fs # s.fs
               /\ s.state \in StatesFor(s.fs)
    <3>1. CASE i = n + 1
      BY <1>3, <2>2, <3>1
    <3>2. CASE i \in DOMAIN sources /\ sources'[i] = sources[i]
      BY <1>3, <2>1, <2>2, <3>2
    <3> QED
      BY <1>3, <2>2, <3>1, <3>2
  <2> QED
    BY <1>4, <2>2 DEF SourcesStand
<1>7. NoneForgotten'
  <2>1. \A f : Listed(f) => Listed(f)'
    <3> SUFFICES ASSUME NEW f, Listed(f) PROVE Listed(f)'
      OBVIOUS
    <3>1. CASE f = source.fs
      BY <1>3, <3>1 DEF Listed
    <3>2. CASE f # source.fs
      BY <1>3, <3>2 DEF Listed, LacksOnly
    <3> QED
      BY <3>1, <3>2
  <2> QED
    BY <1>4, <2>1 DEF DInv, SInv, NoneForgotten
<1>8. WholeCovered'
  <2> SUFFICES ASSUME NEW f \in whole, Sure(f), NEW i \in DOMAIN groups', groups'[i].fs = f
               PROVE  Covers(groups[i])'
    BY <1>4 DEF WholeCovered
  <2>1. PICK j \in DOMAIN groups : groups'[i] = groups[j]
    BY DEF Within
  <2>2. Covers(groups[j])
    BY <2>1 DEF DInv, SInv, WholeCovered
  <2> QED
    BY <1>4, <2>1, <2>2 DEF Covers
<1> QED
  BY <1>1, <1>5, <1>6, <1>7, <1>8 DEF SInv

\* What mounting a group that is sure comes to is what it should come to.
LEMMA GroupState ==
  ASSUME DInv, pc = "mount", NEW m \in DOMAIN groups, NEW group \in Group, group = groups[m], Sure(group.fs),
         NEW told, (\A k \in DOMAIN group.devices : group.devices[k] \in Present) =>
                      \A k \in DOMAIN group.devices : group.devices[k] \in told,
         NEW mounted,
         mounted = (/\ IsComplete(group) /\ \A k \in DOMAIN group.devices : group.devices[k] \in Present
                    /\ KernelMounts(group.devices[1], "btrfs", told))
  PROVE  (IF mounted THEN "Mounted" ELSE "Error") \in StatesFor(group.fs)
<1> DEFINE f == group.fs
           volume == VolumeOfFs(f)
           first == group.devices[1]
<1>1. /\ Legible(f) /\ Typed(plugged) /\ Apart(plugged) /\ Once(group) /\ HomeGroup(group)
      /\ first \notin mounts /\ devices = {}
      /\ f \in whole => Covers(group)
  BY DEF Sure, DInv, TInv, LInv, NamesOnce, SInv, ListsHome, MountOnce, PhaseOK, WholeCovered
<1>2. 1 \in DOMAIN group.devices
  BY GroupHasFirst
<1>3. /\ \A k \in DOMAIN group.devices : Home(group.devices[k], f) /\ group.devices[k] \in Present \cap Allowed
      /\ volume.is = "btrfs" /\ ~volume.locked
  BY <1>1 DEF HomeGroup, Home, Shared, Legible
<1>4. VolumeOf(first) = volume /\ volume.fs = f /\ first \in Present \ mounts
  BY <1>1, <1>2, <1>3, HomeVolume
<1>5. IsComplete(group) <=>
        \A v \in VolumesOf(f) : \E k \in DOMAIN group.devices : HeldBy(group.devices[k]) = v
  BY <1>1, CompleteIsAll
<1>6. CASE mounted
  <2>1. IsComplete(group) /\ volume.sound
    BY <1>4, <1>6 DEF KernelMounts
  <2>2. f \in Seen
    BY <1>2, <1>3 DEF Seen, Home
  <2>3. f \in SeenWhole
    BY <1>3, <1>5, <2>1, <2>2 DEF SeenWhole
  <2> QED
    BY <1>3, <1>6, <2>1, <2>3 DEF StatesFor
<1>7. CASE ~mounted
  <2>1. ASSUME volume.sound, f \in whole
        PROVE  FALSE
    <3>1. \A v \in VolumesOf(f) : \E k \in DOMAIN group.devices : HeldBy(group.devices[k]) = v
      BY <1>1, <2>1 DEF Covers
    <3>2. IsComplete(group)
      BY <1>5, <3>1
    <3>3. \A k \in DOMAIN group.devices : group.devices[k] \in Present /\ group.devices[k] \in told
      BY <1>3
    <3>4. VolumesOf(f) \subseteq {HeldBy(d) : d \in (told \cup {first}) \cap Present}
      BY <3>1, <3>3
    <3>5. KernelMounts(first, "btrfs", told)
      BY <1>3, <1>4, <2>1, <3>4 DEF KernelMounts
    <3> QED
      BY <1>7, <3>2, <3>3, <3>5
  <2> QED
    BY <1>3, <1>7, <2>1 DEF StatesFor
<1> QED
  BY <1>6, <1>7

\* A group is tried.
LEMMA MountGroupKeeps ==
  ASSUME DInv, MountGroup
  PROVE  DInv'
<1> DEFINE group == Head(groups)
           first == group.devices[1]
           told == {group.devices[i] : i \in {j \in DOMAIN group.devices :
                                                \A k \in 1..j : group.devices[k] \in Present}}
           mounted == /\ IsComplete(group) /\ \A k \in DOMAIN group.devices : group.devices[k] \in Present
                      /\ KernelMounts(first, "btrfs", scanned \cup told)
           source == Source(group.fs, first, IF mounted THEN "Mounted" ELSE "Error")
<1>0. /\ pc = "mount" /\ groups # <<>> /\ groups' = Tail(groups) /\ Keep(source)
      /\ scanned' = IF IsComplete(group) THEN scanned \cup told ELSE scanned
      /\ UNCHANGED <<plugged, left, pc, devices, singles, missing, waited, known, whole, changes>>
  BY DEF MountGroup, history
<1>1. groups \in Seq(Group)
  BY DEF DInv, TInv
<1>2. /\ groups' \in Seq(Group) /\ 1 \in DOMAIN groups /\ group \in Group /\ group = groups[1]
      /\ \A i \in DOMAIN groups' : i \in Nat /\ i + 1 \in DOMAIN groups /\ groups'[i] = groups[i + 1] /\ i + 1 # 1
      /\ Within(groups', groups) /\ LacksOnly(group.fs, groups', groups)
  <2>1. groups # <<>> /\ groups' = Tail(groups)
    BY <1>0
  <2> QED
    BY <1>1, <2>1, TailIs, ZenonT(60)
<1>3. 1 \in DOMAIN group.devices /\ DOMAIN group.devices = 1..Len(group.devices) /\ Len(group.devices) \in Nat
      /\ first \in Dev /\ group.fs \in STRING
  <2>1. group.devices \in Seq(Dev) /\ group.fs \in STRING
    BY <1>2 DEF Group
  <2>2. 1 \in DOMAIN group.devices
    BY <1>2, GroupHasFirst
  <2> QED
    BY <2>1, <2>2, LenProperties, ElementOfSeq
<1>4. /\ source \in Reported /\ source.fs = group.fs /\ source.state = (IF mounted THEN "Mounted" ELSE "Error")
      /\ source.mount = (IF mounted THEN first ELSE NoMount)
  BY <1>3 DEF Source, Reported
<1>5. sources' = Append(sources, source) /\ mounts' \subseteq mounts \cup {first}
  BY <1>0, <1>4 DEF Keep
<1>6. told \subseteq Allowed
  BY <1>2 DEF DInv, LInv, AllowedOnly
<1>7. (\A k \in DOMAIN group.devices : group.devices[k] \in Present) =>
        \A k \in DOMAIN group.devices : group.devices[k] \in scanned \cup told
  BY <1>3
<1>8. Sure(group.fs) =>
        /\ \A j \in DOMAIN groups' : groups'[j].fs # group.fs
        /\ \A j \in DOMAIN singles' : singles'[j].fs # group.fs
        /\ \A j \in DOMAIN sources : sources[j].fs # group.fs
        /\ source.state \in StatesFor(group.fs)
  <2> SUFFICES ASSUME Sure(group.fs)
               PROVE  /\ \A j \in DOMAIN groups' : groups'[j].fs # group.fs
                      /\ \A j \in DOMAIN singles' : singles'[j].fs # group.fs
                      /\ \A j \in DOMAIN sources : sources[j].fs # group.fs
                      /\ source.state \in StatesFor(group.fs)
    OBVIOUS
  <2>1. source.state \in StatesFor(group.fs)
    <3> HIDE DEF told
    <3>1. PICK all : all = scanned \cup told
      OBVIOUS
    <3>2. PICK done : done = mounted
      OBVIOUS
    <3> QED
      BY <1>0, <1>2, <1>4, <1>7, <3>1, <3>2, GroupState
  <2> HIDE DEF group, source
  <2>2. \A j \in DOMAIN groups' : groups'[j].fs # group.fs
    BY <1>2 DEF DInv, LInv, OneGroupEach
  <2>3. \A j \in DOMAIN sources : sources[j].fs # group.fs
    BY <1>2 DEF DInv, SInv, SourcesStand
  <2>4. \A j \in DOMAIN singles : singles[j].fs # group.fs
    BY <1>2 DEF DInv, SInv, ListsHome, HomeGroup, HomeSingle
  <2> QED
    BY <1>0, <2>1, <2>2, <2>3, <2>4
<1> HIDE DEF group, first, told, mounted, source
<1>9. Within(singles', singles) /\ LacksOnly(group.fs, singles', singles)
  BY <1>0 DEF Within, LacksOnly
<1>10. SInv' /\ sources' \in Seq(Reported)
  BY <1>0, <1>2, <1>4, <1>5, <1>8, <1>9, TriedKeeps
<1>11. TInv'
  BY <1>0, <1>2, <1>10 DEF DInv, TInv, Typed, Apart
<1>12. PhaseOK'
  BY <1>0 DEF DInv, PhaseOK
<1>13. LInv'
  <2>1. OneGroupEach'
    BY <1>2 DEF DInv, LInv, OneGroupEach
  <2>2. NamesOnce'
    BY <1>2 DEF DInv, LInv, NamesOnce, Once
  <2>3. MountOnce'
    BY <1>0, <1>2, <1>5 DEF DInv, LInv, MountOnce, first
  <2>4. Unprobed' /\ MissingOnly'
    BY <1>0 DEF Unprobed, MissingOnly
  <2>5. AllowedOnly'
    BY <1>0, <1>2, <1>6 DEF DInv, LInv, AllowedOnly
  <2> QED
    BY <2>1, <2>2, <2>3, <2>4, <2>5 DEF LInv
<1> QED
  BY <1>10, <1>11, <1>12, <1>13 DEF DInv

\* And so for one device.
LEMMA SingleState ==
  ASSUME DInv, NEW m \in DOMAIN singles, NEW single \in Single, single = singles[m], Sure(single.fs),
         NEW state,
         state = (IF KernelMounts(single.path, single.type, scanned) THEN "Mounted"
                  ELSE IF /\ single.path \in Present /\ single.type = "bcachefs"
                          /\ VolumeOf(single.path).is = "bcachefs" /\ VolumeOf(single.path).locked
                       THEN "Encrypted" ELSE "Error")
  PROVE  state \in StatesFor(single.fs)
<1> DEFINE f == single.fs
           volume == VolumeOfFs(f)
           dev == single.path
<1>1. /\ Legible(f) /\ Typed(plugged) /\ HomeSingle(single) /\ dev \notin mounts
  BY DEF Sure, DInv, TInv, LInv, MountOnce, SInv, ListsHome
<1>2. /\ Home(dev, f) /\ single.type = volume.is /\ ~Shared(f) /\ volume.is # "luks"
      /\ volume.locked => volume.is = "bcachefs"
  BY <1>1 DEF HomeSingle, Legible
<1>3. HeldBy(dev) \in VolumesOf(f) /\ VolumeOf(dev) = volume /\ dev \in Present \ mounts /\ volume.fs = f
  BY <1>1, <1>2, HomeVolume DEF Home
<1>4. VolumesOf(f) \subseteq {HeldBy(d) : d \in (scanned \cup {dev}) \cap Present}
  <2>1. \A v \in VolumesOf(f) : v = HeldBy(dev)
    BY <1>1, <1>2, <1>3, AloneOnce
  <2> QED
    BY <1>3, <2>1
<1>5. KernelMounts(dev, single.type, scanned) <=> volume.sound /\ ~volume.locked
  BY <1>2, <1>3, <1>4 DEF KernelMounts
<1>6. f \in SeenWhole
  <2>1. f \in Seen
    BY <1>2 DEF Seen, Home
  <2> QED
    BY <1>1, <1>2, <2>1, SeenHome
<1>7. CASE volume.locked
  BY <1>2, <1>3, <1>5, <1>7 DEF StatesFor
<1>8. CASE ~volume.locked
  <2>1. state = IF volume.sound THEN "Mounted" ELSE "Error"
    BY <1>3, <1>5, <1>8
  <2> QED
    BY <1>2, <1>6, <1>8, <2>1 DEF StatesFor
<1> QED
  BY <1>7, <1>8

\* A filesystem on one device is tried.
LEMMA MountSingleKeeps ==
  ASSUME DInv, MountSingle
  PROVE  DInv'
<1> DEFINE single == Head(singles)
           dev == single.path
           locked == dev \in Present /\ single.type = "bcachefs" /\ VolumeOf(dev).is = "bcachefs" /\ VolumeOf(dev).locked
           state == IF KernelMounts(dev, single.type, scanned) THEN "Mounted"
                    ELSE IF locked THEN "Encrypted" ELSE "Error"
           source == Source(single.fs, dev, state)
<1>0. /\ pc = "mount" /\ groups = <<>> /\ singles # <<>> /\ singles' = Tail(singles) /\ Keep(source)
      /\ UNCHANGED <<plugged, left, scanned, pc, devices, groups, missing, waited, known, whole, changes>>
  BY DEF MountSingle, history
<1>1. singles \in Seq(Single)
  BY DEF DInv, TInv
<1>2. /\ singles' \in Seq(Single) /\ 1 \in DOMAIN singles /\ single \in Single /\ single = singles[1]
      /\ \A i \in DOMAIN singles' : i \in Nat /\ i + 1 \in DOMAIN singles /\ singles'[i] = singles[i + 1] /\ i + 1 # 1
      /\ Within(singles', singles) /\ LacksOnly(single.fs, singles', singles)
  <2>1. singles # <<>> /\ singles' = Tail(singles)
    BY <1>0
  <2> QED
    BY <1>1, <2>1, TailIs, ZenonT(60)
<1>3. dev \in Dev /\ single.fs \in STRING
  BY <1>2 DEF Single
<1>4. /\ source \in Reported /\ source.fs = single.fs /\ source.state = state
      /\ source.mount = (IF state = "Mounted" THEN dev ELSE NoMount)
  BY <1>3 DEF Source, Reported
<1>5. sources' = Append(sources, source) /\ mounts' \subseteq mounts \cup {dev}
  BY <1>0, <1>4 DEF Keep
<1>6. Sure(single.fs) =>
        /\ \A j \in DOMAIN groups' : groups'[j].fs # single.fs
        /\ \A j \in DOMAIN singles' : singles'[j].fs # single.fs
        /\ \A j \in DOMAIN sources : sources[j].fs # single.fs
        /\ source.state \in StatesFor(single.fs)
  <2> SUFFICES ASSUME Sure(single.fs)
               PROVE  /\ \A j \in DOMAIN groups' : groups'[j].fs # single.fs
                      /\ \A j \in DOMAIN singles' : singles'[j].fs # single.fs
                      /\ \A j \in DOMAIN sources : sources[j].fs # single.fs
                      /\ source.state \in StatesFor(single.fs)
    OBVIOUS
  <2>1. source.state \in StatesFor(single.fs)
    <3>1. PICK result : result = state
      OBVIOUS
    <3> QED
      BY <1>2, <1>4, <3>1, SingleState
  <2> HIDE DEF single, source
  <2>2. \A j \in DOMAIN groups' : groups'[j].fs # single.fs
    BY <1>0
  <2>3. \A j \in DOMAIN sources : sources[j].fs # single.fs
    BY <1>2 DEF DInv, SInv, SourcesStand
  <2>4. ASSUME NEW i \in DOMAIN singles', singles'[i].fs = single.fs
        PROVE  FALSE
    <3>1. /\ HomeSingle(single) /\ HomeSingle(singles[i + 1]) /\ singles[i + 1].fs = single.fs
          /\ i + 1 \in DOMAIN singles /\ i + 1 # 1
      BY <1>2, <2>4 DEF DInv, SInv, ListsHome
    <3>2. Home(single.path, single.fs) /\ Home(singles[i + 1].path, single.fs) /\ ~Shared(single.fs)
      BY <3>1 DEF HomeSingle
    <3>3. singles[i + 1].path = single.path
      BY <3>2, AloneHome DEF Sure, DInv, TInv
    <3> QED
      BY <1>2, <3>1, <3>3 DEF DInv, LInv, MountOnce
  <2> QED
    BY <2>1, <2>2, <2>3, <2>4
<1> HIDE DEF single, dev, locked, state, source
<1>7. Within(groups', groups) /\ LacksOnly(single.fs, groups', groups)
  BY <1>0 DEF Within, LacksOnly
<1>8. SInv' /\ sources' \in Seq(Reported)
  BY <1>0, <1>2, <1>4, <1>5, <1>6, <1>7, TriedKeeps
<1>9. TInv'
  BY <1>0, <1>2, <1>8 DEF DInv, TInv, Typed, Apart
<1>10. PhaseOK'
  BY <1>0 DEF DInv, PhaseOK
<1>11. LInv'
  <2>1. OneGroupEach' /\ NamesOnce'
    BY <1>0 DEF DInv, LInv, OneGroupEach, NamesOnce, Once
  <2>2. MountOnce'
    BY <1>0, <1>2, <1>5 DEF DInv, LInv, MountOnce, dev
  <2>3. Unprobed' /\ MissingOnly' /\ AllowedOnly'
    BY <1>0 DEF DInv, LInv, Unprobed, MissingOnly, AllowedOnly
  <2> QED
    BY <2>1, <2>2, <2>3 DEF LInv
<1> QED
  BY <1>8, <1>9, <1>10, <1>11 DEF DInv

\* A step that is none.
LEMMA StandingKeeps ==
  ASSUME DInv, UNCHANGED vars
  PROVE  DInv'
<1>1. /\ UNCHANGED <<mounts, scanned, pc, devices, groups, singles, missing, waited, sources, known, whole>>
      /\ UNCHANGED <<plugged, left>> /\ changes' \in 0..MaxChanges
  BY DEF vars, disks, history, DInv, TInv
<1> QED
  BY <1>1, MovingKeeps DEF Moves

----------------------------------------------------------------------------
(* The theorems *)

\* The invariant holds from the start, and every step of the program and every drive
\* that comes or goes keeps it.
THEOREM DiscoveryInvariant == Spec => []DInv
<1>1. Init => DInv
  BY DiscoveryInitial
<1>2. DInv /\ [Next]_vars => DInv'
  <2> SUFFICES ASSUME DInv, [Next]_vars
               PROVE  DInv'
    OBVIOUS
  <2>1. CASE Enumerate
    BY <2>1, EnumerateKeeps
  <2>2. CASE ProbeDevice
    BY <2>2, ProbeDeviceKeeps
  <2>3. CASE ProbeEnds \/ RoundEnds \/ Return
    BY <2>3, TurningKeeps
  <2>4. CASE Wait
    BY <2>4, WaitKeeps
  <2>5. CASE Reprobe
    BY <2>5, ReprobeKeeps
  <2>6. CASE MountGroup
    BY <2>6, MountGroupKeeps
  <2>7. CASE MountSingle
    BY <2>7, MountSingleKeeps
  <2>8. CASE ProbeCut
    BY <2>8, ProbeCutKeeps
  <2>9. CASE \E slot \in Slots : Unplug(slot) \/ \E drive \in Drives \ {NoDrive} : Plug(slot, drive)
    BY <2>9, PluggingKeeps
  <2>10. CASE UNCHANGED vars
    BY <2>10, StandingKeeps
  <2> QED
    BY <2>1, <2>2, <2>3, <2>4, <2>5, <2>6, <2>7, <2>8, <2>9, <2>10 DEF Next, Program
<1> QED
  BY <1>1, <1>2, PTL DEF Spec

\* TypeOK, with the rounds that are counted never more than Timeout: for any drives,
\* slots and whitelist.
THEOREM DiscoveryTypeOK == Spec => []TypeOK
<1>1. DInv => TypeOK
  <2> SUFFICES ASSUME DInv PROVE TypeOK
    OBVIOUS
  <2>1. /\ \A i \in DOMAIN singles : singles[i] \in Single
        /\ \A i \in DOMAIN sources : sources[i] \in Reported
    BY ElementOfSeq, LenProperties DEF DInv, TInv
  <2> QED
    BY <2>1 DEF DInv, TInv, Typed, TypeOK, Single, Reported
<1> QED
  BY <1>1, DiscoveryInvariant, PTL

\* CompleteHasAll: of a group that is taken for complete no device is counted twice, over
\* any number of looks.
THEOREM DiscoveryCompleteHasAll == Spec => []CompleteHasAll
<1>1. DInv => CompleteHasAll
  <2> SUFFICES ASSUME DInv, NEW i \in DOMAIN groups, IsComplete(groups[i])
               PROVE  Cardinality({groups[i].devices[k] : k \in DOMAIN groups[i].devices}) >= groups[i].expected
    BY DEF CompleteHasAll
  <2> DEFINE names == groups[i].devices
             n == Len(names)
             all == {names[k] : k \in DOMAIN names}
             map == [k \in 1..n |-> names[k]]
  <2>1. names \in Seq(Dev) /\ Once(groups[i]) /\ groups[i].expected \in Nat /\ n >= groups[i].expected
    BY GroupHasFirst DEF Group, DInv, LInv, NamesOnce, IsComplete
  <2>2. n \in Nat /\ DOMAIN names = 1..n
    BY <2>1, LenProperties
  <2>3. map \in Surjection(1..n, all) /\ map \in Injection(1..n, all)
    BY <2>1, <2>2 DEF Surjection, Injection, IsInjective, Once
  <2>4. IsFiniteSet(1..n) /\ Cardinality(1..n) = n
    BY <2>2, FS_Interval
  <2> HIDE DEF all, map, n
  <2>5. Cardinality(all) = n
    BY <2>3, <2>4, FS_Surjection
  <2> QED
    BY <2>1, <2>2, <2>5 DEF all
<1> QED
  BY <1>1, DiscoveryInvariant, PTL

\* SteadyIsReported: a filesystem of which no device went is reported once, and mounted,
\* locked or an error as it should be, for any number of drives that come and go, members
\* of it that come late included.
THEOREM DiscoverySteadyIsReported == Spec => []SteadyIsReported
<1>1. DInv => SteadyIsReported
  <2> SUFFICES ASSUME DInv, pc = "done", NEW f \in Steady, Legible(f)
               PROVE  /\ Cardinality({i \in DOMAIN sources : sources[i].fs = f}) = 1
                      /\ \A i \in DOMAIN sources : sources[i].fs = f => sources[i].state \in StatesFor(f)
    BY DEF SteadyIsReported
  <2> DEFINE of == {i \in DOMAIN sources : sources[i].fs = f}
  <2>1. f \in known /\ Sure(f)
    BY DEF Steady, Sure
  <2>2. groups = <<>> /\ singles = <<>> /\ Listed(f)
    BY <2>1 DEF DInv, PhaseOK, SInv, NoneForgotten
  <2>3. PICK i \in of : TRUE
    BY <2>2 DEF Listed
  <2>4. of = {i}
    BY <2>1, <2>3 DEF DInv, SInv, SourcesStand
  <2>5. Cardinality(of) = 1
    BY <2>4, FS_Singleton
  <2>6. \A j \in DOMAIN sources : sources[j].fs = f => sources[j].state \in StatesFor(f)
    BY <2>1 DEF DInv, SInv, SourcesStand
  <2> QED
    BY <2>5, <2>6
<1> QED
  BY <1>1, DiscoveryInvariant, PTL
=============================================================================
