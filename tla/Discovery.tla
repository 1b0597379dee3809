----------------------------- MODULE Discovery -----------------------------
(***************************************************************************)
(* Finding the boot sources step by step (discover_sources of              *)
(* kexec-menu-core/src/mount.rs): listing the block devices, probing each, *)
(* grouping the members of filesystems over several devices, waiting for   *)
(* the members that are missing, and mounting.  Drives come and go while   *)
(* this runs.  Sources has the same as one step, for disks that stay.      *)
(*                                                                         *)
(* A drive is in a slot, with volumes in partitions or one volume on the   *)
(* whole of it; a drive without volumes is an empty reader, and so is an   *)
(* empty slot.  A block device is named by its slot and partition, 0 for   *)
(* the whole drive.  A volume is a member of a filesystem: [fs, is, marks, *)
(* says, sound, locked], where is tells what it is, marks what its         *)
(* superblocks look like, and says how many members it thinks there are.   *)
(* mount(2), btrfs device scan and sysfs are external.                     *)
(*                                                                         *)
(* What is probed is put into its group at once, where the code collects   *)
(* it and goes through it after the last device: nothing looks at the      *)
(* groups in between.                                                      *)
(***************************************************************************)
EXTENDS Integers, Sequences, FiniteSets

CONSTANTS
    Slots,        \* in the order of the devices' names
    Drives,       \* [parted, volumes]
    Starts,       \* which drives may be in which slots at the start
    Allowed,      \* the devices that the whitelist, if there is one, lets through
    Timeout,      \* MULTI_DEVICE_TIMEOUT_SECS
    MaxChanges    \* bound: drives that come or go meanwhile

VARIABLES
    plugged,                   \* external: the drive in each slot
    mounts,                    \* external: the devices that are mounted, on points of their names
    scanned,                   \* external: the devices btrfs was told of
    pc,
    devices,                   \* the devices that were listed and are not yet looked at
    groups, singles,
    missing, waited,           \* the filesystems that a round looks for, and the rounds
    sources,
    known, whole, left, changes    \* history: see below

disks == <<plugged, mounts, scanned>>
history == <<known, whole, left, changes>>
vars == <<disks, pc, devices, groups, singles, missing, waited, sources, history>>

NoDrive == [parted |-> FALSE, volumes |-> <<>>]

Volumes == [fs : STRING, is : STRING, marks : SUBSET STRING, says : Nat, sound : BOOLEAN, locked : BOOLEAN]

\* A drive is in one slot at a time, and without partitions it has one volume.
ASSUME ConstantsAssumption ==
    /\ Slots \subseteq Nat /\ IsFiniteSet(Drives)
    /\ Drives \subseteq [parted : BOOLEAN, volumes : Seq(Volumes)]
    /\ \A drive \in Drives : drive.parted \/ Len(drive.volumes) <= 1
    /\ Starts \subseteq [Slots -> Drives \cup {NoDrive}]
    /\ \A start \in Starts : \A s, t \in Slots : start[s] = start[t] => s = t \/ start[s] = NoDrive
    /\ Timeout \in Nat \ {0} /\ MaxChanges \in Nat

----------------------------------------------------------------------------
(* Devices *)

DevicesOf(slot, drive) ==
    IF drive.parted THEN {<<slot, k>> : k \in DOMAIN drive.volumes}
    ELSE IF drive.volumes = <<>> THEN {} ELSE {<<slot, 0>>}

PresentIn(slots) == UNION {DevicesOf(s, slots[s]) : s \in Slots}
Present == PresentIn(plugged)
HeldIn(slots, dev) == <<slots[dev[1]], IF dev[2] = 0 THEN 1 ELSE dev[2]>>
HeldBy(dev) == HeldIn(plugged, dev)
VolumeAt(held) == held[1].volumes[held[2]]
VolumeOf(dev) == VolumeAt(HeldBy(dev))

\* sort_by the name.
Before(d, e) == d[1] < e[1] \/ (d[1] = e[1] /\ d[2] < e[2])
First(S) == CHOOSE d \in S : \A e \in S \ {d} : Before(d, e)

\* Mutant of ProbeFsType: what a container held before is found first.
OldFirst == <<"xfs", "ext4", "f2fs", "bcachefs", "btrfs", "luks">>

FsTypes == <<"luks", "xfs", "ext4", "f2fs", "bcachefs", "btrfs">>

FirstMark(order, volume) ==
    LET found == {i \in DOMAIN order : order[i] \in volume.marks}
    IN  IF found = {} THEN "none" ELSE order[CHOOSE i \in found : \A j \in found : i <= j]

ProbeOldFirst(volume) == FirstMark(OldFirst, volume)

\* probe_fs_type: the first mark that is there.
ProbeFsType(volume) == FirstMark(FsTypes, volume)

\* read_multi_device_info; 0 for a filesystem on one device.
Members(volume) ==
    IF ProbeFsType(volume) = "btrfs" /\ volume.says > 1 THEN volume.says ELSE 0

----------------------------------------------------------------------------
(* Groups: group_multi_device and DeviceGroup *)

IsComplete(group) == Len(group.devices) >= group.expected
AllComplete(list) == \A i \in DOMAIN list : IsComplete(list[i])
GroupsOf(list, fs) == {i \in DOMAIN list : list[i].fs = fs}

\* A member joins the group of its filesystem, or is the first of a new one; it expects
\* as many as any of them says.
Joined(list, dev, volume) ==
    IF GroupsOf(list, volume.fs) = {}
    THEN Append(list, [fs |-> volume.fs, devices |-> <<dev>>, expected |-> Members(volume)])
    ELSE [i \in DOMAIN list |->
            IF list[i].fs # volume.fs THEN list[i]
            ELSE [list[i] EXCEPT !.devices = Append(@, dev),
                                 !.expected = IF @ < Members(volume) THEN Members(volume) ELSE @]]

\* Mutant of Merged: the members that are there already come again.
MergedAgain(list, dev, volume) ==
    [i \in DOMAIN list |->
        IF list[i].fs # volume.fs THEN list[i] ELSE [list[i] EXCEPT !.devices = Append(@, dev)]]

\* What a later look finds is added under names the group does not have.
Merged(list, dev, volume) ==
    [i \in DOMAIN list |->
        IF list[i].fs # volume.fs \/ \E k \in DOMAIN list[i].devices : list[i].devices[k] = dev
        THEN list[i] ELSE [list[i] EXCEPT !.devices = Append(@, dev)]]

----------------------------------------------------------------------------
(* Sources *)

NoMount == <<0, 0>>
Source(fs, dev, state) ==
    [fs |-> fs, device |-> dev, state |-> state, mount |-> IF state = "Mounted" THEN dev ELSE NoMount]

\* The members of a filesystem, wherever their drives are.
VolumesOf(fs) ==
    UNION {{<<drive, k>> : k \in {j \in DOMAIN drive.volumes : drive.volumes[j].fs = fs}} : drive \in Drives}

\* mount(2) of dev as type on the point of its name: needs a sound filesystem of that
\* type all of whose members the kernel was told of, and a point that is not in use.
KernelMounts(dev, type, told) ==
    /\ dev \in Present \ mounts
    /\ VolumeOf(dev).is = type /\ VolumeOf(dev).sound /\ ~VolumeOf(dev).locked
    /\ VolumesOf(VolumeOf(dev).fs) \subseteq {HeldBy(d) : d \in (told \cup {dev}) \cap Present}

Keep(source) ==
    /\ sources' = Append(sources, source)
    /\ mounts' = IF source.mount = NoMount THEN mounts ELSE mounts \cup {source.mount}

----------------------------------------------------------------------------
(* The program *)

Init ==
    /\ plugged \in Starts /\ mounts = {} /\ scanned = {}
    /\ pc = "enumerate" /\ devices = {}
    /\ groups = <<>> /\ singles = <<>> /\ missing = {} /\ waited = 0 /\ sources = <<>>
    /\ known = {} /\ whole = {} /\ left = {} /\ changes = 0

\* The filesystems of which a member is seen, and those of which all are.
Seen == {VolumeOf(dev).fs : dev \in Present \cap Allowed}
SeenWhole == {fs \in Seen : VolumesOf(fs) \subseteq {HeldBy(dev) : dev \in Present \cap Allowed}}

\* enumerate_block_devices
Enumerate ==
    /\ pc = "enumerate" /\ pc' = "probe"
    /\ devices' = Present
    /\ known' = Seen /\ whole' = SeenWhole
    /\ UNCHANGED <<disks, groups, singles, missing, waited, sources, left, changes>>

\* probe_all_devices, one device of it: a LUKS container is a source; a device that
\* is gone, that is not allowed or that has nothing known on it is passed over.
ProbeDevice ==
    /\ pc = "probe" /\ devices # {}
    /\ LET dev == First(devices)
           volume == VolumeOf(dev)
           type == IF dev \in Present \cap Allowed THEN ProbeFsType(volume) ELSE "none"
           member == type # "none" /\ Members(volume) > 0
       IN  /\ devices' = devices \ {dev}
           /\ sources' = IF type # "luks" THEN sources ELSE Append(sources, Source(volume.fs, dev, "Encrypted"))
           /\ groups' = IF member THEN Joined(groups, dev, volume) ELSE groups
           /\ singles' = IF member \/ type \in {"none", "luks"} THEN singles
                         ELSE Append(singles, [path |-> dev, type |-> type, fs |-> volume.fs])
    /\ UNCHANGED <<disks, pc, missing, waited, history>>

Pull(slot) ==
    /\ plugged' = [plugged EXCEPT ![slot] = NoDrive]
    /\ left' = left \cup {VolumeOf(dev).fs : dev \in DevicesOf(slot, plugged[slot])}
    /\ changes < MaxChanges /\ changes' = changes + 1

\* The drive goes after its type was read: the members cannot be read, and it is taken
\* for a filesystem on one device.
ProbeCut ==
    /\ pc = "probe" /\ devices # {}
    /\ LET dev == First(devices)
           volume == VolumeOf(dev)
       IN  /\ dev \in Present \cap Allowed /\ Members(volume) > 0
           /\ devices' = devices \ {dev}
           /\ singles' = Append(singles, [path |-> dev, type |-> ProbeFsType(volume), fs |-> volume.fs])
           /\ Pull(dev[1])
    /\ UNCHANGED <<mounts, scanned, pc, groups, missing, waited, sources, known, whole>>

\* Mutant of WaitEnds: it waits as long as something is missing.
WaitEndsComplete(list, rounds) == AllComplete(list)
WaitEnds(list, rounds) == AllComplete(list) \/ rounds = Timeout

\* There is a wait only if a group is incomplete.
ProbeEnds ==
    /\ pc = "probe" /\ devices = {}
    /\ pc' = IF AllComplete(groups) THEN "mount" ELSE "wait"
    /\ UNCHANGED <<disks, devices, groups, singles, missing, waited, sources, history>>

\* A second passes, and the devices are listed again.
Wait ==
    /\ pc = "wait" /\ pc' = "reprobe"
    /\ devices' = Present
    /\ missing' = {groups[i].fs : i \in {j \in DOMAIN groups : ~IsComplete(groups[j])}}
    /\ whole' = SeenWhole
    /\ UNCHANGED <<disks, groups, singles, waited, sources, known, left, changes>>

\* reprobe_for_groups, one device of it.
Reprobe ==
    /\ pc = "reprobe" /\ devices # {}
    /\ LET dev == First(devices)
           volume == VolumeOf(dev)
           relevant == dev \in Present \cap Allowed /\ Members(volume) > 0 /\ volume.fs \in missing
       IN  /\ devices' = devices \ {dev}
           /\ groups' = IF relevant THEN Merged(groups, dev, volume) ELSE groups
    /\ UNCHANGED <<disks, pc, singles, missing, waited, sources, history>>

\* Mutant of RoundEnds: a round after which something is missing does not count.
RoundEndsUncounted ==
    /\ pc = "reprobe" /\ devices = {}
    /\ waited' = IF AllComplete(groups) THEN waited + 1 ELSE waited
    /\ pc' = IF WaitEnds(groups, waited') THEN "mount" ELSE "wait"
    /\ UNCHANGED <<disks, devices, groups, singles, missing, sources, history>>

RoundEnds ==
    /\ pc = "reprobe" /\ devices = {}
    /\ waited' = waited + 1
    /\ pc' = IF WaitEnds(groups, waited') THEN "mount" ELSE "wait"
    /\ UNCHANGED <<disks, devices, groups, singles, missing, sources, history>>

\* mount_group_ro, mount_btrfs_group: every member is scanned up to the first that
\* fails, and the first is mounted; an incomplete group is not tried.
MountGroup ==
    /\ pc = "mount" /\ groups # <<>> /\ groups' = Tail(groups)
    /\ LET group == Head(groups)
           first == group.devices[1]
           told == {group.devices[i] : i \in {j \in DOMAIN group.devices :
                                                \A k \in 1..j : group.devices[k] \in Present}}
           mounted == /\ IsComplete(group) /\ \A k \in DOMAIN group.devices : group.devices[k] \in Present
                      /\ KernelMounts(first, "btrfs", scanned \cup told)
       IN  /\ scanned' = IF IsComplete(group) THEN scanned \cup told ELSE scanned
           /\ Keep(Source(group.fs, first, IF mounted THEN "Mounted" ELSE "Error"))
    /\ UNCHANGED <<plugged, pc, devices, singles, missing, waited, history>>

\* mount_ro of the filesystems on one device; bcachefs without its key is locked.
MountSingle ==
    /\ pc = "mount" /\ groups = <<>> /\ singles # <<>> /\ singles' = Tail(singles)
    /\ LET single == Head(singles)
           dev == single.path
           locked == dev \in Present /\ single.type = "bcachefs" /\ VolumeOf(dev).is = "bcachefs" /\ VolumeOf(dev).locked
       IN  Keep(Source(single.fs, dev, IF KernelMounts(dev, single.type, scanned) THEN "Mounted"
                                       ELSE IF locked THEN "Encrypted" ELSE "Error"))
    /\ UNCHANGED <<plugged, scanned, pc, devices, groups, missing, waited, history>>

Return ==
    /\ pc = "mount" /\ groups = <<>> /\ singles = <<>> /\ pc' = "done"
    /\ UNCHANGED <<disks, devices, groups, singles, missing, waited, sources, history>>

Program ==
    \/ Enumerate \/ ProbeDevice \/ ProbeEnds \/ Wait \/ Reprobe \/ RoundEnds
    \/ MountGroup \/ MountSingle \/ Return

----------------------------------------------------------------------------
(* Drives come and go *)

Plug(slot, drive) ==
    /\ pc # "done" /\ plugged[slot] = NoDrive /\ \A s \in Slots : plugged[s] # drive
    /\ plugged' = [plugged EXCEPT ![slot] = drive]
    /\ changes < MaxChanges /\ changes' = changes + 1
    /\ UNCHANGED <<mounts, scanned, pc, devices, groups, singles, missing, waited, sources, known, whole, left>>

Unplug(slot) ==
    /\ pc # "done" /\ plugged[slot] # NoDrive /\ Pull(slot)
    /\ UNCHANGED <<mounts, scanned, pc, devices, groups, singles, missing, waited, sources, known, whole>>

Next ==
    \/ Program \/ ProbeCut
    \/ \E slot \in Slots : Unplug(slot) \/ \E drive \in Drives \ {NoDrive} : Plug(slot, drive)

Spec == Init /\ [][Next]_vars /\ WF_vars(Program)

----------------------------------------------------------------------------
(* Properties *)

TypeOK ==
    /\ plugged \in [Slots -> Drives \cup {NoDrive}]
    /\ pc \in {"enumerate", "probe", "wait", "reprobe", "mount", "done"}
    /\ waited \in 0..Timeout /\ changes \in 0..MaxChanges
    /\ \A i \in DOMAIN singles : singles[i].type \in {"xfs", "ext4", "f2fs", "bcachefs", "btrfs"}
    /\ \A i \in DOMAIN sources : sources[i].state \in {"Mounted", "Encrypted", "Error"}

\* The filesystems of which a device was there at the start and no device went.
Steady == known \ left
VolumeOfFs(fs) == VolumeAt(CHOOSE v \in VolumesOf(fs) : TRUE)

\* What is there to be found: a type that the marks tell, as a LUKS header does
\* whatever is behind it; on one device unless it is btrfs, whose members agree, and
\* agree with the facts, on how many they are.
Legible(fs) ==
    LET volume == VolumeOfFs(fs) IN
    /\ \E i \in DOMAIN FsTypes : FsTypes[i] = volume.is
    /\ volume.marks = {volume.is} \/ (volume.is = "luks" /\ "luks" \in volume.marks)
    /\ volume.locked => volume.is \in {"luks", "bcachefs"}
    /\ IF volume.is = "btrfs"
       THEN /\ \A v \in VolumesOf(fs) : VolumeAt(v) = volume
            /\ volume.says = Cardinality(VolumesOf(fs))
       ELSE \A v, w \in VolumesOf(fs) : v = w

\* The states that are right: a filesystem was whole when the devices were listed last,
\* or it never was, or it became so in between.
StatesFor(fs) ==
    LET volume == VolumeOfFs(fs) IN
    IF volume.is = "luks" \/ volume.locked THEN {"Encrypted"}
    ELSE IF volume.sound /\ fs \in whole THEN {"Mounted"}
    ELSE IF volume.sound /\ fs \in SeenWhole THEN {"Mounted", "Error"}
    ELSE {"Error"}

\* Whatever else comes and goes meanwhile, a filesystem that was there is reported as
\* one source, in the state it is in: a member that appeared before the last look made
\* it whole, and one that is still missing makes it an error.
SteadyIsReported ==
    pc = "done" =>
        \A fs \in {f \in Steady : Legible(f)} :
            /\ Cardinality({i \in DOMAIN sources : sources[i].fs = fs}) = 1
            /\ \A i \in DOMAIN sources : sources[i].fs = fs => sources[i].state \in StatesFor(fs)

\* A group is taken for complete only with as many devices as are expected: a device
\* that is looked at again does not count again.
CompleteHasAll ==
    \A i \in DOMAIN groups :
        IsComplete(groups[i]) =>
            Cardinality({groups[i].devices[k] : k \in DOMAIN groups[i].devices}) >= groups[i].expected

\* The menu appears, whatever is missing and whatever comes and goes.
Ends == <>(pc = "done")

=============================================================================
