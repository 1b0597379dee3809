------------------------------ MODULE Sources ------------------------------
(***************************************************************************)
(* The boot sources: discovering, mounting and unlocking block devices     *)
(* (kexec-menu-core/src/mount.rs) and reading the boot tree of a mounted   *)
(* one (build_source_tree, walk_boot_tree).                                *)
(*                                                                         *)
(* The kernel's side is external and modelled from how mount.rs uses it:   *)
(* which disks are there, what is mounted where, which LUKS containers are *)
(* open and which bcachefs keys the keyring holds.  None of it is ever     *)
(* undone by the program: it unmounts nothing and closes nothing.          *)
(*                                                                         *)
(* A filesystem over several devices is one disk here; how its members are *)
(* grouped and waited for is not modelled in this module.                  *)
(***************************************************************************)
EXTENDS BootSelect, Lists

CONSTANTS
    DiskOrder,   \* the disks with a filesystem on them, sorted by name
    Kind,        \* Kind[d]: "plain", "luks" or "bcachefs" (encrypted natively)
    BootTree     \* BootTree[d]: the leaves under boot/ of the filesystem on d

Disks == {DiskOrder[i] : i \in DOMAIN DiskOrder}

\* The names of the disks are distinct.
ASSUME DisksAssumption ==
    /\ DiskOrder \in Seq(Disks) /\ \A i, j \in DOMAIN DiskOrder : DiskOrder[i] = DiskOrder[j] => i = j
    /\ Kind \in [Disks -> {"plain", "luks", "bcachefs"}]

ASSUME BootTreeAssumption ==
    \A d \in Disks : BootTree[d] \in Seq([dir : STRING, name : STRING, mtime : Int, entries : Seq(STRING)])

VARIABLES
    plugged,   \* external: the disks that are there
    damaged,   \* external: the disks whose filesystem cannot be mounted
    statics,   \* external: the leaves of /etc/kexec-menu/static.json, if it can be read
    mounts,    \* external: the mount points in use
    opened,    \* external: the LUKS disks whose mapping exists, in order
    keyring    \* external: the bcachefs disks whose key was added

kernel == <<mounts, opened, keyring>>

IsOpened(d) == \E i \in DOMAIN opened : opened[i] = d

\* A block device: a disk, or the mapping of an open LUKS disk as /dev/dm-N.
\* unlock_and_mount mounts the same mapping under its /dev/mapper name.
Disk(d) == <<d, "disk">>
Dm(d) == <<d, "dm">>
Mapper(d) == <<d, "mapper">>

\* mount_ro mounts under /mnt/kexec-menu/<device name>, so a mount point is
\* named like the device.
NoMount == <<>>

\* A source as in types.rs; pass: a passphrase is stored in it.
Source(dev, state, mp, pass) == [dev |-> dev, state |-> state, mp |-> mp, pass |-> pass]

----------------------------------------------------------------------------
(* Mounting *)

\* bcachefs answers ENOKEY while its key is not in the keyring.
NeedsKey(dev) == dev[2] = "disk" /\ Kind[dev[1]] = "bcachefs" /\ dev[1] \notin keyring

\* mount(2) fails for a broken filesystem, and with EBUSY for one that is
\* already mounted on this very mount point.
CanMount(dev) == ~NeedsKey(dev) /\ dev[1] \notin damaged /\ dev \notin mounts

\* Mutant of SingleSource: the error number is not looked at.
SingleSourceAnyError(dev) ==
    IF CanMount(dev) THEN Source(dev, "Mounted", dev, FALSE)
    ELSE Source(dev, IF Kind[dev[1]] = "bcachefs" THEN "Encrypted" ELSE "Error", NoMount, FALSE)

\* discover_sources, a device that is not LUKS: mounted, locked or in error.
SingleSource(dev) ==
    IF CanMount(dev) THEN Source(dev, "Mounted", dev, FALSE)
    ELSE Source(dev, IF NeedsKey(dev) THEN "Encrypted" ELSE "Error", NoMount, FALSE)

LuksSource(d) == Source(Disk(d), "Encrypted", NoMount, FALSE)

Plugged(d) == d \in plugged
IsLuks(d) == Plugged(d) /\ Kind[d] = "luks"
IsSingle(d) == Plugged(d) /\ Kind[d] # "luks"

LuksDisks == Only(DiskOrder, {d \in Disks : IsLuks(d)})
SingleDisks == Only(DiskOrder, {d \in Disks : IsSingle(d)})

\* The devices that are mounted directly, sorted by name: dm-N, then the disks.
Singles ==
    [i \in 1..Len(opened) |-> Dm(opened[i])] \o [i \in 1..Len(SingleDisks) |-> Disk(SingleDisks[i])]

\* The sources discover_sources returns: LUKS containers first.
Discovered ==
    [i \in 1..Len(LuksDisks) |-> LuksSource(LuksDisks[i])]
        \o [i \in 1..Len(Singles) |-> SingleSource(Singles[i])]

\* ... and the mounts it leaves behind.
MountsDiscovered == mounts \cup {dev \in {Singles[i] : i \in DOMAIN Singles} : CanMount(dev)}

----------------------------------------------------------------------------
(* Unlocking *)

\* Mutants of Unlock: mount(2) is not asked whether it worked; cryptsetup is used
\* for either kind.
UnlockUnchecked(d, right) ==
    LET luks == Kind[d] = "luks"
        accepted == Plugged(d) /\ right /\ Kind[d] # "plain" /\ ~(luks /\ IsOpened(d))
        dev == IF luks THEN Mapper(d) ELSE Disk(d)
        mounted == accepted /\ d \notin damaged /\ dev \notin mounts
    IN  [opened |-> IF accepted /\ luks THEN Append(opened, d) ELSE opened,
         keyring |-> IF accepted /\ ~luks THEN keyring \cup {d} ELSE keyring,
         mounts |-> IF mounted THEN mounts \cup {dev} ELSE mounts,
         mp |-> IF accepted THEN dev ELSE NoMount]

UnlockAsLuks(d, right) ==
    LET accepted == Plugged(d) /\ right /\ ~IsOpened(d)
        mounted == accepted /\ d \notin damaged
    IN  [opened |-> IF accepted THEN Append(opened, d) ELSE opened,
         keyring |-> keyring,
         mounts |-> IF mounted THEN mounts \cup {Mapper(d)} ELSE mounts,
         mp |-> IF mounted THEN Mapper(d) ELSE NoMount]

\* What unlock_and_mount on disk d does with the right or a wrong passphrase: the
\* new state of the kernel and the mount point, or NoMount for an error.
\* cryptsetup open fails when the mapping exists; the mapping and the key stay
\* when the mount after them fails.
Unlock(d, right) ==
    LET luks == Kind[d] = "luks"
        accepted == Plugged(d) /\ right /\ Kind[d] # "plain" /\ ~(luks /\ IsOpened(d))
        dev == IF luks THEN Mapper(d) ELSE Disk(d)
        mounted == accepted /\ d \notin damaged /\ dev \notin mounts
    IN  [opened |-> IF accepted /\ luks THEN Append(opened, d) ELSE opened,
         keyring |-> IF accepted /\ ~luks THEN keyring \cup {d} ELSE keyring,
         mounts |-> IF mounted THEN mounts \cup {dev} ELSE mounts,
         mp |-> IF mounted THEN dev ELSE NoMount]

----------------------------------------------------------------------------
(* Boot trees *)

\* walk_boot_tree of <mount point>/boot.
Walk(mp) ==
    LET leaves == BootTree[mp[1]] IN
    [j \in DOMAIN leaves |->
        [path |-> <<mp, leaves[j].dir, leaves[j].name>>,
         mtime |-> leaves[j].mtime, entries |-> leaves[j].entries]]

\* build_source_tree: only a mounted source has a tree.
TreeOf(src) == IF src.state = "Mounted" /\ src.mp # NoMount THEN Walk(src.mp) ELSE <<>>

\* load_static_entries: a source and a tree of one leaf each.
StaticSources == [n \in DOMAIN statics |-> Source(statics[n].path, "Static", NoMount, FALSE)]
StaticTrees == [n \in DOMAIN statics |-> <<statics[n]>>]

AllSources == Discovered \o StaticSources
AllTrees == [i \in DOMAIN Discovered |-> TreeOf(Discovered[i])] \o StaticTrees

=============================================================================
