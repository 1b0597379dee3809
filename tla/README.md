# kexec-menu: specification and verification

TLA+ models of [kexec-menu](../src/README.md), a boot menu that runs as the
init process of a small Linux image, finds boot entries on the machine's
filesystems, and starts the chosen one with kexec; and of the NixOS script that
puts those entries there. TLC checks the models on small instances
(`tlc -config X.cfg MCM`), TLAPS checks the proofs (`tlapm M.tla`).

Paths without a directory are under `src/`; `core/` stands for
`src/crates/kexec-menu-core/src/`, `main.rs` for
`src/crates/kexec-menu/src/main.rs`.

## The system

    nixos-rebuild                      power on
         |                                |
    installer script  -- disk: -->  menu: discover, mount, read trees
    (modules/nixos.nix)  leaves,          |  resolve default  <-- EFI variable
                         mtimes           |  countdown / keys <-- stdin, evdev
                                          |  unlock, rescan, browse
                                          v
                               kexec_file_load, write EFI variable, reboot

| Component | State | Operations | Correct when |
|---|---|---|---|
| Installer script, `modules/nixos.nix` | leaf directories `<boot>/nixos/<hash>` with blobs, `entries.json`, mtime; the UKI | copy blobs, write entries, touch, prune, copy UKI | whenever it stops, what the menu lists is bootable; the prune takes the oldest; the menu has no newer leaf than the finished one |
| Default selection, `core/select.rs` | none (a function of trees and EFI variable) | `resolve_default` | agrees with `docs/spec.md:83-88` |
| Sources, `core/mount.rs` | the kernel's mounts, mappings, keyring; the list of sources | enumerate, probe, group, wait, mount, unlock | a filesystem is one source, in its state, whatever else comes and goes; one shown as mounted is mounted, one shown as locked can be opened |
| Boot trees, `core/tree.rs` | none | walk, parse, static entries | a leaf for every whole entries.json, none for a cut or a wrong one |
| Menu session, `main.rs`, `core/tui.rs` | sources, trees, view, side screen, in parallel | start, countdown, keys, boot | the parallel structures agree; the key handed over belongs to the leaf booted |
| Input, `main.rs` `InputMux`, `core/tui.rs` `read_key`, `core/evdev.rs` | a byte buffer, the kernel's queues | poll, read, translate | every key read once, as what it is; no device starved but by keys that come first; a countdown that boots was not touched |
| Tree view, `core/tui.rs` `TreeView` | nodes, expanded, visible, cursor | build, move, toggle | visible nodes are those under expanded ancestors; what Enter asks for is what is under the cursor |
| Kexec, `core/kexec.rs` | loaded kernel, EFI variable, key archive | load, write variable, exec | what runs is what was chosen, with its key; what failed to load is not remembered |
| Init, `uki/initrd/init` | none | run the menu, else shell or reboot | some way to boot remains |

They interact through the disk (installer to menu, by leaf contents and mtimes),
the EFI variable (one session to the next), calls and shared vectors inside the
one-threaded menu (indices into `sources` kept in the view and on side screens),
and the kernel (mounts, mappings, queues of input), which the program changes
and never cleans up.

What is hard here: a stop of the installer between any two file operations; two
copies of one list kept by index while keys rebuild one of them; a rescan over
devices already mounted; unlocking that fails half-way; bytes of one key read in
several reads from several descriptors; a countdown racing with keys; drives that
come and go between listing, probing and mounting; files read while they are half
written; a boot that fails after any of its steps, and what the next boot makes of
it.
`PROJECT.json` lists these hazards at their lines.

## Modules

| Module | Models | Notes |
|---|---|---|
| `Installer` | `modules/nixos.nix:13-103` | one action per file operation; `Stop` between any two |
| `InstallerProofs`, `BootSelectProofs`, `MenuProofs`, `InputProofs`, `TreeViewProofs`, `OutlineProofs`, `DiscoveryProofs`, `BootProofs` | | theorems about the module each is named for (`TreeViewProofs`: `NodeList` as well) |
| `Lists` | | taking the elements of a set out of a sequence (lemmas about it are in `MenuProofs`) |
| `BootSelect` | `core/select.rs:14-87` | and the document's rules, as a relation |
| `Sources` | `core/mount.rs` discovery as one step, mounting, unlocking | extends `BootSelect` and `Lists` |
| `Menu` | `main.rs` `run`, `run_tui`; key handlers of `core/tui.rs` | extends `Sources` |
| `Input` | `main.rs` countdown and `InputMux`, `core/tui.rs` `read_key`, `core/evdev.rs` | |
| `BootTree` | `core/tree.rs`: parsers, walk, static entries | functions only |
| `Disks` | `main.rs` `build_source_tree` for every source, and the static ones | what is on the disks, and the trees that `BootTree` reads from it |
| `Outline` | | what a tree view promises: the abstract specification of `NodeList` |
| `NodeList` | `core/tui.rs` `TreeView` and `handle_tree_view_key`: the keys | on lists that are given |
| `TreeView` | `core/tui.rs` `TreeView::build` | builds the lists for `NodeList`, from trees that are given |
| `DiskView` | | `TreeView` with the trees of `Disks`, and what relates the two |
| `Discovery` | `core/mount.rs` `discover_sources`, step by step | |
| `Boot` | `core/kexec.rs`, `main.rs` around it, `uki/initrd/init` | extends `BootSelect` |
| `MCInstaller`, `MCMenu`, ... | | instances for TLC |

How they fit: `Discovery` refines the one step with which `Sources` finds what there
is, for disks that come and go; `BootTree` what `Sources` takes as given boot trees;
`DiskView` puts what the parsers read into the view;
`NodeList` the choice of any entry in `Menu`; `Input` the choice between the
countdown's two ends; `Boot` what follows when `Menu` ends in a boot, and what of
it the next session starts from. The refinement of `Outline` by `NodeList` is
checked, and proved; the others are by construction of the interface (the same records
and guards) and are not.

Definitions called a mutant in their comment are not part of the specification:
each stands for a plausible bug in the definition named, and shows that the
property it is paired with in `PROJECT.json` notices it.

### Installer

A *system* is what is installed, its *leaf* the directory of its hash. `dir`,
`blob`, `json`, `times` and `uki` are the disk. A file is absent, partial (open
for writing, or writing stopped) or whole. `cp` is two steps (`OpenBlob`
truncates, `FillBlob` ends), `entries.json` likewise; `rm -rf` removes file by
file in any order, then the directory; creating or removing a file stamps its
directory, writing into an existing one does not. `SkipBlob` is the `cmp` of the
copy strategy. `Stop` is a power loss or a failing command (the script runs with
errexit); the next `Begin` may install any system with either strategy. Blob
contents are the same for the same system, since the leaf is named after the
store path. File data that was written and not synced is taken to survive.

Time is kept twice. The prune sorts what `find` prints, with the fraction of the second,
and there no two stamps are alike: `mtime` and `clock` number them. The menu takes whole
seconds (`as_secs`, `core/tree.rs:226`): `second` and `now`, and from one stamp to the next
a second may begin or not, so that any number of stamps, and of runs of the script, may
fall into one second. `Newest` is what the menu finds no leaf newer than.

Two ghosts: `runs` bounds how often the script starts; `exposed` are leaves that
a prune or a reflink copy has been working on since they were last whole: the
exception that `ListedIsBootable` has to make, and the only one.

### Sources and Menu

Sources are a sequence, LUKS containers first, as `discover_sources` returns
them. The kernel's side (`mounts`, `opened`, `keyring`) is external and modelled
from its use: mounting fails with EBUSY on a mount point where the same
filesystem is mounted, bcachefs asks for its key (ENOKEY), `cryptsetup open`
fails when the mapping exists. Nothing is ever unmounted or closed. A mount
point is named like the device, so `<<d, "disk">>` names both.

`Menu` has the phases start, countdown, menu and ended, and one action per key
that does something on each screen, each the whole handler: `SubmitOpens` is
unlocking with everything that is rebuilt after it. Start runs through discovery,
trees, static entries, the default and the view, since nothing else runs in
between. The view keeps the state of each source node, the trees and the
default; cursor and expansion are abstracted by letting any node be chosen,
since any can be reached. `result` records what `run` does with the outcome and,
in `by`, whether a user chose it. `KeyData` may always be nothing: the lookup
under `/dev/disk/by-uuid` depends on udev, which is not running.
`DefaultIsLocked` is translated as it is written and is never true: a locked
source has no entry nodes.

Disks may be plugged and unplugged at any time while the menu runs, may be
damaged (the filesystem is recognized and cannot be mounted), and the right or
a wrong passphrase may be typed.

### Input

`line`, `tty` and `events` are the kernel's queues. A key typed is 1 or 3 bytes
that reach stdin in pieces of any size; a press on a device is one event; a
keyboard of the machine does both. The countdown looks at the queues with
`poll`; reading is one action per `read` the code makes: from the buffer, from
stdin, or by polling the devices (`ready` is the set `poll` returned, which the
code goes through in order while the world moves on). `got` is what `read_key`
has so far. `sent`, `due` and `delivered` are histories for the properties: what was put
in at each place, the keys among it that `read_key` is to return, and what it did
return, by the place its bytes are of, or by `Several` when they are of more than one.
The countdown here refines the choice between `CountdownExpires` and
`CountdownCancelled` in `Menu`. A device may be pulled out: what was not read of it
is lost, and `poll` reports it ever after, which the loop never deals with; it also
cancels the countdown, as does any event that is no key. Of these there is no end in the
menu (`Stir`: a mouse that moves); keys are limited by `MaxKeys`.

### BootTree, Disks, Outline, NodeList, TreeView, DiskView

A JSON file is a sequence of tokens, so that a file can be cut after any of them; a
string is one token, or `Broken`. The parsers, the walk and the list of static
entries are functions. Directories are records with their subdirectories in order;
a directory may be unreadable.

`Outline` is a tree of open and shut nodes with a cursor. `NodeList` has what the
code has: a list of nodes with depth, `expanded` and `visible`, a scan that
recomputes `visible` after every change, and walks backwards to find the parent, the
leaf or the source of a node. Which lists there are is a constant of it, `Views`, with
`BuiltAssumption` for what the keys need of them. `TreeView` has `TreeView::build` and
makes `BuildViews` of trees that are given: `Given` for each layout, with `Trees` all
trees that occur in these and `Height` how deep they are, since trees are finite. `Disks`
has what is on the disks, and reads the trees from it; `DiskView` has both, and
`WholeLeavesShown`, which is about both. In the run `treeview` the constants are what
`Disks` reads and what `TreeView` makes of it. The modules are apart because parsers want
recursive operators, which nothing can be proved about; `tree_contains_path` and
`add_tree_nodes` are recursive functions over `Trees`. `NodeList` implements `Outline`:
the refinement mapping gives every node of the list its place, from the depths alone,
and takes the expanded nodes for the open ones. `ImplementsOutline` then says that the
scan, the walks and the cursor's corrections do what the tree calls for. `Rebuild` is a
rescan or an unlock that brings another layout.

### Discovery

Drives are in slots that name their devices; a drive has volumes, and a volume is a
member of a filesystem, with the marks its superblocks leave and how many members it
thinks there are. Each device is probed in a step of its own (`ProbeDevice`); each
second of waiting is a `Wait`, which lists the devices again and notes which
filesystems are `missing` members, then a `Reprobe` per device, and `RoundEnds`. Each
group and each single is mounted in one step. `Plug` and `Unplug` may come between any
two, and `ProbeCut` inside one. What is probed joins its group at once, where the code
groups after the last device; nothing reads the groups in between. What the kernel
assembles at a mount is `KernelMounts`. `known`, `whole` and `left` are histories: what
was there when devices were listed first, which filesystems had all their members when
they were listed last, which lost a device. A filesystem that is `Steady` is reported in
a state of `StatesFor`: what was whole at the last listing is mounted, what never was is
an error, and what became whole after that listing may be either.

### Boot

From a choice to the reboot: `OpenFiles`, `WriteSome` (a `write` of any length),
`Written`, `KexecFileLoad`, `Remember`, `KexecExec`, each of which may fail, and
what `run` and the init script do then. `PowerLoss` may come at any step,
`SystemReboots` after a success, with other trees on the disks if something was
installed. A file is a sequence of bytes of which only the number and the origin
count. `efi` is the variable as efivarfs keeps it, `ReadEfi` what is read of it.
`last` and `kexeced` are histories.

## Runs

| Run | Shows |
|---|---|
| `installer` | 1 765 739 states: `ListedIsBootable`, `FinishedIsPicked`, `PruneTakesOldest`, `BystandersUnharmed`, `LastLeafLostOnlyByReinstall` under stops at every step |
| `installer_crash` | violation: a stop inside the prune makes a half-removed leaf the default (`nixos.nix:84`, `:94`) |
| `menu` | 680 192 states: `ViewMirrorsSources`, `SideNamesItsSource`, `KeyBelongsToLeaf`, `ShownIsMounted`, `LockedOpens`, `UnattendedFollowsSpec` over whole sessions |
| `menu_refresh` | violation: rescanning loses what is mounted (`main.rs:431`, `docs/spec.md:109`) |
| `input` | 929 016 states: `AutobootOnlyUntouched`, `CountdownTakesItsTime`, `FaithfulPerDevice`, `DevicesAreRead` |
| `input_twice` | violation: a console keyboard is read twice (`core/evdev.rs:51`) |
| `treeview` | 13 565 states: `VisibleAreUnfolded`, `CursorIsShown`, `RequestIsOfCursor`, `WholeLeavesShown`, `DefaultUnderCursor`, `ImplementsOutline` |
| `discovery` | 238 661 states: `SteadyIsReported`, `CompleteHasAll`, `Ends` while drives come and go |
| `boot` | 393 781 states: `RunsWhatWasChosen`, `RememberedWasLoaded`, `IntactEntryBoots`, `UnattendedStays`, `EveryAttemptEnds` over three starts |
| `boot_efi` | violation: the EFI variable is written once and never again (`core/kexec.rs:124`, `docs/spec.md:83`) |
| `boot_key` | violation: behind an initrd whose length is no multiple of four the key archive is lost (`core/kexec.rs:267`, `docs/spec.md:116`) |
| `boot_bare` | violation: files from the browser and static entries without an initrd cannot be loaded (`core/kexec.rs:330`, `docs/spec.md:71`, `core/tree.rs:252`) |

Further deviations that the models have, without a run of their own:

- the countdown polls once more than it has seconds: 6 s for 5, 200 ms for 0
  (`main.rs:332`, `nixos.nix:174-176`); `CountdownTakesItsTime` has the bounds;
- a rescan resolves the view's default without the EFI variable, and an unlock uses
  the one of the start (`main.rs:445`, `:479`, `docs/spec.md:83-91`);
- Escape typed at a terminal leaves `read_key` waiting for two more bytes
  (`core/tui.rs:32`, `:744`);
- any event, a key's release or a pulled device too, cancels the countdown, "unless
  a key is pressed" (`nixos.nix:174`);
- the menu compares whole seconds, so a leaf stamped earlier within the second in which
  the installer touches the new one is as recent; then the last name is picked if there
  is an EFI variable and the first if not, which need not be the leaf of which
  `nixos.nix:84` says "Touch mtime so the bootmenu picks this as most recent" (`core/tree.rs:226`,
  `core/select.rs:47`, `:67`); `FinishedIsPicked` says that there are no other ties;
- of an `entries.json` the parser takes a field that is there again, with its last value
  (`core/tree.rs:70`), and whatever follows the array (`:35`), where a comment has
  "exactly four string fields" and "We parse only this shape" (`:7-9`); `Disks` has files
  of both kinds, and `IsWhole` counts them as whole;
- keys that never pause, on stdin or on the first devices, starve the devices behind them
  (`main.rs:771`, `:787`); `DevicesAreRead` has the pause as its premise;
- directories of stopped installer runs take places of the retention
  (`nixos.nix:89`, `:121`);
- bcachefs over several devices is never grouped, and so never mounted degraded, as
  a comment has it (`core/mount.rs:303-309`, `:768`).

**Bounds.** Installer: three systems with one entry (two blobs) each and a
retention of two, so that the third install prunes one and keeps one beside the
target; four starts of the script, so that runs that stopped can precede others
that work on what they left, and a fourth comes back to a leaf that is there,
half there or gone. A second begins at most twice, so that leaves can be of the same
second, of the next, and of the one before, whichever of them the script works on. Both
strategies, in any order; leaves are interchangeable
(symmetry; no temporal formula but action properties is checked there). Menu: one
disk of each kind, two equal mtimes, a leaf without entries, the newest leaf on
a locked disk, remembered selections on each kind of source, one the trees do
not have; the file browser one level deep. Sessions are not bounded in length.
Input: a timeout of two seconds, so that the countdown has a first, middle and
last poll; three keys in all, enough for one key's bytes to be cut by another's
and a third to follow; two devices, so that the second can wait for the first, and
either or both may be pulled out; events that are no keys come to a device in the menu
whenever none waits there (`MaxWaiting`), for ever, so that there is one at every poll and
a key may be behind it.
Tree view: an `entries.json` cut after each of its tokens, wrong in eight ways, and odd in
three (a field twice, a bracket or an object behind the array), beside whole leaves; sources in each
state, one and two static entries in one directory, defaults that are there, gone and of another source; up to two levels of
directories, so that a scan can leave two collapsed levels at once. Discovery: a pool
of two members, one of them on a drive with another filesystem, a LUKS container with
an old superblock, a damaged and a locked filesystem, in three slots, so that a drive
may wait for another's slot; two seconds of waiting instead of five (a first and a
last round) and three changes (a member may go and come, or move, and another drive
too). Boot: three starts,
so that what the first remembers decides the second and what the second leaves
decides the third; files of zero to six bytes, so that a write can be cut anywhere
and lengths differ modulo four; ties, siblings, leaves installed meanwhile, a leaf
with two entries, an entry without a name.

**Deadlock** is not checked: an installation ends, a session ends, after `MaxKeys`
keys the menu waits for more, discovery returns, a shell is left to its user. In
`treeview` the session ends when an entry is booted.

**Fairness.** `Input`: the program runs when there is something to read or a poll
times out (it is the only thread and blocks nowhere else), and the tty layer passes
on what it has; that keys pause is not assumed, but is the premise of `DevicesAreRead`.
`Discovery` and `Boot`: the program goes on (weak fairness of its
steps as one; a device that hangs in a read is left out). Nothing is assumed of the
user, of drives, of failures or of the power. The other modules have safety
properties only.

**Assumptions checked by the properties.** `ListedIsBootable` excepts `exposed`
leaves; `FinishedIsPicked` leaves open which leaf the menu picks among those last stamped
within the second of the touch, and says that all others of these were stamped before it;
`DevicesAreRead` is about devices before which it gets `Quiet`: from some time on no byte
at stdin and no key at a device opened earlier. In the run this comes true, as there are
`MaxKeys` keys; what may go on for ever, and is not part of the premise, are events that
are no keys, at any device, and devices that are gone. `WholeLeavesShown` takes for whole
what has each field at least once and no other; `FaithfulPerDevice` is about histories without a lone ESC on stdin and
without a key whose bytes came from two descriptors; `LockedOpens` excepts a
container whose mapping is open already; `SteadyIsReported` is about filesystems of
which a device was there from the listing on and none went, and whose superblock is
not under another's; `DefaultUnderCursor` about defaults that name one entry;
`UnattendedStays` about trees in which no two leaves are equally new (with ties the
code takes the first leaf without a variable and the last sibling with one, and so
may alternate). The exceptions are what the code does
wrong or cannot prevent; the properties say there are no others.

## Proofs

`InstallerProofs` proves, for every finite set of systems, every positive number
of entries and retention, any number of runs:

| Theorem | States |
|---|---|
| `InstallerInvariant` | `IInv` is invariant |
| `InstallerTypeCorrect` | `TypeOK` |
| `InstallerListedIsBootable` | `ListedIsBootable` |
| `InstallerPruneTakesOldest` | `PruneTakesOldest` |
| `InstallerFinishedIsPicked` | `FinishedIsPicked` |
| `InstallerBystandersUnharmed` | `BystandersUnharmed`, an action property |
| `InstallerLastLeaf` | `LastLeafLostOnlyByReinstall`, an action property |

None of the safety properties is inductive. `IInv` adds: times are below the
clock, no two leaves share one, and seconds never go back while the numbers go on
(`TimesOrdered`: what was stamped later is of the same second or a later one, so that what
is last for the prune is among the newest for the menu); there are no files outside an existing directory (`NothingOutside`);
from its first step on the script's target has a directory that is not among the
victims (`TargetStands`); the blobs before `next` are whole (`CopiedSoFar`, which
is why entries.json comes to stand beside whole blobs); after the copy the leaf
is whole (`WrittenIsWhole`); and in and after the prune the target is newer than
every leaf that is kept (`NewestOfKept`). `PruneTakesOldest` needs a cardinality
argument: a leaf with at least `Retention` newer ones is not the newest. The
proof that a step preserves `IInv` has a lemma per action, and in it a step per
conjunct that the action can disturb.

`InputProofs` proves, for any number of devices and keyboards, any keys of the alphabet
and any timeout:

| Theorem | States |
|---|---|
| `CountdownInvariant` | `CInv` is invariant |
| `BootsOnlyUntouched` | `AutobootOnlyUntouched` |
| `BootsInTime` | `CountdownTakesItsTime` |
| `InputTypeOK` | `TypeOK` |
| `ReadingInvariant` | `FInv` is invariant |
| `InputFaithful` | `FaithfulPerDevice` |

A poll sees what is to be read at that moment, and `AutobootOnlyUntouched` speaks of
all that was ever sent. `CInv` bridges the two: while the countdown runs, a device of
which nothing is to be read has sent nothing, or is gone (`NothingRead`), and `gone` is
what poll notices as well. `ClockRuns` ties the time waited to the loop variable.
`InputTypeOK` has the bound that is not obvious: a translated key leaves at most two
bytes in `InputMux.buf` and `read_key` holds at most two, since what is handed out is
never more than what a key still takes (`WantedIsSmall`, `AcceptKeeps`).

`InputFaithful` is about what was read, and `FInv` about what is still under way. The keys
due from stdin and not yet returned are spelt, one after the other, by the bytes
`read_key` has, those of the console and those on their way to it (`StdinOK`); the keys
due from a device are held by its events, but for one of which the first byte is in
`read_key` and the rest in the buffer (`DeviceOK`, `HandOK`). `Spells` says where in the
bytes each key ends and `Holds` how many keys there are up to each event, by functions that
exist, and so a key or an event more, or one less, is a step and no induction
(`SpellsMore`, `SpellsLess`, `HoldsMore`, `HoldsLess`). An ESC of stdin may be followed by
bytes of a device; that the key will be of `Several` shows in `delivered` only when its
last byte has come, and until then `GotMixed` stands in for the rest of the invariant. The
step that needs all of it is `ReadStdinKeeps`: that what `read_exact` was given is a whole
key follows from where the key ends and from how many bytes were asked for.

`OutlineProofs` proves `OutlineKeepsCursor`: in a tree of any size and depth, whatever
is opened, shut, moved over and replaced, the cursor is on a node that is there and
shown. `CursorIsShown` of `Outline` is inductive given two facts about places: a node is
not above itself (a node that is shut does not hide the cursor on it), and what is above
the parent is above the child (Left).

`TreeViewProofs` proves the same and more of the list the code keeps, for lists of any
length and depth, and of `TreeView::build`, which makes them:

| Theorem | States |
|---|---|
| `NodeListInvariant` | `LInv` is invariant |
| `NodeListTypeOK` | `TypeOK` |
| `NodeListVisible` | `VisibleAreUnfolded` |
| `NodeListCursor` | `CursorIsShown` |
| `NodeListRequest` | `RequestIsOfCursor` |
| `ToggleKeepsCursor` | opening or shutting a node does not move the cursor, an action property |
| `NodeListImplements` | `ImplementsOutline`, the refinement |
| `BuildAssures` | what `BuiltAssumption` assumes holds of all that `TreeView::build` makes |
| `BuildShowsDefault` | a view that was built shows its default under the cursor |
| `TreeViewDefault` | `DefaultUnderCursor` |

`CursorIsShown` alone is not inductive, for a toggle recomputes every flag: `LInv` adds
that the flags are right before (`VisibleAreUnfolded`) and that the list is still one that
could have been built (`IsView`: sources at depth 0, entries behind their leaf and
childless). The argument is `ScanIsRight`: what `recompute_visibility` remembers at a node
is the depth of the outermost collapsed node around it, and nothing if there is none; by
the first node of which that is not so. From it `RecomputedView` has that a node is
flagged visible just when all nodes above it are expanded. As a toggle changes nothing
above its own node, the cursor stays shown, and `ensure_cursor_visible` has nothing to do
(`ToggleKeepsCursor`; "shouldn't happen for toggle" says `core/tui.rs:510`).
`RequestIsOfCursor` is about walks backwards: `LeafOfEntry` and `SourceOfNode` show that
the nearest leaf, or source, before a node is the one it is in.

`NodeListImplements` takes each action of the list to one of `Outline`
(`MoveDownIsDown`, `ToggleIsOpenOrShut`, `CollapseIsShutOrOut`, `EnterEntryIsBoot` and
their like). The list knows depths and indices, the outline places; the bridge is four
lemmas about `PlacesOf`: a place is as long as its node is deep (`PlacesArePlaced`), the
list has the nodes in the order of their places and no two in one place
(`ListedInOrder`), the ancestors of a place are the places of the nodes above
(`AncestorsAre`), and a place begins with the number of the source (`FirstIsSource`).
They rest on inductions along the list, by the first node of which it is not so. Then
"the next visible node" is `Down`'s least shown place after the cursor's, and what
`collapse` finds walking backwards is the parent (`OuterIsParent`). `Rebuild` is the
outline's `Show`, which says no more than that some tree is shown properly: which one is
for `TreeView`.

The theorems named after `NodeList` are about any lists that satisfy `AreBuilt`, and
assume it of `Views`. `BuildAssures` proves it of `BuildViews`, for any source states, any
boot trees and any default, so with `Views = BuildViews`, as in the run, the assumption is
a theorem. What `tree_contains_path` and `add_tree_nodes` compute is known only once there
are functions that satisfy their equations: `ContainsExists` and `AddExists` construct them
for trees less than n deep, by the least n for which there were none, and `Flattened` does
the same along the list for the appending of siblings. `IsForest` is what `add_tree_nodes`
keeps of every list it makes: nodes go one deeper at a time and entries come behind their
leaf, all that the default's leaf is in is expanded (`OpensWanted`), and nothing is marked
but an entry of the default's name behind the default's leaf (`MarksWanted`). `Counted` is
what `build` adds: sources numbered in order, entries with the number of theirs. Both
are kept by putting one list behind another (`ForestJoined`, `CountedJoined`), so
`TreeNodes` has them of any tree, by its height, and `SourcesFlattened` of any number of
sources. `RecomputedTwice` shows that the flags are those the keys would compute.

`BuildShowsDefault` is what these were for. If one entry is marked and one leaf has the
default's path (`Unambiguous`), then the leaf stands before the entry with entries only in
between, so the nodes above the entry are the leaf and those above it; these are expanded,
and their source is, since the source that `build` opens is the first that has the path
(`DefaultSourceHas`) and there is only one. Hence the entry is visible, the cursor is put
on it, and `boot_default`, walking back from it, finds that leaf.

`BootSelectProofs` is about `resolve_default` as a function, for any trees and any EFI
variable:

| Theorem | States |
|---|---|
| `SelectionAllowed` | what it selects is what the rules of `docs/spec.md:83-88` allow |
| `SelectionIsThere` | what it selects is an entry of the trees it was given |
| `SelectionStays` | without ties, what was selected and is remembered is selected again |

The first newest leaf and the last newest sibling exist because places are pairs of
numbers (`FirstOfType`, `LastOfType`) and finitely many (`PlacesFinite`).

`MenuProofs` proves every property of the run `menu`, for any set of disks of any kinds,
any boot trees on them, any static entries, any EFI variable and any depth of the file
browser:

| Theorem | States |
|---|---|
| `MenuInvariant` | `MInv` is invariant |
| `MenuTypeOK` | `TypeOK` |
| `MenuViewMirrorsSources` | `ViewMirrorsSources` |
| `MenuSideNamesItsSource` | `SideNamesItsSource` |
| `MenuKeyBelongsToLeaf` | `KeyBelongsToLeaf` |
| `MenuShownIsMounted` | `ShownIsMounted` |
| `MenuLockedOpens` | `LockedOpens` |
| `MenuUnattendedFollowsSpec` | `UnattendedFollowsSpec` |

The properties speak of the view, the side screen and the result, which are copies and
indices of the sources, so `MInv` says what is so of the sources all along, and why.
`KernelOK`: a mapping is of a LUKS disk that was opened, a mounted bcachefs disk has its
key. `SourcesOK`: sources and trees are parallel; a source is static, with a leaf of the
image, or of a disk, and then it is mounted where the kernel has a mount of that disk, or
locked or in error and without mount point and passphrase; one that is locked has not
been mounted under another name; no bcachefs disk is there twice (else unlocking the one
would leave the other locked and impossible to open). `ViewOK`, `SideOK`, `CountdownOK`
and `ResultOK` tie the rest to that. Nearly all of the work is in discovery
(`FoundSource`, `FoundOnce`: what a rescan makes of devices that are mounted, opened or
have a key) and in unlocking (`SubmitOpensSources`, `LockedKept`: what becomes of the
other sources). `UnattendedFollowsSpec` rests on `SelectionAllowed`, and on the fact that
the first default node of the view is the entry that was selected (`LeafPlace`,
`NodePlace`). `MInv` was checked by TLC on the instance of `menu` as well.

`DiscoveryProofs` proves every safety property of the run `discovery`, for any drives and
volumes, any slots, any whitelist, any number of rounds and of changes:

| Theorem | States |
|---|---|
| `DiscoveryInvariant` | `DInv` is invariant |
| `DiscoveryTypeOK` | `TypeOK` |
| `DiscoveryCompleteHasAll` | `CompleteHasAll` |
| `DiscoverySteadyIsReported` | `SteadyIsReported` |

`CompleteHasAll` needs only that no name is in a group twice (`NamesOnce`), which needs
that what is still to be probed is in no list (`Unprobed`). `SteadyIsReported` is about
the world, and lists of names say little about it: a drive may go and another come under
its name. `DInv` therefore speaks of the filesystems that are `Sure`, of which no device
went. Behind every name put down for one of them there is still a member of it (`Home`,
`ListsHome`), and as different names are different volumes, its group is complete just
when it has all of its volumes (`CompleteIsAll`); that turns a count of names into what
the kernel needs for a mount. `NoneForgotten`: what was known is in a list, or still to
be probed. `WholeCovered`: every member of what was whole is in its group, or still to be
looked at, so that it is complete when the looks end. `SourcesStand`: what has become a
source is in no list any more, in a state of `StatesFor`, and once only; the last rests on
`OneGroupEach` and on mount points being used once (`MountOnce`). The proof has a lemma
per action. Drives that come or go while the program stands still are one lemma
(`PluggingKeeps`, from `MovingKeeps`), for `ProbeCut` does the same and goes on. The
invariant was checked by TLC on the instance of `discovery` as well.

`BootProofs` proves, for any trees, files, variables and number of starts:

| Theorem | States |
|---|---|
| `BootInvariant` | `BInv` is invariant |
| `BootTypeOK` | `TypeOK` |
| `BootRunsWhatWasChosen` | `RunsWhatWasChosen` |
| `BootRememberedWasLoaded` | `RememberedWasLoaded` |
| `BootIntactEntryBoots` | `IntactEntryBoots` |
| `BootUnattendedStays` | `UnattendedStays` |

`BInv` says what has been reached at each place of the attempt: a bare file takes
`boot_file` and an entry `kexec_load` (`WaysApart`), all is written before
kexec_file_load (`AllWritten`), and from there on the kernel that is loaded is the one
chosen (`LoadedIsChosen`). `UnattendedStays` has an invariant of its own, `StaysInv`: what
ran last unattended is what would be chosen now, and what is being booted unattended is
too. That writing the variable does not change the default is `SelectionStays`.

**Assumptions.** The proofs assume of the constants what the modules state as `ASSUME`,
and TLC evaluates on every run, and nothing else. `Installer`, `Input`:
`ConstantsAssumption`. `Sources`: `DisksAssumption` (the devices are listed in one order,
none twice; a disk is plain, LUKS or bcachefs), `BootTreeAssumption` (types of what is on
a disk). `Menu`: `StaticAssumption`, `DepthAssumption`. `Boot`: `TreesAssumption` (trees
are well formed and the files of their entries are known), `BootsAssumption`. `NodeList`:
`BuiltAssumption` (a list that was built is one of nodes as `add_tree_nodes` appends them,
one deeper at a time, with its sources numbered, and its flags were computed), which
`BuildAssures` derives from the `TreesAssumption` of `TreeView`: a tree is a list of
leaves and of directories that hold less deep trees, there is a source, and a source that
is not mounted has no tree (`build_source_tree` gives it an empty one). `Discovery`:
`ConstantsAssumption` (finitely many drives, each in one slot at a time, with one volume if
it has no partitions). That the disks of `Sources` are in no other relation to
their trees, and that no leaf need exist, is on purpose: the theorems hold of a machine
with nothing on it.

**Only model-checked.** `WholeLeavesShown` of `DiskView`: what the parsers make of a file
of any length is an induction over the file, and they are recursive operators, of which the
prover has no notion; TLC parses files cut at every token, wrong in eight ways and
odd in three. Liveness under fairness (`DevicesAreRead`, `Ends`, `EveryAttemptEnds`) is out of the prover's reach.

## Not modelled

Rendering, theme and logo (output only); labels of sources (shown only); the bytes
inside a JSON string; what is inside the key archive; the listing and cursor of the
file browser and `is_bootable_file`; the build of the UKI, kernel and Nix packages;
the rescue shell; a console that closes; the EFI variable of the timeout (the timeout
is a constant); paths that are not UTF-8 or have a line break, which do not survive
the EFI variable. `PROJECT.json` has every component with its status.

## Plan

1. The modules of the table above, and proofs about all of them but `Sources` (which is
   proved about as a part of `Menu`), `BootTree` and `Disks`: done.
2. `Outline` from `NodeList`, step by step: done.
3. `FileBrowser`: the listing, what is bootable, depth and cursor.
