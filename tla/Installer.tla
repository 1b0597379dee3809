----------------------------- MODULE Installer -----------------------------
(***************************************************************************)
(* The boot loader script of the NixOS module (modules/nixos.nix): it      *)
(* writes one leaf directory per system under boot/nixos, marks it as the  *)
(* most recent one, and prunes the leaves beyond the retention count.      *)
(*                                                                         *)
(* The script changes the disk one file at a time and may stop between any *)
(* two of its steps: it is killed, the machine goes down, or a command     *)
(* fails (writeShellApplication runs it with errexit, so a failed cp ends  *)
(* it).  What is on disk at that moment is what the boot menu finds.       *)
(*                                                                         *)
(* Abstractions.  A file is absent, partial (opened and truncated, not yet *)
(* written to its end) or whole; its content is a function of the leaf it  *)
(* is in, because the leaf's name is the hash of the system.  What was     *)
(* written before a stop stays written.  A time is kept twice: as the      *)
(* number of the stamp, since find prints the fraction of the second and   *)
(* no two are alike, and as the whole second, which is all that the menu   *)
(* takes of it.  From one stamp to the next a second may begin or not.     *)
(***************************************************************************)
EXTENDS Integers, FiniteSets

CONSTANTS
    Systems,      \* the system closures that may be installed, one leaf each
    NumEntries,   \* entries per leaf: "default" and the specialisations
    Retention,    \* boot.loader.kexec-menu.retention
    Strategies,   \* the install strategies in use, of {"copy", "reflink"}
    MaxInstalls,  \* bound: how often the script is started
    MaxSeconds    \* bound: how often a second begins

ASSUME ConstantsAssumption ==
    /\ IsFiniteSet(Systems)
    /\ NumEntries \in Nat \ {0}
    /\ Retention \in Nat \ {0}
    /\ Strategies \subseteq {"copy", "reflink"}
    /\ MaxInstalls \in Nat /\ MaxSeconds \in Nat

\* Entry e of a leaf needs blobs 2e-1 (its kernel) and 2e (its initrd), copied
\* in this order.
NumBlobs == 2 * NumEntries
Blobs == 1..NumBlobs

FileState == {"absent", "partial", "whole"}

\* Where the script stands.  A stopped script keeps its place.
Places == {"idle", "copy", "copying", "entries", "touch", "prune", "remove",
           "uki", "ukiCopy", "done"}

\* Where the leaf is written completely, and where it is also touched.
Written == {"touch", "prune", "remove", "uki", "ukiCopy", "done"}
Touched == Written \ {"touch"}

VARIABLES
    dir,       \* the leaf directories that exist
    blob,      \* blob[s][b]: kernel or initrd file b of leaf s
    json,      \* json[s]: entries.json of leaf s
    mtime,     \* mtime[s]: modification time of the directory of leaf s, for find
    clock,     \* the last time that was stamped on a directory
    second,    \* second[s]: the whole second of mtime[s]
    now,       \* the second of the last stamp
    running,   \* is the script running
    pc,        \* where the script stands, or stood when it stopped
    target,    \* the system being installed ($1 of the script)
    strategy,  \* the copy_blob of this script
    next,      \* the next blob to copy
    victims,   \* the leaves this run still has to remove
    uki,       \* the file at ukiInstallPath
    runs,      \* how often the script was started
    exposed    \* history: leaves pruned or recopied since they were last whole

times == <<mtime, clock, second, now>>
disk == <<dir, blob, json, times, uki>>
ghosts == <<runs, exposed>>
script == <<running, pc, target, strategy, next, victims>>
vars == <<disk, script, ghosts>>

TypeOK ==
    /\ dir \subseteq Systems
    /\ blob \in [Systems -> [Blobs -> FileState]]
    /\ json \in [Systems -> FileState]
    /\ mtime \in [Systems -> Nat]
    /\ clock \in Nat
    /\ second \in [Systems -> 0..MaxSeconds]
    /\ now \in 0..MaxSeconds
    /\ running \in BOOLEAN
    /\ pc \in Places
    /\ target \in Systems
    /\ strategy \in {"copy", "reflink"}
    /\ next \in 1..NumBlobs + 1
    /\ victims \subseteq Systems
    /\ uki \in FileState
    /\ runs \in 0..MaxInstalls
    /\ exposed \subseteq Systems

----------------------------------------------------------------------------
(* What the boot menu makes of the disk *)

BlobsWhole(s) == \A b \in Blobs : blob[s][b] = "whole"

\* walk_boot_tree shows a leaf whose entries.json parses; a truncated one does
\* not, and the directory is skipped.
Listed(s) == s \in dir /\ json[s] = "whole"

\* Every entry of the leaf can be loaded.
Bootable(s) == Listed(s) /\ BlobsWhole(s)

\* What resolve_default may settle on: all leaves are siblings here, so both of its
\* rules pick one that no other is newer than, by the second (as_secs in
\* walk_boot_tree).  If there are several, their names decide, which are hashes.
Newest(s) == Listed(s) /\ \A t \in Systems : Listed(t) => second[t] <= second[s]

----------------------------------------------------------------------------
(* Helpers of the script *)

\* Creating or removing a file in leaf s stamps the directory.
Stamp(s) ==
    /\ clock' = clock + 1
    /\ mtime' = [mtime EXCEPT ![s] = clock + 1]
    /\ now' \in {now, now + 1} \cap 0..MaxSeconds
    /\ second' = [second EXCEPT ![s] = now']

KeepTimes == UNCHANGED times

\* Opening a file for writing: a new file stamps its directory, an existing one
\* is truncated in place.
StampIfNew(s, file) == IF file = "absent" THEN Stamp(s) ELSE KeepTimes

\* Mutant of Expendable: sort -n, the oldest are kept.
ExpendableNewest == {s \in dir : Cardinality({t \in dir : mtime[t] < mtime[s]}) >= Retention}

\* find | sort -rn | cut, and the slice of the array from Retention on: the
\* directories, with or without an entries.json, that have at least Retention
\* newer ones.
Expendable == {s \in dir : Cardinality({t \in dir : mtime[t] > mtime[s]}) >= Retention}

\* Mutant of IsCurrent: the loop removes from the directory, not from its list.
IsCurrentOfDir(v) == v \in dir /\ \A w \in dir : mtime[v] <= mtime[w]

\* The loop removes newest first.  Removing files stamps the directory, so the
\* one being removed stays the newest of those left.
IsCurrent(v) == v \in victims /\ \A w \in victims : mtime[w] <= mtime[v]

----------------------------------------------------------------------------
(* The script *)

Init ==
    /\ dir = {}
    /\ blob = [s \in Systems |-> [b \in Blobs |-> "absent"]]
    /\ json = [s \in Systems |-> "absent"]
    /\ mtime = [s \in Systems |-> 0]
    /\ clock = 0
    /\ second = [s \in Systems |-> 0]
    /\ now = 0
    /\ running = FALSE
    /\ pc = "idle"
    /\ target \in Systems
    /\ strategy = "copy"
    /\ next = 1
    /\ victims = {}
    /\ uki = "absent"
    /\ runs = 0
    /\ exposed = {}

\* Mutant of Begin: the blobs are counted from 0.
BeginAtZero(s, how) ==
    /\ ~running /\ runs < MaxInstalls
    /\ running' = TRUE /\ pc' = "copy" /\ runs' = runs + 1
    /\ target' = s /\ strategy' = how
    /\ next' = 0 /\ victims' = {}
    /\ dir' = dir \cup {s}
    /\ IF s \in dir THEN KeepTimes ELSE Stamp(s)
    /\ UNCHANGED <<blob, json, uki, exposed>>

\* A system is activated: the script of its configuration starts, with mkdir -p.
\* It may be one that was installed before, wholly or in part.
Begin(s, how) ==
    /\ ~running /\ runs < MaxInstalls
    /\ running' = TRUE /\ pc' = "copy" /\ runs' = runs + 1
    /\ target' = s /\ strategy' = how
    /\ next' = 1 /\ victims' = {}
    /\ dir' = dir \cup {s}
    /\ IF s \in dir THEN KeepTimes ELSE Stamp(s)
    /\ UNCHANGED <<blob, json, uki, exposed>>

\* copy_blob, strategy "copy": cmp -s finds the destination identical.
SkipBlob ==
    /\ running /\ pc = "copy" /\ next <= NumBlobs
    /\ strategy = "copy" /\ blob[target][next] = "whole"
    /\ next' = next + 1
    /\ UNCHANGED <<disk, ghosts, running, pc, target, strategy, victims>>

\* copy_blob opens the destination; "reflink" does so whatever is there.
OpenBlob ==
    /\ running /\ pc = "copy" /\ next <= NumBlobs
    /\ strategy = "reflink" \/ blob[target][next] # "whole"
    /\ blob' = [blob EXCEPT ![target][next] = "partial"]
    /\ StampIfNew(target, blob[target][next])
    /\ exposed' = IF blob[target][next] = "whole" THEN exposed \cup {target} ELSE exposed
    /\ pc' = "copying"
    /\ UNCHANGED <<dir, json, uki, running, target, strategy, next, victims, runs>>

FillBlob ==
    /\ running /\ pc = "copying"
    /\ blob' = [blob EXCEPT ![target][next] = "whole"]
    /\ next' = next + 1 /\ pc' = "copy"
    /\ UNCHANGED <<dir, json, times, uki, running, target, strategy, victims, ghosts>>

\* Mutant of OpenEntries: entries.json is written as soon as the leaf exists.
OpenEntriesEarly ==
    /\ running /\ pc = "copy"
    /\ json' = [json EXCEPT ![target] = "partial"]
    /\ StampIfNew(target, json[target])
    /\ pc' = "entries"
    /\ UNCHANGED <<dir, blob, uki, running, target, strategy, next, victims, ghosts>>

\* echo "$entries" > entries.json: opened, then written.
OpenEntries ==
    /\ running /\ pc = "copy" /\ next > NumBlobs
    /\ json' = [json EXCEPT ![target] = "partial"]
    /\ StampIfNew(target, json[target])
    /\ pc' = "entries"
    /\ UNCHANGED <<dir, blob, uki, running, target, strategy, next, victims, ghosts>>

FillEntries ==
    /\ running /\ pc = "entries"
    /\ json' = [json EXCEPT ![target] = "whole"]
    /\ pc' = "touch"
    /\ exposed' = exposed \ {target}
    /\ UNCHANGED <<dir, blob, times, uki, running, target, strategy, next, victims, runs>>

\* Mutant of Touch: the directory keeps the time of its last new file.
NoTouch ==
    /\ running /\ pc = "touch"
    /\ KeepTimes
    /\ pc' = "prune"
    /\ UNCHANGED <<dir, blob, json, uki, running, target, strategy, next, victims, ghosts>>

Touch ==
    /\ running /\ pc = "touch"
    /\ Stamp(target)
    /\ pc' = "prune"
    /\ UNCHANGED <<dir, blob, json, uki, running, target, strategy, next, victims, ghosts>>

\* mapfile and the slice: the list is made once, before anything is removed.
ListLeaves ==
    /\ running /\ pc = "prune"
    /\ victims' = Expendable
    /\ pc' = "remove"
    /\ UNCHANGED <<disk, ghosts, running, target, strategy, next>>

\* rm -rf of the current victim unlinks its files one by one, in any order ...
RemoveBlob(v, b) ==
    /\ running /\ pc = "remove" /\ IsCurrent(v)
    /\ blob[v][b] # "absent"
    /\ blob' = [blob EXCEPT ![v][b] = "absent"]
    /\ Stamp(v)
    /\ exposed' = exposed \cup {v}
    /\ UNCHANGED <<dir, json, uki, script, runs>>

RemoveEntries(v) ==
    /\ running /\ pc = "remove" /\ IsCurrent(v)
    /\ json[v] # "absent"
    /\ json' = [json EXCEPT ![v] = "absent"]
    /\ Stamp(v)
    /\ exposed' = exposed \cup {v}
    /\ UNCHANGED <<dir, blob, uki, script, runs>>

\* ... and then the directory.
RemoveDir(v) ==
    /\ running /\ pc = "remove" /\ IsCurrent(v)
    /\ json[v] = "absent" /\ \A b \in Blobs : blob[v][b] = "absent"
    /\ dir' = dir \ {v} /\ victims' = victims \ {v}
    /\ UNCHANGED <<blob, json, times, uki, running, pc, target, strategy, next, ghosts>>

\* The loop is over; the script ends here unless ukiInstallPath is set.
EndPrune ==
    /\ running /\ pc = "remove" /\ victims = {}
    /\ \/ pc' = "uki" /\ running' = TRUE
       \/ pc' = "done" /\ running' = FALSE
    /\ UNCHANGED <<disk, ghosts, target, strategy, next, victims>>

\* cp of the UKI over the installed one.
OpenUki ==
    /\ running /\ pc = "uki"
    /\ uki' = "partial" /\ pc' = "ukiCopy"
    /\ UNCHANGED <<dir, blob, json, times, ghosts, running, target, strategy, next, victims>>

FillUki ==
    /\ running /\ pc = "ukiCopy"
    /\ uki' = "whole" /\ pc' = "done" /\ running' = FALSE
    /\ UNCHANGED <<dir, blob, json, times, ghosts, target, strategy, next, victims>>

\* The script stops where it stands: a command fails, it is killed, power is lost.
Stop ==
    /\ running /\ running' = FALSE
    /\ UNCHANGED <<disk, ghosts, pc, target, strategy, next, victims>>

Write == SkipBlob \/ OpenBlob \/ FillBlob \/ OpenEntries \/ FillEntries \/ Touch
Remove(v) == (\E b \in Blobs : RemoveBlob(v, b)) \/ RemoveEntries(v) \/ RemoveDir(v)
Prune == ListLeaves \/ (\E v \in dir : Remove(v)) \/ EndPrune
InstallUki == OpenUki \/ FillUki

Next == (\E s \in Systems, how \in Strategies : Begin(s, how)) \/ Write \/ Prune \/ InstallUki \/ Stop

Spec == Init /\ [][Next]_vars

----------------------------------------------------------------------------
(* Properties *)

\* What the menu lists can be booted, except a leaf that a prune was removing or
\* that a reflink run was copying over when the script stopped: the blobs are
\* written before entries.json, whatever earlier runs left behind.
ListedIsBootable == \A s \in Systems : Listed(s) => Bootable(s) \/ s \in exposed

\* A run that came to its end leaves its own leaf bootable and none that the menu
\* prefers: neither what earlier runs left half-written or half-removed, nor its own
\* prune, nor re-installing an old system puts a leaf before it.  A leaf that was last
\* stamped within the same second, and before it, is as new to the menu, and no other:
\* then it is their names that decide, which the menu may well do against the target.
FinishedIsPicked ==
    pc = "done" =>
        /\ Bootable(target) /\ Newest(target)
        /\ \A t \in Systems \ {target} : Newest(t) => mtime[t] < mtime[target]

\* The prune takes from the old end only: whatever it keeps was modified after
\* everything it still has to remove, and the leaf just installed is kept.
PruneTakesOldest ==
    pc = "remove" =>
        /\ target \in dir \ victims
        /\ \A v \in victims, k \in dir \ victims : IsCurrent(v) \/ mtime[v] < mtime[k]

\* A leaf stops being bootable only when it is the one being installed again or
\* one the prune has listed: installing never harms a bystander.
BystandersUnharmed ==
    [][\A s \in Systems : Bootable(s) /\ ~Bootable(s)' => s \in {target} \cup victims]_vars

\* The last bootable leaf is never pruned away; the one way to lose it is to
\* install the same system again, which truncates its files in place.
LastLeafLostOnlyByReinstall ==
    [][(\E s \in Systems : Bootable(s)) /\ ~(\E s \in Systems : Bootable(s))'
            => pc = "copy" /\ Bootable(target)]_vars

----------------------------------------------------------------------------
(* What a comment says and the code does not do *)

\* "Touch mtime so the bootmenu picks this as most recent" (nixos.nix:84): once
\* the leaf is touched, the menu finds nothing newer whenever the machine next boots.
TouchedIsNewest == ~running /\ pc \in Touched => Newest(target)

============================================================================
