-------------------------------- MODULE Boot --------------------------------
(***************************************************************************)
(* From a choice to a running system, over and over: boot_entry and        *)
(* boot_file of kexec-menu-core/src/kexec.rs, what run of                  *)
(* kexec-menu/src/main.rs does with their outcome, the init script of the  *)
(* UKI around it, and the EFI variable that is all the menu remembers from *)
(* one boot to the next.  The power may go at any step.                    *)
(*                                                                         *)
(* How an entry gets chosen is in Menu; here it is any entry there is, or  *)
(* the default when nobody chooses.  A file is a sequence of bytes of      *)
(* which only the number tells, the initrd's and the key archive's apart.  *)
(* The kernel (kexec_file_load, memfd, efivarfs, unpacking an initramfs)   *)
(* and the firmware are external.                                          *)
(***************************************************************************)
EXTENDS BootSelect

CONSTANTS
    Disks,       \* the trees that may be found
    Files,       \* Files[selection]: [kernel, initrd, key], see below
    EfiVars,     \* what the variable may hold at first
    EfiFails,    \* whether writing it may fail for reasons of its own
    MaxBoots     \* bound: how often the machine starts

\* There are files, though they may be missing, for every entry that may be found.
ASSUME TreesAssumption ==
    \A found \in Disks : WellFormed(found) /\ EntriesIn(found) \subseteq DOMAIN Files

ASSUME BootsAssumption == MaxBoots \in Nat \ {0} /\ EfiFails \in BOOLEAN

VARIABLES
    trees,     \* external: what is on the disks
    hasShell,  \* whether the build has the rescue shell
    efi,       \* external: the EFI variable KexecMenuSelection
    pc,
    chosen, key,       \* what is booted, with the archive of a key or without
    memfd, loaded,     \* external: the initrd in memory, and the kernel that was loaded
    boots,
    unattended, last, kexeced, faulted    \* history, see below

history == <<unattended, last, kexeced, faulted>>
vars == <<trees, hasShell, efi, pc, chosen, key, memfd, loaded, boots, history>>

----------------------------------------------------------------------------
(* What is booted *)

\* Kernels: "good", or "bad" if kexec_file_load refuses it, or "missing".
\* Initrds: bytes, Missing, or Unnamed, as in an entry whose initrd is "".
\* Keys: the archive with the key of the source, <<>> if it was not unlocked.
Missing == <<"missing">>
Unnamed == <<"">>
NoKey == <<>>

Entries == EntriesIn(trees)

\* A file booted from the browser; it has no initrd at all.
BareFile == Selection(<<"file">>, "")

\* leaf_path.join(initrd) is the directory itself when there is no name, and a
\* directory cannot be read.
InitrdIsRead(file) == file.initrd \notin {Missing, Unnamed}

\* build_key_cpio, build_initrd: one after the other.
InitrdData(file, archive) == file.initrd \o archive

\* kexec_file_load, called without KEXEC_FILE_NO_INITRAMFS, reads the initrd's
\* descriptor, and boot_file has none to give.
KexecLoads(sel) == Files[sel].kernel = "good" /\ sel # BareFile

\* efivarfs makes variables it does not know immutable: remove_immutable and fs::write
\* both fail to open one for writing; only one that is not there can be written.
EfiIsImmutable == efi # None

\* read_efi_selection: a variable with an empty field is as good as none.
ReadEfi == IF efi # None /\ (efi.path = <<>> \/ efi.entry = "") THEN None ELSE efi

Nothing == [sel |-> None, initrd |-> <<>>]

----------------------------------------------------------------------------
(* Starting, and choosing *)

PowerUp ==
    /\ pc' = "menu" /\ chosen' = None /\ key' = NoKey /\ memfd' = <<>> /\ loaded' = Nothing
    /\ boots' = boots + 1 /\ faulted' = FALSE /\ unattended' = FALSE

Init ==
    /\ trees \in Disks /\ hasShell \in BOOLEAN /\ efi \in EfiVars
    /\ pc = "menu" /\ chosen = None /\ key = NoKey /\ memfd = <<>> /\ loaded = Nothing /\ boots = 1
    /\ unattended = FALSE /\ last = None /\ kexeced = {} /\ faulted = FALSE

Choose(sel, archive, alone) ==
    /\ chosen' = sel /\ key' = archive /\ unattended' = alone
    /\ last' = IF alone THEN last ELSE None
    /\ pc' = IF sel = BareFile THEN "bare" ELSE "open"
    /\ UNCHANGED <<trees, hasShell, efi, memfd, loaded, boots, kexeced, faulted>>

Default == ResolveDefault(trees, ReadEfi)

\* Mutant of CountdownBoots: also when there is no default.
CountdownBootsAnyway == pc = "menu" /\ Choose(Default, NoKey, TRUE)

\* The countdown ends; nothing was unlocked.
CountdownBoots == pc = "menu" /\ Default # None /\ Choose(Default, NoKey, TRUE)

\* Someone chooses an entry; with the key of its source, if its UUID can be read.
ChooseEntry ==
    /\ pc = "menu"
    /\ \E sel \in Entries : \E archive \in {NoKey, Files[sel].key} : Choose(sel, archive, FALSE)

ChooseFile == pc = "menu" /\ Choose(BareFile, NoKey, FALSE)

\* find_leaf: the first leaf with that path.
FindLeaf(path) == {p \in Places(trees) : LeafAt(trees, p).path = path}
LeafHasDefault == FindLeaf(Default.path) # {} /\ HasEntry(LeafAt(trees, FirstOf(FindLeaf(Default.path))), Default.entry)

\* run_auto_default
AutoDefault ==
    /\ pc = "menu"
    /\ IF Default # None /\ LeafHasDefault THEN Choose(Default, NoKey, TRUE)
       ELSE pc' = "exit" /\ UNCHANGED <<trees, hasShell, efi, chosen, key, memfd, loaded, boots, history>>

Quit == pc = "menu" /\ pc' = "exit" /\ UNCHANGED <<trees, hasShell, efi, chosen, key, memfd, loaded, boots, history>>

----------------------------------------------------------------------------
(* kexec_load *)

Chosen == Files[chosen]
Step(next) == pc' = next /\ UNCHANGED <<trees, hasShell, chosen, key, boots, unattended>>

\* Mutant of OpenFiles: the choice is remembered before anything else.
OpenFilesRemembering ==
    /\ pc = "open" /\ Step(IF Chosen.kernel # "missing" /\ InitrdIsRead(Chosen) THEN "write" ELSE "failed")
    /\ efi' = IF EfiIsImmutable THEN efi ELSE chosen
    /\ UNCHANGED <<memfd, loaded, last, kexeced, faulted>>

\* The kernel is opened and the initrd is read.
OpenFiles ==
    /\ pc = "open" /\ Step(IF Chosen.kernel # "missing" /\ InitrdIsRead(Chosen) THEN "write" ELSE "failed")
    /\ UNCHANGED <<efi, memfd, loaded, last, kexeced, faulted>>

Data == InitrdData(Chosen, key)

Rest == Len(Data) - Len(memfd)

\* Mutant of Written: one write is thought to be enough.
WrittenOnce ==
    pc = "write" /\ memfd # <<>> /\ Step("load") /\ UNCHANGED <<efi, memfd, loaded, last, kexeced, faulted>>

\* Mutant of WriteSome: it starts at the beginning every time.
WriteAgain ==
    /\ pc = "write" /\ Rest > 0
    /\ \E n \in 1..Rest : memfd' = SubSeq(Data, 1, n)
    /\ Step("write") /\ UNCHANGED <<efi, loaded, last, kexeced, faulted>>

\* write_all_fd: a write takes as many of the rest as it likes.
WriteSome ==
    /\ pc = "write" /\ Rest > 0
    /\ \E n \in 1..Rest : memfd' = memfd \o SubSeq(Data, Len(memfd) + 1, Len(memfd) + n)
    /\ Step("write") /\ UNCHANGED <<efi, loaded, last, kexeced, faulted>>

Written == pc = "write" /\ memfd = Data /\ Step("load") /\ UNCHANGED <<efi, memfd, loaded, last, kexeced, faulted>>

\* No memory for it.
WriteFails ==
    /\ pc = "write" /\ faulted' = TRUE
    /\ Step("failed") /\ UNCHANGED <<efi, memfd, loaded, last, kexeced>>

KexecFileLoad ==
    /\ pc = "load"
    /\ IF KexecLoads(chosen)
       THEN loaded' = [sel |-> chosen, initrd |-> memfd] /\ kexeced' = kexeced \cup {chosen} /\ Step("remember")
       ELSE Step("failed") /\ UNCHANGED <<loaded, kexeced>>
    /\ UNCHANGED <<efi, memfd, last, faulted>>

----------------------------------------------------------------------------
(* boot_entry after that, boot_file, kexec_exec *)

\* Mutant of Remember: an error ends the attempt.
RememberOrFail ==
    /\ pc = "remember"
    /\ IF EfiIsImmutable THEN Step("failed") /\ UNCHANGED efi ELSE Step("exec") /\ efi' = chosen
    /\ UNCHANGED <<memfd, loaded, last, kexeced, faulted>>

\* write_efi_selection, whose errors are ignored.
Remember ==
    /\ pc = "remember" /\ Step("exec")
    /\ \/ efi' = IF EfiIsImmutable THEN efi ELSE chosen
       \/ EfiFails /\ efi' = efi
    /\ UNCHANGED <<memfd, loaded, last, kexeced, faulted>>

\* boot_file up to kexec_exec.
LoadBare ==
    /\ pc = "bare"
    /\ IF KexecLoads(chosen) THEN loaded' = [sel |-> chosen, initrd |-> <<>>] /\ Step("exec")
       ELSE Step("failed") /\ UNCHANGED loaded
    /\ UNCHANGED <<efi, memfd, last, kexeced, faulted>>

\* reboot(LINUX_REBOOT_CMD_KEXEC)
KexecExec ==
    /\ pc = "exec" /\ Step("running")
    /\ last' = IF unattended THEN chosen ELSE None
    /\ UNCHANGED <<efi, memfd, loaded, kexeced, faulted>>

KexecExecFails ==
    /\ pc = "exec" /\ faulted' = TRUE
    /\ Step("failed") /\ UNCHANGED <<efi, memfd, loaded, last, kexeced>>

----------------------------------------------------------------------------
(* The way out: the rescue shell, init, the next start *)

Stay == UNCHANGED <<efi, memfd, loaded, last, kexeced, faulted>>

\* drop_to_shell, in a build that has it; otherwise the error goes to main.
AfterFailure == pc = "failed" /\ (Step("exit") \/ (hasShell /\ Step("shell"))) /\ Stay

\* init: a shell if there is one.
InitShell == pc = "exit" /\ hasShell /\ Step("shell") /\ Stay

Restarts == boots < MaxBoots /\ PowerUp

\* init: reboot -f.
InitReboots == pc = "exit" /\ ~hasShell /\ Restarts /\ UNCHANGED <<trees, hasShell, efi, last, kexeced>>

\* The power goes, or someone reboots from the shell.
PowerLoss == pc # "running" /\ Restarts /\ UNCHANGED <<trees, hasShell, efi, last, kexeced>>

\* The system that was booted is used, perhaps to install something, and rebooted.
SystemReboots ==
    /\ pc = "running" /\ Restarts
    /\ trees' \in Disks /\ last' = IF trees' = trees THEN last ELSE None
    /\ UNCHANGED <<hasShell, efi, kexeced>>

Program ==
    \/ OpenFiles \/ WriteSome \/ Written \/ KexecFileLoad \/ Remember \/ LoadBare \/ KexecExec
    \/ AfterFailure \/ InitShell \/ InitReboots

Next ==
    \/ CountdownBoots \/ ChooseEntry \/ ChooseFile \/ AutoDefault \/ Quit
    \/ Program \/ WriteFails \/ KexecExecFails
    \/ PowerLoss \/ SystemReboots

\* The program does not stop by itself; nobody has to press a key, to reboot, or to
\* have a syscall fail.
Spec == Init /\ [][Next]_vars /\ WF_vars(Program)

----------------------------------------------------------------------------
(* Properties *)

TypeOK ==
    /\ trees \in Disks
    /\ efi \in {None} \cup EfiVars \cup DOMAIN Files
    /\ pc \in {"menu", "open", "write", "load", "remember", "bare", "exec", "running", "failed", "exit", "shell"}
    /\ pc \in {"open", "write", "load", "remember"} => chosen \in Entries
    /\ boots \in 1..MaxBoots

\* What runs is the entry that was chosen, its initrd whole and with the key that
\* belongs to it behind it, however the writes of it were cut.
RunsWhatWasChosen ==
    pc = "running" => loaded = [sel |-> chosen, initrd |-> InitrdData(Chosen, key)]

\* The variable names an entry whose kernel was loaded once: one that fails to load
\* never becomes the default of the next boots.
RememberedWasLoaded == efi # None => efi \in kexeced \cup EfiVars

\* An entry whose files are there fails only when the kernel has no memory or refuses
\* to reboot: the EFI variable, whatever happens to it, stops no boot.
Intact(sel) == Files[sel].kernel = "good" /\ Files[sel].initrd # Missing
IntactEntryBoots == pc = "failed" /\ Intact(chosen) /\ InitrdIsRead(Chosen) /\ chosen # BareFile => faulted

\* A machine that is left alone boots the same entry again and again: what it booted
\* unattended is the next default, as long as nothing is installed and no two siblings
\* are equally new.
NoTies == NoTiesIn(trees)
UnattendedStays == pc = "menu" /\ last # None /\ NoTies => Default = last

\* Every attempt ends: in the system, in a shell, or with another start.
EveryAttemptEnds == pc \in {"open", "bare"} ~> (pc \in {"running", "shell", "menu"} \/ (pc = "exit" /\ boots = MaxBoots))

\* docs/spec.md:83, of the EFI variable: it "stores (leaf_path, entry_name), written
\* at kexec time".
RememberedIsLast == pc = "running" /\ chosen # BareFile => efi = chosen

\* docs/spec.md:116: "Stage 1 finds key at /run/bootmenu-keys/<uuid>".  The kernel
\* unpacks an archive only where a multiple of four bytes comes before it.
Unpacked(initrd, archive) ==
    archive # NoKey /\ (Len(initrd) - Len(archive)) % 4 = 0
KeyReachesStage1 == pc = "running" /\ key # NoKey => Unpacked(loaded.initrd, key)

\* tree.rs:251 has an entry with "initrd": "", and docs/spec.md:71 has "any EFI
\* binary or bzImage (kexec'd directly)": these boot as well.
IntactBoots == pc = "failed" /\ Intact(chosen) => faulted

=============================================================================
