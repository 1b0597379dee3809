----------------------------- MODULE BootProofs -----------------------------
(***************************************************************************)
(* What holds of booting for any trees, files, variables and number of     *)
(* starts, wherever the power goes and whatever fails.                     *)
(*                                                                         *)
(* What runs depends on every step before: BInv says at each place of      *)
(* kexec_load and boot_entry what has been reached.  That an unattended    *)
(* machine stays with its choice has an invariant of its own, StaysInv:    *)
(* what is being booted unattended is what would be chosen again.          *)
(***************************************************************************)
EXTENDS Boot, BootSelectProofs

\* The two ways through are kept apart: a bare file is loaded by boot_file, an entry
\* by kexec_load.
WaysApart ==
    /\ pc = "bare" => chosen = BareFile
    /\ pc \in {"open", "write", "load", "remember"} => chosen # BareFile

\* kexec_file_load gets all that was to be written.
AllWritten == pc = "load" => memfd = Data

\* From there on the kernel that is loaded is the entry chosen, and it did load.
LoadedIsChosen ==
    pc \in {"remember", "exec", "running"} =>
        /\ loaded = [sel |-> chosen, initrd |-> InitrdData(Chosen, key)]
        /\ chosen \in kexeced

BInv ==
    /\ WaysApart
    /\ AllWritten
    /\ LoadedIsChosen
    /\ RememberedWasLoaded
    /\ IntactEntryBoots

----------------------------------------------------------------------------

LEMMA BootInitial == Init => BInv
  BY DEF Init, BInv, WaysApart, AllWritten, LoadedIsChosen, RememberedWasLoaded, IntactEntryBoots

\* Whatever starts an attempt takes the way that is meant for it.
LEMMA ChoosePreserves ==
  ASSUME BInv, NEW sel, NEW archive, NEW alone, pc = "menu", Choose(sel, archive, alone)
  PROVE  BInv'
<1>1. pc' = (IF sel = BareFile THEN "bare" ELSE "open") /\ chosen' = sel /\ UNCHANGED <<efi, kexeced>>
  BY DEF Choose
<1>2. WaysApart' /\ AllWritten' /\ LoadedIsChosen' /\ IntactEntryBoots'
  BY <1>1 DEF WaysApart, AllWritten, LoadedIsChosen, IntactEntryBoots
<1>3. RememberedWasLoaded'
  BY <1>1 DEF BInv, RememberedWasLoaded
<1> QED
  BY <1>2, <1>3 DEF BInv

LEMMA MenuPreserves ==
  ASSUME BInv, CountdownBoots \/ ChooseEntry \/ ChooseFile \/ AutoDefault \/ Quit
  PROVE  BInv'
<1>1. CASE CountdownBoots
  BY <1>1, ChoosePreserves DEF CountdownBoots
<1>2. CASE ChooseEntry
  BY <1>2, ChoosePreserves DEF ChooseEntry
<1>3. CASE ChooseFile
  BY <1>3, ChoosePreserves DEF ChooseFile
<1>4. CASE pc' = "exit" /\ UNCHANGED <<efi, kexeced>>
  BY <1>4 DEF BInv, WaysApart, AllWritten, LoadedIsChosen, RememberedWasLoaded, IntactEntryBoots
<1>5. CASE Quit
  BY <1>4, <1>5 DEF Quit, history
<1>6. CASE AutoDefault
  BY <1>4, <1>6, ChoosePreserves DEF AutoDefault, history
<1> QED
  BY <1>1, <1>2, <1>3, <1>5, <1>6

\* kexec_load: what is open is written, what is written is loaded; a step that fails
\* has a file that is missing, a kernel that is refused, or a fault to show for it.
LEMMA LoadPreserves ==
  ASSUME BInv, OpenFiles \/ WriteSome \/ Written \/ WriteFails \/ KexecFileLoad
  PROVE  BInv'
<1>1. CASE OpenFiles
  <2>1. /\ pc = "open" /\ UNCHANGED <<chosen, key, efi, kexeced>>
        /\ pc' = (IF Chosen.kernel # "missing" /\ InitrdIsRead(Chosen) THEN "write" ELSE "failed")
    BY <1>1 DEF OpenFiles, Step
  <2>2. WaysApart' /\ AllWritten' /\ LoadedIsChosen' /\ RememberedWasLoaded'
    BY <2>1 DEF BInv, WaysApart, AllWritten, LoadedIsChosen, RememberedWasLoaded
  <2>3. IntactEntryBoots'
    BY <2>1 DEF IntactEntryBoots, Intact, Chosen
  <2> QED
    BY <2>2, <2>3 DEF BInv
<1>2. CASE WriteSome
  BY <1>2 DEF WriteSome, Step, BInv, WaysApart, AllWritten, LoadedIsChosen, RememberedWasLoaded, IntactEntryBoots
<1>3. CASE Written
  BY <1>3 DEF Written, Step, BInv, WaysApart, AllWritten, LoadedIsChosen, RememberedWasLoaded,
              IntactEntryBoots, Data, Chosen
<1>4. CASE WriteFails
  BY <1>4 DEF WriteFails, Step, BInv, WaysApart, AllWritten, LoadedIsChosen, RememberedWasLoaded, IntactEntryBoots
<1>5. CASE KexecFileLoad
  <2>1. pc = "load" /\ chosen # BareFile /\ memfd = InitrdData(Chosen, key) /\ UNCHANGED <<chosen, key, efi>>
    BY <1>5 DEF KexecFileLoad, Step, BInv, WaysApart, AllWritten, Data
  <2>2. CASE KexecLoads(chosen)
    <3>1. /\ pc' = "remember" /\ kexeced' = kexeced \cup {chosen}
          /\ loaded' = [sel |-> chosen, initrd |-> memfd]
      BY <1>5, <2>2 DEF KexecFileLoad, Step
    <3> QED
      BY <2>1, <3>1 DEF BInv, WaysApart, AllWritten, LoadedIsChosen, RememberedWasLoaded, IntactEntryBoots, Chosen
  <2>3. CASE ~KexecLoads(chosen)
    <3>1. pc' = "failed" /\ UNCHANGED kexeced /\ ~Intact(chosen)
      BY <1>5, <2>1, <2>3 DEF KexecFileLoad, Step, KexecLoads, Intact
    <3> QED
      BY <2>1, <3>1 DEF BInv, WaysApart, AllWritten, LoadedIsChosen, RememberedWasLoaded, IntactEntryBoots, Intact
  <2> QED
    BY <2>2, <2>3
<1> QED
  BY <1>1, <1>2, <1>3, <1>4, <1>5

\* boot_entry after that, and boot_file, which never gets as far.
LEMMA ExecPreserves ==
  ASSUME BInv, Remember \/ LoadBare \/ KexecExec \/ KexecExecFails
  PROVE  BInv'
<1>1. CASE Remember
  <2>1. /\ pc = "remember" /\ pc' = "exec" /\ UNCHANGED <<chosen, key, loaded, kexeced>>
        /\ efi' \in {efi, chosen}
    BY <1>1 DEF Remember, Step
  <2> QED
    BY <2>1 DEF BInv, WaysApart, AllWritten, LoadedIsChosen, RememberedWasLoaded, IntactEntryBoots, Chosen
<1>2. CASE LoadBare
  <2>1. pc = "bare" /\ chosen = BareFile /\ ~KexecLoads(chosen)
    BY <1>2 DEF LoadBare, BInv, WaysApart, KexecLoads
  <2>2. pc' = "failed" /\ UNCHANGED <<chosen, efi, kexeced>>
    BY <1>2, <2>1 DEF LoadBare, Step
  <2> QED
    BY <2>1, <2>2 DEF BInv, WaysApart, AllWritten, LoadedIsChosen, RememberedWasLoaded, IntactEntryBoots
<1>3. CASE KexecExec
  BY <1>3 DEF KexecExec, Step, BInv, WaysApart, AllWritten, LoadedIsChosen, RememberedWasLoaded,
              IntactEntryBoots, Chosen
<1>4. CASE KexecExecFails
  BY <1>4 DEF KexecExecFails, Step, BInv, WaysApart, AllWritten, LoadedIsChosen, RememberedWasLoaded,
              IntactEntryBoots
<1> QED
  BY <1>1, <1>2, <1>3, <1>4

\* The ways out, and every way to start again.
LEMMA AfterPreserves ==
  ASSUME BInv, AfterFailure \/ InitShell \/ InitReboots \/ PowerLoss \/ SystemReboots
  PROVE  BInv'
<1>1. pc' \in {"exit", "shell", "menu"} /\ UNCHANGED <<efi, kexeced>>
  BY DEF AfterFailure, InitShell, InitReboots, PowerLoss, SystemReboots, Step, Stay, Restarts, PowerUp
<1> QED
  BY <1>1 DEF BInv, WaysApart, AllWritten, LoadedIsChosen, RememberedWasLoaded, IntactEntryBoots

LEMMA StutterPreserves ==
  ASSUME BInv, UNCHANGED vars
  PROVE  BInv'
  BY DEF BInv, vars, history, WaysApart, AllWritten, LoadedIsChosen, RememberedWasLoaded, IntactEntryBoots,
         Data, Chosen

----------------------------------------------------------------------------

\* The inductive invariant.
THEOREM BootInvariant == Spec => []BInv
<1>1. BInv /\ [Next]_vars => BInv'
  BY MenuPreserves, LoadPreserves, ExecPreserves, AfterPreserves, StutterPreserves DEF Next, Program
<1> QED
  BY <1>1, BootInitial, PTL DEF Spec

\* What runs is the entry that was chosen, its initrd whole and its key behind it.
THEOREM BootRunsWhatWasChosen == Spec => []RunsWhatWasChosen
<1>1. BInv => RunsWhatWasChosen
  BY DEF BInv, LoadedIsChosen, RunsWhatWasChosen
<1> QED
  BY <1>1, BootInvariant, PTL

\* The variable names an entry whose kernel was loaded once.
THEOREM BootRememberedWasLoaded == Spec => []RememberedWasLoaded
<1>1. BInv => RememberedWasLoaded
  BY DEF BInv
<1> QED
  BY <1>1, BootInvariant, PTL

\* An entry whose files are there fails only when the kernel does.
THEOREM BootIntactEntryBoots == Spec => []IntactEntryBoots
<1>1. BInv => IntactEntryBoots
  BY DEF BInv
<1> QED
  BY <1>1, BootInvariant, PTL

----------------------------------------------------------------------------
(* Types *)

LEMMA FoundWellFormed ==
  ASSUME trees \in Disks
  PROVE  WellFormed(trees) /\ Entries \subseteq DOMAIN Files
BY TreesAssumption DEF Entries

LEMMA DefaultIsEntry ==
  ASSUME trees \in Disks, Default # None
  PROVE  Default \in Entries
BY FoundWellFormed, SelectionIsThere DEF Default, Entries

LEMMA ChooseTyped ==
  ASSUME TypeOK, NEW sel, NEW archive, NEW alone, Choose(sel, archive, alone),
         sel = BareFile \/ sel \in Entries
  PROVE  TypeOK'
BY DEF TypeOK, Choose, Entries

LEMMA NextTyped ==
  ASSUME TypeOK, [Next]_vars
  PROVE  TypeOK'
<1>0. trees \in Disks
  BY DEF TypeOK
<1>1. CASE CountdownBoots
  BY <1>0, <1>1, DefaultIsEntry, ChooseTyped DEF CountdownBoots
<1>2. CASE ChooseEntry
  BY <1>2, ChooseTyped DEF ChooseEntry
<1>3. CASE ChooseFile
  BY <1>3, ChooseTyped DEF ChooseFile
<1>4. CASE pc' \in {"exit", "failed", "shell"} /\ UNCHANGED <<trees, efi, boots>>
  BY <1>4 DEF TypeOK
<1>5. CASE AutoDefault
  <2>1. CASE Default # None /\ LeafHasDefault
    BY <1>0, <1>5, <2>1, DefaultIsEntry, ChooseTyped DEF AutoDefault
  <2> QED
    BY <1>4, <1>5, <2>1 DEF AutoDefault
<1>6. CASE Quit
  BY <1>4, <1>6 DEF Quit
<1>7. CASE OpenFiles \/ WriteSome \/ Written \/ KexecFileLoad
  <2>1. /\ pc \in {"open", "write", "load"} /\ pc' \in {"write", "load", "remember", "failed"}
        /\ UNCHANGED <<trees, efi, boots, chosen>>
    BY <1>7 DEF OpenFiles, WriteSome, Written, KexecFileLoad, Step
  <2> QED
    BY <2>1 DEF TypeOK, Entries
<1>8. CASE Remember
  <2>1. pc = "remember" /\ pc' = "exec" /\ efi' \in {efi, chosen} /\ UNCHANGED <<trees, boots, chosen>>
    BY <1>8 DEF Remember, Step
  <2>2. chosen \in DOMAIN Files
    BY <1>0, <2>1, FoundWellFormed DEF TypeOK
  <2> QED
    BY <2>1, <2>2 DEF TypeOK
<1>9. CASE LoadBare \/ KexecExec
  <2>1. pc' \in {"exec", "failed", "running"} /\ UNCHANGED <<trees, efi, boots>>
    BY <1>9 DEF LoadBare, KexecExec, Step
  <2> QED
    BY <2>1 DEF TypeOK
<1>10. CASE AfterFailure \/ InitShell \/ WriteFails \/ KexecExecFails
  BY <1>4, <1>10 DEF AfterFailure, InitShell, WriteFails, KexecExecFails, Step, Stay
<1>11. CASE InitReboots \/ PowerLoss \/ SystemReboots
  <2>1. pc' = "menu" /\ boots' = boots + 1 /\ boots < MaxBoots /\ efi' = efi /\ trees' \in Disks
    BY <1>0, <1>11 DEF InitReboots, PowerLoss, SystemReboots, Restarts, PowerUp
  <2> QED
    BY <2>1, BootsAssumption DEF TypeOK
<1>12. CASE UNCHANGED vars
  BY <1>12 DEF vars, TypeOK, Entries
<1> QED
  BY <1>1, <1>2, <1>3, <1>5, <1>6, <1>7, <1>8, <1>9, <1>10, <1>11, <1>12 DEF Next, Program

\* What is being booted is always an entry that is on the disks, and what the variable
\* holds is one, or what it held at first.
THEOREM BootTypeOK == Spec => []TypeOK
<1>1. Init => TypeOK
  BY BootsAssumption DEF Init, TypeOK
<1> QED
  BY <1>1, NextTyped, PTL DEF Spec

----------------------------------------------------------------------------
(* Left alone *)

\* An attempt to boot an entry or a file.
Attempt == {"open", "write", "load", "remember", "bare", "exec"}

StaysInv ==
    /\ trees \in Disks
    /\ NoTies /\ last # None => Default = last
    /\ NoTies /\ pc \in Attempt /\ unattended => chosen = Default
    /\ pc \in Attempt /\ ~unattended => last = None

\* The variable is written only where there is none.  If what is remembered is the
\* default without a variable, it is the default with it; and one that cannot be read
\* back, for it has no name, leaves the default what it was.
LEMMA RememberedStays ==
  ASSUME trees \in Disks, NoTies, efi = None, chosen = Default, efi' = chosen, trees' = trees
  PROVE  Default' = Default
<1>1. WellFormed(trees)
  BY FoundWellFormed
<1>2. chosen = ResolveDefault(trees, None)
  BY DEF Default, ReadEfi
<1>3. CASE ReadEfi' = None
  BY <1>2, <1>3 DEF Default
<1>4. CASE ReadEfi' # None
  <2>1. ReadEfi' = chosen /\ chosen # None
    BY <1>4 DEF ReadEfi
  <2>2. ResolveDefault(trees, chosen) = chosen
    BY <1>1, <1>2, <2>1, SelectionStays DEF NoTies
  <2> QED
    BY <2>1, <2>2 DEF Default
<1> QED
  BY <1>3, <1>4

LEMMA ChooseStays ==
  ASSUME StaysInv, NEW sel, NEW archive, NEW alone \in BOOLEAN, Choose(sel, archive, alone),
         alone => sel = Default
  PROVE  StaysInv'
<1>1. UNCHANGED <<trees, efi>> /\ chosen' = sel /\ unattended' = alone /\ last' = IF alone THEN last ELSE None
  BY DEF Choose
<1>2. Default' = Default /\ NoTies' = NoTies
  BY <1>1 DEF Default, ReadEfi, NoTies
<1>3. CASE alone = TRUE
  BY <1>1, <1>2, <1>3 DEF StaysInv
<1>4. CASE alone = FALSE
  BY <1>1, <1>2, <1>4 DEF StaysInv
<1> QED
  BY <1>3, <1>4

\* A step of the attempt, or out of it, that leaves the variable alone.
LEMMA QuietStays ==
  ASSUME StaysInv, UNCHANGED <<trees, efi, last>>,
         pc' \notin Attempt \/ (pc \in Attempt /\ UNCHANGED <<chosen, unattended>>)
  PROVE  StaysInv'
<1>1. Default' = Default /\ NoTies' = NoTies
  BY DEF Default, ReadEfi, NoTies
<1> QED
  BY <1>1 DEF StaysInv

LEMMA NextStays ==
  ASSUME StaysInv, [Next]_vars
  PROVE  StaysInv'
<1>1. CASE CountdownBoots
  BY <1>1, ChooseStays DEF CountdownBoots
<1>2. CASE ChooseEntry
  BY <1>2, ChooseStays DEF ChooseEntry
<1>3. CASE ChooseFile
  BY <1>3, ChooseStays DEF ChooseFile
<1>4. CASE pc' = "exit" /\ UNCHANGED <<trees, efi, history>>
  BY <1>4, QuietStays DEF history, Attempt
<1>5. CASE AutoDefault
  BY <1>4, <1>5, ChooseStays DEF AutoDefault
<1>6. CASE Quit
  BY <1>4, <1>6 DEF Quit
<1>7. CASE OpenFiles \/ WriteSome \/ Written \/ WriteFails \/ KexecFileLoad \/ LoadBare \/ KexecExecFails
  <2>1. pc \in Attempt /\ UNCHANGED <<trees, efi, last, chosen, unattended>>
    BY <1>7 DEF OpenFiles, WriteSome, Written, WriteFails, KexecFileLoad, LoadBare, KexecExecFails, Step, Attempt
  <2> QED
    BY <2>1, QuietStays
<1>8. CASE Remember
  <2>1. /\ pc \in Attempt /\ UNCHANGED <<trees, chosen, unattended, last>>
        /\ efi' = efi \/ (efi = None /\ efi' = chosen)
    BY <1>8 DEF Remember, Step, Attempt, EfiIsImmutable
  <2>2. CASE efi' = efi
    BY <2>1, <2>2, QuietStays
  <2>3. CASE efi = None /\ efi' = chosen /\ unattended
    <3>1. NoTies => Default' = Default
      BY <2>1, <2>3, RememberedStays DEF StaysInv
    <3>2. NoTies' = NoTies
      BY <2>1 DEF NoTies
    <3> QED
      BY <2>1, <2>3, <3>1, <3>2 DEF StaysInv
  <2>4. CASE ~unattended
    BY <2>1, <2>4 DEF StaysInv
  <2> QED
    BY <2>1, <2>2, <2>3, <2>4
<1>9. CASE KexecExec
  <2>1. /\ pc \in Attempt /\ pc' \notin Attempt /\ UNCHANGED <<trees, efi>>
        /\ last' = IF unattended THEN chosen ELSE None
    BY <1>9 DEF KexecExec, Step, Attempt
  <2>2. Default' = Default /\ NoTies' = NoTies
    BY <2>1 DEF Default, ReadEfi, NoTies
  <2> QED
    BY <2>1, <2>2 DEF StaysInv
<1>10. CASE AfterFailure \/ InitShell \/ InitReboots \/ PowerLoss
  <2>1. pc' \notin Attempt /\ UNCHANGED <<trees, efi, last>>
    BY <1>10 DEF AfterFailure, InitShell, InitReboots, PowerLoss, Restarts, PowerUp, Step, Stay, Attempt
  <2> QED
    BY <2>1, QuietStays
<1>11. CASE SystemReboots
  <2>1. /\ pc' \notin Attempt /\ trees' \in Disks /\ efi' = efi
        /\ last' = IF trees' = trees THEN last ELSE None
    BY <1>11 DEF SystemReboots, Restarts, PowerUp, Attempt
  <2>2. CASE trees' = trees
    BY <2>1, <2>2, QuietStays
  <2>3. CASE trees' # trees
    BY <2>1, <2>3 DEF StaysInv
  <2> QED
    BY <2>2, <2>3
<1>12. CASE UNCHANGED vars
  <2>1. UNCHANGED <<trees, efi, last, pc, chosen, unattended>>
    BY <1>12 DEF vars, history
  <2> QED
    BY <2>1, QuietStays
<1> QED
  BY <1>1, <1>2, <1>3, <1>5, <1>6, <1>7, <1>8, <1>9, <1>10, <1>11, <1>12 DEF Next, Program

\* A machine that is left alone boots the same entry again and again.
THEOREM BootUnattendedStays == Spec => []UnattendedStays
<1>1. Init => StaysInv
  BY DEF Init, StaysInv, Attempt
<1>2. StaysInv => UnattendedStays
  BY DEF StaysInv, UnattendedStays
<1> QED
  BY <1>1, <1>2, NextStays, PTL DEF Spec

=============================================================================
