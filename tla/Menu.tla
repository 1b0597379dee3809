-------------------------------- MODULE Menu --------------------------------
(***************************************************************************)
(* One session of the boot menu: run and run_tui of kexec-menu/src/main.rs *)
(* with the key handlers of tui.rs.                                        *)
(*                                                                         *)
(* The program keeps three parallel things: the sources, their trees (by   *)
(* the same index) and the tree view, a copy of both with the default      *)
(* marked.  Keys act on the view, and what they do is carried out on the   *)
(* sources by index.  Rescanning and unlocking replace all three.          *)
(*                                                                         *)
(* Moving the cursor, expanding and collapsing are left out: every entry   *)
(* of the view can be reached, so a key on some node of the view is an     *)
(* action on any node.  The countdown is a choice between its two ends.    *)
(***************************************************************************)
EXTENDS Sources

CONSTANTS
    EfiVars,       \* what the EFI variable may hold at the start, None included
    StaticLists,   \* what static.json may hold, <<>> when it cannot be read
    MaxDepth       \* bound: how deep the file browser goes

ASSUME StaticAssumption == \A list \in StaticLists : IsTree(list)

ASSUME DepthAssumption == MaxDepth \in Nat

VARIABLES
    phase,     \* "start", "countdown", "menu" or "ended"
    efi,       \* the last booted selection, read from the EFI variable
    sources, trees,
    default,   \* the selection resolved at the start
    view,      \* the tree view as it was last built
    side,      \* the side screen
    result     \* how the session ended

env == <<plugged, damaged, statics, efi>>
session == <<phase, sources, trees, default, view, side, result>>
vars == <<env, kernel, session>>

----------------------------------------------------------------------------
(* The tree view *)

\* A mounted or static source without leaves shows as empty.
NodeState(src, tree) ==
    IF src.state \in {"Mounted", "Static"} /\ tree = <<>> THEN "Empty" ELSE src.state

\* TreeView::build
BuildView(srcs, trs, sel) ==
    [state |-> [i \in DOMAIN srcs |-> NodeState(srcs[i], trs[i])], trees |-> trs, default |-> sel]

\* The entry nodes: source, leaf and entry index.  Only expandable sources have any.
EntryNodes(v) ==
    UNION {UNION {{<<i, j, k>> : k \in DOMAIN v.trees[i][j].entries} : j \in DOMAIN v.trees[i]} :
              i \in {s \in DOMAIN v.state : v.state[s] \in {"Mounted", "Static"}}}

NodeSelection(v, n) ==
    Selection(v.trees[n[1]][n[2]].path, v.trees[n[1]][n[2]].entries[n[3]])

\* The nodes marked is_default.
DefaultNodes(v) == {n \in EntryNodes(v) : NodeSelection(v, n) = v.default}

\* The first of them in the order of the view.
NodeBefore(m, n) ==
    m[1] < n[1] \/ (m[1] = n[1] /\ (m[2] < n[2] \/ (m[2] = n[2] /\ m[3] < n[3])))
FirstDefault(v) ==
    CHOOSE n \in DefaultNodes(v) : \A m \in DefaultNodes(v) \ {n} : NodeBefore(n, m)

\* default_is_locked: the state of the source of the default entry.
DefaultIsLocked(v) == DefaultNodes(v) # {} /\ v.state[FirstDefault(v)[1]] = "Encrypted"

EmptyView == [state |-> <<>>, trees |-> <<>>, default |-> None]

----------------------------------------------------------------------------
(* Screens and results *)

NoSide == [kind |-> "none", idx |-> 0, failed |-> FALSE, depth |-> 0]
Prompt(i, failed) == [kind |-> "passphrase", idx |-> i, failed |-> failed, depth |-> 0]
Browser(i, depth) == [kind |-> "browser", idx |-> i, failed |-> FALSE, depth |-> depth]

\* key: the device whose passphrase is handed to the booted system.
\* by: who chose the entry, "user" or "default".
NoKey == <<>>
Booted(sel, key, by) ==
    [kind |-> "Boot", path |-> sel.path, entry |-> sel.entry, key |-> key, by |-> by]
Plain(kind, path) == [kind |-> kind, path |-> path, entry |-> "", key |-> NoKey, by |-> "user"]
NoResult == Plain("none", <<>>)

\* Mutant of KeyData: the passphrase of whichever source was unlocked.
KeyDataOfAny(i) == {NoKey} \cup {sources[j].dev : j \in {n \in DOMAIN sources : sources[n].pass}}

\* source_key_data: the stored passphrase, if the disk's UUID can be looked up;
\* udev does not run here, so the lookup may fail for any disk.
KeyData(i) == {NoKey} \cup (IF sources[i].pass THEN {sources[i].dev} ELSE {})

\* run, for a Boot result: an entry of the view, with the source at its index.
BootNode(n, by) ==
    /\ phase' = "ended"
    /\ \E key \in KeyData(n[1]) : result' = Booted(NodeSelection(view, n), key, by)

End(r) == phase' = "ended" /\ result' = r

InMenu == phase = "menu" /\ side.kind = "none"
Prompting == phase = "menu" /\ side.kind = "passphrase"
Browsing == phase = "menu" /\ side.kind = "browser"

----------------------------------------------------------------------------
(* Start *)

Init ==
    /\ plugged \in SUBSET Disks /\ damaged \in SUBSET Disks /\ statics \in StaticLists
    /\ mounts = {} /\ opened = <<>> /\ keyring = {}
    /\ phase = "start" /\ efi \in EfiVars
    /\ sources = <<>> /\ trees = <<>> /\ default = None
    /\ view = EmptyView /\ side = NoSide /\ result = NoResult

\* run up to run_tui: discover, read the trees, append the static entries, stop if
\* there is no source, resolve the default, build the view, and count down if
\* there is a timeout, a default, and its source is not locked.
Start(timeout) ==
    /\ phase = "start"
    /\ sources' = AllSources /\ trees' = AllTrees
    /\ mounts' = MountsDiscovered
    /\ IF AllSources = <<>>
       THEN End(Plain("Error", <<>>)) /\ UNCHANGED <<default, view>>
       ELSE /\ default' = ResolveDefault(AllTrees, efi)
            /\ view' = BuildView(AllSources, AllTrees, default')
            /\ phase' = IF timeout /\ default' # None /\ ~DefaultIsLocked(view')
                        THEN "countdown" ELSE "menu"
            /\ UNCHANGED result
    /\ UNCHANGED <<env, opened, keyring, side>>

\* The same with --auto-default: boot the default without a menu and without a key.
StartAutoDefault ==
    /\ phase = "start"
    /\ sources' = AllSources /\ trees' = AllTrees
    /\ mounts' = MountsDiscovered
    /\ default' = ResolveDefault(AllTrees, efi)
    /\ End(IF default' = None THEN Plain("Error", <<>>)
           ELSE Booted(default', NoKey, "default"))
    /\ UNCHANGED <<env, opened, keyring, view, side>>

\* boot_default at the end of the countdown; without a default node the menu
\* opens.
CountdownExpires ==
    /\ phase = "countdown"
    /\ IF DefaultNodes(view) = {} THEN phase' = "menu" /\ UNCHANGED result
       ELSE BootNode(FirstDefault(view), "default")
    /\ UNCHANGED <<env, kernel, sources, trees, default, view, side>>

CountdownCancelled ==
    /\ phase = "countdown" /\ phase' = "menu"
    /\ UNCHANGED <<env, kernel, sources, trees, default, view, side, result>>

----------------------------------------------------------------------------
(* The boot tree screen *)

\* Enter on an entry.
BootEntry(n) ==
    /\ InMenu /\ n \in EntryNodes(view)
    /\ BootNode(n, "user")
    /\ UNCHANGED <<env, kernel, sources, trees, default, view, side>>

\* Mutant of OpenPrompt: Enter on any source that is not expandable.
OpenPromptOnAny(i) ==
    /\ InMenu /\ i \in DOMAIN view.state /\ view.state[i] \notin {"Mounted", "Static"}
    /\ side' = Prompt(i, FALSE)
    /\ UNCHANGED <<env, kernel, phase, sources, trees, default, view, result>>

\* Enter on a locked source.
OpenPrompt(i) ==
    /\ InMenu /\ i \in DOMAIN view.state /\ view.state[i] = "Encrypted"
    /\ side' = Prompt(i, FALSE)
    /\ UNCHANGED <<env, kernel, phase, sources, trees, default, view, result>>

\* f on a node of source i: the browser opens if the source is mounted and its
\* root can be read.
OpenBrowser(i) ==
    /\ InMenu /\ i \in DOMAIN view.state
    /\ sources[i].mp # NoMount
    /\ side' = Browser(i, 0)
    /\ UNCHANGED <<env, kernel, phase, sources, trees, default, view, result>>

\* f on a view without nodes: cursor_source_idx reads node 0, and the program
\* aborts.
BrowseNothing ==
    /\ InMenu /\ view.state = <<>>
    /\ End(Plain("Panic", <<>>))
    /\ UNCHANGED <<env, kernel, sources, trees, default, view, side>>

\* Mutant of Refresh: the view is left as it was.
RefreshKeepsView ==
    /\ InMenu
    /\ sources' = AllSources /\ trees' = AllTrees
    /\ mounts' = MountsDiscovered
    /\ UNCHANGED <<env, opened, keyring, phase, default, view, side, result>>

\* r: discover again and replace everything; the EFI variable is not consulted,
\* and that there may be no source left is not checked.
Refresh ==
    /\ InMenu
    /\ sources' = AllSources /\ trees' = AllTrees
    /\ mounts' = MountsDiscovered
    /\ view' = BuildView(AllSources, AllTrees, ResolveDefault(AllTrees, None))
    /\ UNCHANGED <<env, opened, keyring, phase, default, side, result>>

\* ! and q
Leave(how) ==
    /\ InMenu /\ End(Plain(how, <<>>))
    /\ UNCHANGED <<env, kernel, sources, trees, default, view, side>>

----------------------------------------------------------------------------
(* The passphrase screen *)

\* Enter, unlock_and_mount succeeds: the source is mounted, keeps the passphrase,
\* and gets its tree; the view is built with the selection of the start.
SubmitOpens(right) ==
    LET i == side.idx
        after == Unlock(sources[i].dev[1], right)
    IN  /\ Prompting /\ after.mp # NoMount
        /\ opened' = after.opened /\ keyring' = after.keyring /\ mounts' = after.mounts
        /\ sources' = [sources EXCEPT ![i] = Source(sources[i].dev, "Mounted", after.mp, TRUE)]
        /\ trees' = [trees EXCEPT ![i] = TreeOf(sources'[i])]
        /\ view' = BuildView(sources', trees', default)
        /\ side' = NoSide
        /\ UNCHANGED <<env, phase, default, result>>

\* Enter, it fails: the error is shown and the input cleared.  The mapping or the
\* key may have been added before the step that failed.
SubmitFails(right) ==
    LET after == Unlock(sources[side.idx].dev[1], right)
    IN  /\ Prompting /\ after.mp = NoMount
        /\ opened' = after.opened /\ keyring' = after.keyring /\ mounts' = after.mounts
        /\ side' = Prompt(side.idx, TRUE)
        /\ UNCHANGED <<env, phase, sources, trees, default, view, result>>

\* Escape
ClosePrompt ==
    /\ Prompting /\ side' = NoSide
    /\ UNCHANGED <<env, kernel, phase, sources, trees, default, view, result>>

----------------------------------------------------------------------------
(* The file browser *)

\* Enter on a directory, Escape below the root: the listing is replaced if it can
\* be read.
BrowseTo(depth) ==
    /\ Browsing /\ depth \in {side.depth - 1, side.depth + 1}
    /\ side' = Browser(side.idx, depth)
    /\ UNCHANGED <<env, kernel, phase, sources, trees, default, view, result>>

\* Enter on a bootable file, under the mount point the browser was opened on.
BootFile ==
    /\ Browsing
    /\ End(Plain("BootFile", sources[side.idx].mp))
    /\ UNCHANGED <<env, kernel, sources, trees, default, view, side>>

\* Escape at the root
CloseBrowser ==
    /\ Browsing /\ side.depth = 0
    /\ side' = NoSide
    /\ UNCHANGED <<env, kernel, phase, sources, trees, default, view, result>>

----------------------------------------------------------------------------
(* The surroundings: disks come and go *)

Plug(d) ==
    /\ phase \in {"countdown", "menu"} /\ d \notin plugged
    /\ plugged' = plugged \cup {d}
    /\ UNCHANGED <<damaged, statics, efi, kernel, session>>

Unplug(d) ==
    /\ phase \in {"countdown", "menu"} /\ d \in plugged
    /\ plugged' = plugged \ {d}
    /\ UNCHANGED <<damaged, statics, efi, kernel, session>>

----------------------------------------------------------------------------

Next ==
    \/ \E timeout \in BOOLEAN : Start(timeout)
    \/ StartAutoDefault
    \/ CountdownExpires \/ CountdownCancelled
    \/ \E n \in EntryNodes(view) : BootEntry(n)
    \/ \E i \in DOMAIN view.state : OpenPrompt(i) \/ OpenBrowser(i)
    \/ BrowseNothing \/ Refresh
    \/ \E how \in {"Shell", "Quit"} : Leave(how)
    \/ \E right \in BOOLEAN : SubmitOpens(right) \/ SubmitFails(right)
    \/ ClosePrompt
    \/ \E depth \in 0..MaxDepth : BrowseTo(depth)
    \/ BootFile \/ CloseBrowser
    \/ \E d \in Disks : Plug(d) \/ Unplug(d)

Spec == Init /\ [][Next]_vars

----------------------------------------------------------------------------
(* Properties *)

TypeOK ==
    /\ phase \in {"start", "countdown", "menu", "ended"}
    /\ plugged \subseteq Disks /\ damaged \subseteq Disks /\ keyring \subseteq Disks
    /\ \A i \in DOMAIN opened : opened[i] \in Disks /\ Kind[opened[i]] = "luks"
    /\ \A i \in DOMAIN sources :
          /\ sources[i].state \in {"Mounted", "Encrypted", "Error", "Static"}
          /\ sources[i].pass \in BOOLEAN
    /\ side.kind \in {"none", "passphrase", "browser"} /\ side.depth \in 0..MaxDepth
    /\ result.kind \in {"none", "Boot", "BootFile", "Shell", "Quit", "Panic", "Error"}
    /\ result.kind = "none" <=> phase # "ended"

\* The three parallel structures never drift apart: tree i is the boot tree of
\* source i, and the view shows these sources and trees.  Every index a key takes
\* from the view is used on the sources.
ViewMirrorsSources ==
    phase \in {"countdown", "menu"} =>
        /\ DOMAIN trees = DOMAIN sources
        /\ \A i \in DOMAIN sources :
              sources[i].state # "Static" => trees[i] = TreeOf(sources[i])
        /\ view = BuildView(sources, trees, view.default)

\* The passphrase screen stands for a source that is there, is still locked and
\* has no passphrase yet; the browser for one that is mounted.  Both hold an index
\* while keys are typed and disks come and go.
SideNamesItsSource ==
    /\ side.kind = "passphrase" =>
          side.idx \in DOMAIN sources /\ sources[side.idx].state = "Encrypted" /\ ~sources[side.idx].pass
    /\ side.kind = "browser" =>
          side.idx \in DOMAIN sources /\ sources[side.idx].mp \in mounts

\* A passphrase handed to the booted system is the one of the disk its leaf is
\* on, and it did unlock that disk.
KeyBelongsToLeaf ==
    result.kind = "Boot" /\ result.key # NoKey =>
        LET d == result.key[1] IN
        /\ result.path[1][1] = d
        /\ IsOpened(d) \/ d \in keyring

\* Whatever the menu shows or boots lies on a mounted filesystem, and so on one
\* that is plain or unlocked, or comes from the image.
ShownIsMounted ==
    /\ \A n \in EntryNodes(view) :
          sources[n[1]].state = "Static" \/ view.trees[n[1]][n[2]].path[1] \in mounts
    /\ result.kind = "Boot" =>
          \/ result.path[1] \in mounts
          \/ \E n \in DOMAIN statics : statics[n].path = result.path

\* What the countdown and --auto-default boot, with nobody choosing, is what the
\* spec's rules select from the trees found, given what was booted last.
UnattendedFollowsSpec ==
    result.by = "default" => SpecAllows(trees, efi, Selection(result.path, result.entry))

\* A source shown as locked whose disk is there and sound opens with the right
\* passphrase, whatever was unlocked, rescanned and unplugged before; except that a
\* LUKS container whose mapping is open stays locked, because it is listed again
\* after a rescan and cryptsetup will not open it twice.
LockedOpens ==
    phase = "menu" =>
        \A i \in DOMAIN sources :
            LET d == sources[i].dev[1] IN
            sources[i].state = "Encrypted" /\ d \in plugged \ damaged /\ ~IsOpened(d) =>
                Unlock(d, TRUE).mp # NoMount

----------------------------------------------------------------------------
(* What a doc says and the code does not do *)

\* "Press r to rescan block devices and refresh the source list" (spec.md:109): a
\* source whose disk is still there keeps its boot tree.
RefreshKeepsMounted ==
    [][\A i \in DOMAIN sources :
          LET d == sources[i].dev[1] IN
          sources[i].state = "Mounted" /\ d \in plugged /\ sources' # sources =>
              \E j \in DOMAIN sources' :
                  sources'[j].state = "Mounted" /\ sources'[j].mp[1] = sources[i].mp[1]]_vars

============================================================================
