----------------------------- MODULE BootSelect -----------------------------
(***************************************************************************)
(* Which boot entry is pre-selected (kexec-menu-core/src/select.rs), and   *)
(* what docs/spec.md "Default Selection" allows it to be.                  *)
(*                                                                         *)
(* A tree is the sequence of the leaves found under one source, in the     *)
(* order of collect_leaves (directories sorted by name, depth first); the  *)
(* directories between source and leaf matter here only as the parent of   *)
(* the leaf's path.  A path is <<mount point, directory, name>>.           *)
(***************************************************************************)
EXTENDS Integers, Sequences

\* No selection; equal to no selection there can be.
None == [path |-> <<>>, entry |-> ""]

Selection(path, entry) == [path |-> path, entry |-> entry]

Parent(path) == <<path[1], path[2]>>

\* The places of the leaves of all trees, and their order.
Places(trees) == UNION {{<<i, j>> : j \in DOMAIN trees[i]} : i \in DOMAIN trees}
LeafAt(trees, p) == trees[p[1]][p[2]]
Before(p, q) == p[1] < q[1] \/ (p[1] = q[1] /\ p[2] < q[2])

\* What a leaf always is, and trees of them; a path lies under a mount point, so it is
\* not empty.
IsLeaf(leaf) == leaf.path # <<>> /\ leaf.mtime \in Int /\ leaf.entries \in Seq(STRING)
IsTree(tree) == tree \in Seq({tree[j] : j \in DOMAIN tree}) /\ \A j \in DOMAIN tree : IsLeaf(tree[j])
WellFormed(trees) ==
    trees \in Seq({trees[i] : i \in DOMAIN trees}) /\ \A i \in DOMAIN trees : IsTree(trees[i])

Newest(trees, P) ==
    {p \in P : \A q \in P : LeafAt(trees, q).mtime <= LeafAt(trees, p).mtime}

\* Mutant of Siblings: the leaf itself is none of its siblings.
SiblingsOthers(trees, var) ==
    {p \in Places(trees) : Parent(LeafAt(trees, p).path) = Parent(var.path) /\ LeafAt(trees, p).path # var.path}

Siblings(trees, var) == {p \in Places(trees) : Parent(LeafAt(trees, p).path) = Parent(var.path)}

\* No two leaves are equally new.
NoTiesIn(trees) ==
    \A p, q \in Places(trees) : p # q => LeafAt(trees, p).mtime # LeafAt(trees, q).mtime

HasEntry(leaf, name) == \E k \in DOMAIN leaf.entries : leaf.entries[k] = name

\* Mutant of PickEntry: always the first entry.
PickFirst(leaf, name) == Selection(leaf.path, leaf.entries[1])

\* The entry of that name, else the first one.
PickEntry(leaf, name) ==
    Selection(leaf.path, IF HasEntry(leaf, name) THEN name ELSE leaf.entries[1])

----------------------------------------------------------------------------
(* select.rs *)

\* max_by_key keeps the last of equal maxima.
LastOf(P) == CHOOSE p \in P : \A q \in P \ {p} : Before(q, p)

\* resolve_from_efi_var; a newest sibling without entries selects nothing.
FromEfiVar(trees, var) ==
    IF Siblings(trees, var) = {} THEN None
    ELSE LET leaf == LeafAt(trees, LastOf(Newest(trees, Siblings(trees, var)))) IN
         IF leaf.entries = <<>> THEN None ELSE PickEntry(leaf, var.entry)

\* The comparison is strict, so the first of equal maxima stays.
FirstOf(P) == CHOOSE p \in P : \A q \in P \ {p} : Before(p, q)

\* resolve_global_fallback
GlobalFallback(trees) ==
    IF Places(trees) = {} THEN None
    ELSE LET leaf == LeafAt(trees, FirstOf(Newest(trees, Places(trees)))) IN
         IF leaf.entries = <<>> THEN None ELSE Selection(leaf.path, leaf.entries[1])

\* resolve_default; var is None when the EFI variable is absent or unreadable.
ResolveDefault(trees, var) ==
    IF var # None /\ FromEfiVar(trees, var) # None
    THEN FromEfiVar(trees, var)
    ELSE GlobalFallback(trees)

\* The entries there are to be selected.
EntryAt(trees, p, k) == Selection(LeafAt(trees, p).path, LeafAt(trees, p).entries[k])
EntriesIn(trees) ==
    UNION {{EntryAt(trees, p, k) : k \in DOMAIN LeafAt(trees, p).entries} : p \in Places(trees)}

----------------------------------------------------------------------------
(* docs/spec.md:83-88, as what a selection has to satisfy *)

HasEntries(trees, p) == LeafAt(trees, p).entries # <<>>

\* Steps 2 and 3: a most recently modified sibling, its entry of that name if it
\* has one, else its first entry.
SpecSibling(trees, var, sel) ==
    \E p \in Newest(trees, Siblings(trees, var)) :
        LET leaf == LeafAt(trees, p) IN
        /\ leaf.entries # <<>> /\ sel.path = leaf.path
        /\ sel.entry = IF HasEntry(leaf, var.entry) THEN var.entry ELSE leaf.entries[1]

\* Step 4: a globally most recently modified leaf, its first entry; none when
\* there is no leaf, or no entry in it.
SpecGlobal(trees, sel) ==
    IF sel = None
    THEN Places(trees) = {} \/ \E p \in Newest(trees, Places(trees)) : ~HasEntries(trees, p)
    ELSE \E p \in Newest(trees, Places(trees)) :
            HasEntries(trees, p) /\ sel = Selection(LeafAt(trees, p).path, LeafAt(trees, p).entries[1])

\* Step 4 is for when steps 1 to 3 give nothing: no variable, no sibling, or no
\* entry in it.
SpecAllows(trees, var, sel) ==
    \/ var # None /\ SpecSibling(trees, var, sel)
    \/ /\ \/ var = None \/ Siblings(trees, var) = {}
          \/ \E p \in Newest(trees, Siblings(trees, var)) : ~HasEntries(trees, p)
       /\ SpecGlobal(trees, sel)

=============================================================================
