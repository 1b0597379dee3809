------------------------------ MODULE TreeView ------------------------------
(***************************************************************************)
(* The tree view of the menu as it is built (TreeView::build of            *)
(* kexec-menu-core/src/tui.rs): all sources with their boot trees as one   *)
(* list of nodes; the keys on the list are in NodeList, and what the list  *)
(* promises is an Outline.                                                 *)
(*                                                                         *)
(* The boot trees are given here; DiskView reads them from what is on the  *)
(* disks.  A tree is the list of the nodes at its top, of                  *)
(* [kind, name, path, entries, children], and what is in a directory is    *)
(* such a list again.  The default is a selection resolved elsewhere       *)
(* (BootSelect), of an entry that is there or has been.                    *)
(***************************************************************************)
EXTENDS NodeList, FiniteSets, SequencesExt

CONSTANTS
    Trees,      \* boot trees, with what is in their directories
    Height,     \* how deep the directories of each tree go
    Deepest,    \* and of all of them
    Given       \* what every layout is built from: [states |-> seq of source states,
                \*      trees |-> seq of trees, default |-> selection]

IsTree(tree) ==
    /\ DOMAIN tree = 1..Len(tree) /\ Len(tree) \in Nat
    /\ \A i \in DOMAIN tree :
          /\ tree[i].kind \in {"dir", "leaf"}
          /\ tree[i].kind = "dir" =>
                tree[i].children \in Trees /\ Height[tree[i].children] < Height[tree]
          /\ tree[i].kind = "leaf" =>
                DOMAIN tree[i].entries = 1..Len(tree[i].entries) /\ Len(tree[i].entries) \in Nat

\* A source that is not mounted has no tree: build_source_tree gives it an empty one.
IsGiven(found) ==
    /\ DOMAIN found.trees = 1..Len(found.trees) /\ Len(found.trees) \in Nat \ {0}
    /\ \A i \in DOMAIN found.trees :
          /\ found.trees[i] \in Trees
          /\ found.trees[i] # <<>> => Expandable(found.states[i])

ASSUME TreesAssumption ==
    /\ Deepest \in Nat /\ Height \in [Trees -> 0..Deepest]
    /\ \A tree \in Trees : IsTree(tree)
    /\ \A l \in DOMAIN Given : IsGiven(Given[l])

----------------------------------------------------------------------------
(* Building the view *)

\* tree_contains_path
ContainsPath(tree, path) ==
    LET has[t \in Trees] ==
            \E i \in DOMAIN t : IF t[i].kind = "leaf" THEN t[i].path = path ELSE has[t[i].children]
    IN  has[tree]

Node(kind, depth, src, state, name, path, expanded, default) ==
    [kind |-> kind, depth |-> depth, src |-> src, state |-> state, name |-> name, path |-> path,
     expanded |-> expanded, visible |-> FALSE, default |-> default]

NodeState(state, tree) == IF state \in {"Mounted", "Static"} /\ tree = <<>> THEN "Empty" ELSE state

IsDefault(leaf, name, sel) == sel.path = leaf.path /\ sel.entry = name

\* Mutant of Leads: every directory is opened, but no leaf.
LeadsDirsOnly(tree, sel) == \E i \in DOMAIN tree : tree[i].kind = "dir"

\* A source or a directory is opened if the default's leaf is in it.
Leads(tree, sel) == ContainsPath(tree, sel.path)

EntryNodes(leaf, depth, src, sel) ==
    [k \in DOMAIN leaf.entries |->
        Node("entry", depth, src, "", leaf.entries[k], <<>>, FALSE, IsDefault(leaf, leaf.entries[k], sel))]

\* A directory with what is in it, or a leaf with its entries.
NodesOf(t, depth, src, sel, inside) ==
    IF t.kind = "dir"
    THEN <<Node("dir", depth, 0, "", t.name, <<>>, Leads(t.children, sel), FALSE)>> \o inside
    ELSE <<Node("leaf", depth, 0, "", Last(t.path), t.path, sel.path = t.path, FALSE)>>
             \o EntryNodes(t, depth + 1, src, sel)

\* add_tree_nodes
AddTreeNodes(tree, depth, src, sel) ==
    LET add[at \in [tree : Trees, depth : Nat]] ==
            FlattenSeq([i \in DOMAIN at.tree |->
                NodesOf(at.tree[i], at.depth, src, sel,
                        add[[tree |-> at.tree[i].children, depth |-> at.depth + 1]])])
    IN  add[[tree |-> tree, depth |-> depth]]

\* The first source that has the default's leaf is opened.
DefaultSource(trees, sel) == SelectInSeq(trees, LAMBDA tree : ContainsPath(tree, sel.path))

SourceNodes(i, tree, state, leads, sel) ==
    <<Node("source", 0, i, state, "", <<>>, Expandable(state) /\ leads, FALSE)>>
        \o (IF Expandable(state) THEN AddTreeNodes(tree, 1, i, sel) ELSE <<>>)

\* TreeView::build
BuildNodes(found) ==
    LET first == DefaultSource(found.trees, found.default)
        source(i) ==
            SourceNodes(i, found.trees[i], NodeState(found.states[i], found.trees[i]), first = i,
                        found.default)
    IN  RecomputeVisibility(FlattenSeq([i \in DOMAIN found.trees |-> source(i)]))

----------------------------------------------------------------------------
(* The lists for the keys *)

\* What NodeList has for Views: the list of every layout.
BuildViews == [l \in DOMAIN Given |-> BuildNodes(Given[l])]

----------------------------------------------------------------------------
(* Properties *)

\* The default's entry is there, and nothing else has its path and name.
Unambiguous(sel, list) ==
    /\ Cardinality(DefaultsOf(list)) = 1
    /\ Cardinality({i \in DOMAIN list : list[i].kind = "leaf" /\ list[i].path = sel.path}) = 1

DefaultIn == [l \in Layouts |-> Given[l].default]

ShowsDefault(list, sel) ==
    LET first == Lowest(DefaultsOf(list)) IN
    /\ BuildCursor(list) = first /\ list[first].visible
    /\ LeafPathOf(list, first) = sel.path
    /\ list[first].name = sel.entry

\* A view that is built anew shows its default under the cursor, and the countdown
\* boots the one that is shown: boot_default takes the first node marked, with the
\* leaf above it.
DefaultUnderCursor ==
    Unambiguous(DefaultIn[layout], Built[layout]) => ShowsDefault(Built[layout], DefaultIn[layout])

=============================================================================
