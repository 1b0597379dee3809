------------------------------ MODULE NodeList ------------------------------
(***************************************************************************)
(* The list of nodes a tree view is kept in, and the keys on it (TreeView  *)
(* and handle_tree_view_key of kexec-menu-core/src/tui.rs,                 *)
(* find_entry_leaf_path and boot_default of kexec-menu/src/main.rs): only  *)
(* the depth of a node tells what it is under, and visibility is a flag    *)
(* that is recomputed after every change.                                  *)
(*                                                                         *)
(* The lists that are built are given here; TreeView builds them from what *)
(* is on the disks.  A rescan or an unlock brings another layout.  Indices *)
(* count from 1; a view without nodes is in Menu.                          *)
(***************************************************************************)
EXTENDS Integers, Sequences

CONSTANTS
    Views,      \* the list of nodes of every layout, as it is built
    Machines    \* each the set of layouts that it may be found in, one after another

VARIABLES
    layout,    \* what was found last
    nodes, cursor,
    asked      \* what the last key asked run_tui to do

vars == <<layout, nodes, cursor, asked>>

\* The views, worked out once.
Built == Views
Layouts == DOMAIN Built

----------------------------------------------------------------------------
(* Nodes *)

Fields == {"kind", "depth", "src", "state", "name", "path", "expanded", "visible", "default"}

Expandable(state) == state \in {"Mounted", "Static"}

\* The nodes that node i is under: no other as deep as they are comes between.
Above(list, i) == {j \in 1..(i - 1) : \A k \in (j + 1)..i : list[j].depth < list[k].depth}

\* Mutant of Uncovers: a node beside the collapsed one stays hidden too.
UncoversDeep(node, below) == node.depth < below

\* The scan leaves the collapsed subtree.
Uncovers(node, below) == node.depth <= below

NotHidden == -1

\* Where the scan is at a node, and after it: the depth of the collapsed node it is
\* under.
HiddenAt(below, node) == IF Uncovers(node, below) THEN NotHidden ELSE below
HiddenAfter(below, node) ==
    IF HiddenAt(below, node) # NotHidden THEN HiddenAt(below, node)
    ELSE IF ~node.expanded /\ node.kind # "entry" THEN node.depth ELSE NotHidden

\* recompute_visibility: one scan from the first node on.
RecomputeVisibility(list) ==
    LET below[i \in 0..Len(list)] == IF i = 0 THEN NotHidden ELSE HiddenAfter(below[i - 1], list[i])
    IN  [i \in DOMAIN list |-> [list[i] EXCEPT !.visible = (HiddenAt(below[i - 1], list[i]) = NotHidden)]]

\* What add_tree_nodes makes of boot trees: sources are at depth 0 and come first, and
\* the entries of a leaf follow it, with nothing under them.
IsView(list) ==
    /\ DOMAIN list = 1..Len(list) /\ Len(list) \in Nat \ {0} /\ list[1].kind = "source"
    /\ \A i \in DOMAIN list :
          /\ DOMAIN list[i] = Fields /\ list[i].kind \in {"source", "dir", "leaf", "entry"}
          /\ list[i].depth \in Nat /\ list[i].expanded \in BOOLEAN
          /\ list[i].kind = "source" <=> list[i].depth = 0
          /\ list[i].kind = "entry" => ~list[i].expanded
    /\ \A i \in 2..Len(list) :
          /\ list[i].kind = "entry" =>
                \/ list[i - 1].kind = "leaf" /\ list[i].depth = list[i - 1].depth + 1
                \/ list[i - 1].kind = "entry" /\ list[i].depth = list[i - 1].depth
          /\ list[i - 1].kind = "entry" => list[i].depth <= list[i - 1].depth

Lowest(S) == CHOOSE i \in S : \A j \in S : i <= j
Highest(S) == CHOOSE i \in S : \A j \in S : j <= i

Toggles(node) == node.kind # "entry" /\ ~(node.kind = "source" /\ ~Expandable(node.state))

\* The source that node i is in.
SourceAt(list, i) == Highest({j \in 1..i : list[j].kind = "source"})

\* And more of it: nodes go one deeper at a time, sources are numbered as they come,
\* entries have the number of the source they are in, and what starts expanded is what
\* the keys can expand.
IsNumbered(list) ==
    /\ \A i \in DOMAIN list \ {1} :
          /\ list[i].depth <= list[i - 1].depth + 1
          /\ list[i].kind = "source" => list[i].src = list[SourceAt(list, i - 1)].src + 1
    /\ list[1].src = 1
    /\ \A i \in DOMAIN list :
          /\ list[i].kind = "entry" => list[i].src = list[SourceAt(list, i)].src
          /\ list[i].expanded => Toggles(list[i])

\* Lists that can have been built, with the flags as they are computed at the end.
AreBuilt(views) ==
    \A l \in DOMAIN views :
        IsView(views[l]) /\ IsNumbered(views[l]) /\ views[l] = RecomputeVisibility(views[l])

ASSUME BuiltAssumption == AreBuilt(Built)

----------------------------------------------------------------------------
(* A view that was built *)

DefaultsOf(list) == {i \in DOMAIN list : list[i].default}

\* Mutant of BuildCursor: on the default, also when there is none.
BuildCursorOnDefault(list) == IF DefaultsOf(list) = {} THEN 0 ELSE Highest(DefaultsOf(list))

\* The cursor starts on the last node marked as default, if it is visible.
BuildCursor(list) ==
    IF DefaultsOf(list) # {} /\ list[Highest(DefaultsOf(list))].visible
    THEN Highest(DefaultsOf(list)) ELSE 1

Nothing == [kind |-> "none", src |-> 0, path |-> <<>>, entry |-> ""]

Init ==
    /\ layout \in Layouts
    /\ nodes = Built[layout] /\ cursor = BuildCursor(nodes)
    /\ asked = Nothing

Playing == asked.kind # "boot"

\* What a layout may turn into.
Turns == [l \in Layouts |-> UNION {machine \in Machines : l \in machine}]

\* r, or a passphrase that opened a source.
Rebuild(l) ==
    /\ Playing /\ l \in Turns[layout]
    /\ layout' = l /\ nodes' = Built[l] /\ cursor' = BuildCursor(nodes')
    /\ asked' = Nothing

----------------------------------------------------------------------------
(* Moving *)

\* Mutant of VisibleAfter: the flag is not looked at.
AnyAfter(i) == {j \in DOMAIN nodes : j > i}

VisibleAfter(i) == {j \in DOMAIN nodes : j > i /\ nodes[j].visible}
VisibleBefore(list, i) == {j \in DOMAIN list : j < i /\ list[j].visible}

Go(i) == cursor' = i /\ asked' = Nothing /\ UNCHANGED <<layout, nodes>>
Stay == Go(cursor)

\* move_down
MoveDown ==
    /\ Playing
    /\ IF VisibleAfter(cursor) = {} THEN Stay ELSE Go(Lowest(VisibleAfter(cursor)))

\* move_up
MoveUp ==
    /\ Playing
    /\ IF VisibleBefore(nodes, cursor) = {} THEN Stay ELSE Go(Highest(VisibleBefore(nodes, cursor)))

----------------------------------------------------------------------------
(* Opening and shutting *)

Here == nodes[cursor]

\* ensure_cursor_visible
VisibleCursor(list) ==
    IF list[cursor].visible THEN cursor
    ELSE IF VisibleBefore(list, cursor) = {} THEN 1 ELSE Highest(VisibleBefore(list, cursor))

\* toggle
Toggle ==
    IF ~Toggles(Here) THEN Stay
    ELSE /\ nodes' = RecomputeVisibility([nodes EXCEPT ![cursor].expanded = ~@])
         /\ cursor' = VisibleCursor(nodes')
         /\ asked' = Nothing /\ UNCHANGED layout

\* Right: expand
Expand ==
    /\ Playing
    /\ IF Here.kind # "entry" /\ ~Here.expanded THEN Toggle ELSE Stay

\* The nearest of these is the parent.
Outer(i) == {j \in VisibleBefore(nodes, i) : nodes[j].depth < nodes[i].depth}

\* Left: collapse, or go to the parent; in a shut source it does nothing.
Collapse ==
    /\ Playing
    /\ IF Here.kind # "entry" /\ Here.expanded THEN Toggle
       ELSE IF Outer(cursor) = {} THEN Stay ELSE Go(Highest(Outer(cursor)))

----------------------------------------------------------------------------
(* Enter and f *)

Request(kind, src, path, entry) ==
    /\ asked' = [kind |-> kind, src |-> src, path |-> path, entry |-> entry]
    /\ UNCHANGED <<layout, nodes, cursor>>

\* Mutant of LeafPathOf: the first leaf of the list.
FirstLeafPath(list, i) == list[Lowest({j \in DOMAIN list : list[j].kind = "leaf"})].path

\* find_entry_leaf_path, boot_default: backwards to the nearest leaf node.
LeafPathOf(list, i) == list[Highest({j \in 1..i : list[j].kind = "leaf"})].path

\* Enter on an entry: boots it, with the leaf that is found above it.
EnterEntry ==
    /\ Playing /\ Here.kind = "entry"
    /\ Request("boot", Here.src, LeafPathOf(nodes, cursor), Here.name)

\* Enter on a locked source asks for its passphrase.
EnterLocked ==
    /\ Playing /\ Here.kind = "source" /\ Here.state = "Encrypted"
    /\ Request("unlock", Here.src, <<>>, "")

\* Enter elsewhere toggles.
EnterOther ==
    /\ Playing /\ Here.kind # "entry" /\ ~(Here.kind = "source" /\ Here.state = "Encrypted")
    /\ Toggle

\* f: cursor_source_idx walks backwards to the source node.
CursorSource == nodes[SourceAt(nodes, cursor)].src

OpenFileBrowser == Playing /\ Request("browse", CursorSource, <<>>, "")

Next ==
    \/ \E l \in Layouts : Rebuild(l)
    \/ MoveDown \/ MoveUp \/ Expand \/ Collapse
    \/ EnterEntry \/ EnterLocked \/ EnterOther \/ OpenFileBrowser

Spec == Init /\ [][Next]_vars

----------------------------------------------------------------------------
(* The list as an outline *)

\* The place of every node, from the depths alone: a node is the next child of the
\* nearest node before it that is less deep.
NextPlace(before, d) ==
    Append(SubSeq(before, 1, d), IF Len(before) > d THEN before[d + 1] + 1 ELSE 1)
PlacesOf(list) ==
    LET place[i \in 0..Len(list)] == IF i = 0 THEN <<>> ELSE NextPlace(place[i - 1], list[i].depth)
    IN  [i \in DOMAIN list |-> place[i]]

What(node) ==
    [kind |-> node.kind, state |-> node.state, path |-> node.path, name |-> node.name]

ShapeOf(list, places) ==
    [p \in {places[i] : i \in DOMAIN list} |-> What(list[CHOOSE i \in DOMAIN list : places[i] = p])]

\* The same for the views as they are built, to be worked out once: keys change
\* flags only (see VisibleAreUnfolded).
PlacesIn == [l \in Layouts |-> PlacesOf(Built[l])]
ShapeIn == [l \in Layouts |-> ShapeOf(Built[l], PlacesIn[l])]
Places == PlacesIn[layout]

Shape == ShapeIn[layout]
OpenPlaces == {Places[i] : i \in {j \in DOMAIN nodes : nodes[j].expanded}}
CursorPlace == Places[cursor]

\* The list implements the outline: whatever is toggled, moved over and rebuilt, the
\* cursor is on a node under expanded ones only and goes to the next or the last of
\* these, Left goes to the parent or shuts, and what Enter and f ask for is the entry
\* under the cursor with the leaf and the source it is in.
Abstract == INSTANCE Outline WITH shape <- Shape, open <- OpenPlaces, at <- CursorPlace

ImplementsOutline == Abstract!Spec

----------------------------------------------------------------------------
(* Properties *)

TypeOK ==
    /\ layout \in Layouts
    /\ cursor \in DOMAIN nodes
    /\ \A i \in DOMAIN nodes : nodes[i].kind = "entry" => ~nodes[i].expanded
    /\ asked.kind \in {"none", "boot", "unlock", "browse"}

\* "A node is visible iff all ancestors are expanded" (tui.rs:447), though one scan over
\* the depths has to find out; and keys change the two flags of a node and nothing else.
Lasting(node) == <<node.kind, node.depth, node.src, node.state, node.name, node.path, node.default>>
VisibleAreUnfolded ==
    /\ DOMAIN nodes = DOMAIN Built[layout]
    /\ \A i \in DOMAIN nodes :
          /\ Lasting(nodes[i]) = Lasting(Built[layout][i])
          /\ nodes[i].visible <=> \A j \in Above(nodes, i) : nodes[j].expanded

\* The cursor is on a node that is shown, whatever is shut around it.
CursorIsShown == nodes[cursor].visible

\* What was asked for is what the cursor is on or in, though it is found by going
\* backwards through nodes that are hidden or belong to others: an entry is booted from
\* the leaf it is in, and the source that is browsed is the one the cursor is in.
RequestIsOfCursor ==
    /\ asked.kind = "boot" =>
          \E j \in Above(nodes, cursor) :
              /\ nodes[j].kind = "leaf" /\ nodes[j].depth = nodes[cursor].depth - 1
              /\ asked.path = nodes[j].path /\ asked.entry = nodes[cursor].name
    /\ asked.kind = "browse" =>
          \E j \in Above(nodes, cursor) \cup {cursor} :
              nodes[j].kind = "source" /\ asked.src = nodes[j].src

=============================================================================
