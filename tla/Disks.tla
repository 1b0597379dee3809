------------------------------- MODULE Disks -------------------------------
(***************************************************************************)
(* What is on the disks of every layout, and the boot trees that BootTree  *)
(* reads from it (build_source_tree of kexec-menu-core/src/tree.rs for     *)
(* every source, and the static entries after them).                       *)
(***************************************************************************)
EXTENDS BootTree

CONSTANT
    Found       \* what a layout is: [sources |-> seq of [state, boot], static |-> file,
                \*                    default |-> selection]

----------------------------------------------------------------------------
(* From the disks to the trees *)

\* The sources of a layout and their trees, the static ones last.
TreesOf(l) ==
    [i \in DOMAIN l.sources |->
        IF l.sources[i].state = "Mounted" THEN SourceTree(l.sources[i].boot, <<i>>) ELSE <<>>]
    \o StaticTreesOf(l.static)

StateOf(l, i) == IF i \in DOMAIN l.sources THEN l.sources[i].state ELSE "Static"

\* What TreeView has for Given.
GivenBy(l, trees) ==
    [states |-> [i \in DOMAIN trees |-> StateOf(l, i)], trees |-> trees, default |-> l.default]
ReadTrees ==
    LET found == Found IN [l \in DOMAIN found |-> GivenBy(found[l], TreesOf(found[l]))]

\* And for Trees, Height and Deepest: everything that is in those trees.
RECURSIVE Within(_)
Within(tree) == {tree} \cup UNION {Within(tree[i].children) : i \in DOMAIN tree}

RECURSIVE HeightOf(_)
HeightOf(tree) == IF tree = <<>> THEN 0 ELSE 1 + Max({HeightOf(tree[i].children) : i \in DOMAIN tree})

AllTrees ==
    LET read == ReadTrees IN
    UNION {UNION {Within(read[l].trees[i]) : i \in DOMAIN read[l].trees} : l \in DOMAIN read}
AllHeights == LET all == AllTrees IN [tree \in all |-> HeightOf(tree)]
AllDeepest == LET all == AllTrees IN Max({HeightOf(tree) : tree \in all})

----------------------------------------------------------------------------
(* What should be shown *)

\* The tokens from i to j are an object: between its brackets, in fours, members and
\* what stands between them, with every field at least once.
IsObject(doc, i, j, fields) ==
    LET place(p) == (p - i) % 4
        named == {doc[p] : p \in {q \in i..j : place(q) = 1}}
    IN  /\ doc[i] = "{" /\ doc[j] = "}" /\ place(j) = 0
        /\ named = fields
        /\ \A p \in i..j : place(p) = 2 => doc[p] = ":"
        /\ \A p \in i..j : place(p) = 3 => IsString(doc[p])
        /\ \A p \in (i + 1)..(j - 1) : place(p) = 0 => doc[p] = ","

\* An array of objects up to token m: the first opens behind its bracket, the last
\* shuts before the other, and a comma is between any two.
IsArray(doc, m, fields) ==
    LET opens == {p \in 1..m : doc[p] = "{"}
        shuts == {p \in 1..m : doc[p] = "}"}
    IN  /\ doc[1] = "[" /\ {p \in 1..m : doc[p] = "]"} = {m}
        /\ m > 2 => 2 \in opens /\ m - 1 \in shuts
        /\ \A j \in shuts \ {m - 1} : doc[j + 1] = "," /\ j + 2 \in opens
        /\ \A i \in opens : \E j \in shuts : i < j /\ IsObject(doc, i, j, fields)

\* What the menu takes for a whole file: a field may come twice and anything may
\* follow the array, but nothing may be missing, and no other field be there.
IsWhole(doc) == \E m \in DOMAIN doc : IsArray(doc, m, EntryFields)

\* The leaves a layout should show: the directories, under readable ones and not
\* inside another leaf, whose entries.json is whole.
LeavesIn(dir, path, depth) ==
    LET under[d \in 0..depth] ==
            IF d = 0 THEN {<<dir, path>>}
            ELSE UNION {{<<up[1].sub[i], Append(up[2], up[1].sub[i].name)>> : i \in DOMAIN up[1].sub} :
                           up \in {u \in under[d - 1] : u[1].readable /\ u[1].json = NoFile}}
    IN  {here[2] : here \in {u \in UNION {under[d] : d \in 1..depth} : IsWhole(u[1].json)}}

MaxDirs == 3

\* And of all the sources of every layout.
WholeLeaves ==
    LET found == Found IN
    [l \in DOMAIN found |->
        LET sources == found[l].sources IN
        UNION {LeavesIn(sources[i].boot, <<i>>, MaxDirs) :
                  i \in {j \in DOMAIN sources : sources[j].state = "Mounted" /\ sources[j].boot.readable}}]

=============================================================================
