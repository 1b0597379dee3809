------------------------------ MODULE DiskView ------------------------------
(***************************************************************************)
(* The tree view of what is on the disks: TreeView, given the trees of     *)
(* Disks.                                                                  *)
(***************************************************************************)
EXTENDS Disks, TreeView

OnDisk(i) == \A j \in 1..i : nodes[j].state # "Static"

\* The view has a leaf for every directory whose entries.json is whole, and for no
\* other: a file that is cut at any token, lacks a field or has one it should not have,
\* is not shown, and takes no other leaf with it.  A field that is there twice, and
\* what follows the array, do no harm: the parser takes more than the "exactly four
\* string fields" of tree.rs:8.
WholeLeavesShown ==
    {nodes[j].path : j \in {i \in DOMAIN nodes : nodes[i].kind = "leaf" /\ OnDisk(i)}} = WholeLeaves[layout]

=============================================================================
