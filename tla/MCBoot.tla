------------------------------- MODULE MCBoot -------------------------------
(* Boot for TLC: two generations with two entries each; a third, with an entry without
   a name, that gets installed or is of the same time as the second; another disk with
   a kernel that is refused and an entry without an initrd file; and static entries,
   two of them in one directory; or no entry at all. *)
EXTENDS Boot

Leaf(disk, name, mtime, entries) == [path |-> <<disk, "nixos", name>>, mtime |-> mtime, entries |-> entries]

Both == <<"default", "gaming">>
Old == Leaf("a", "g1", 3, Both)
New == Leaf("a", "g2", 4, Both)
Newer(mtime) == Leaf("a", "g3", mtime, <<"default", "">>)
Other == Leaf("b", "h1", 2, <<"refused", "partial">>)
Static == [path |-> <<"image", "static", "memtest">>, mtime |-> 0, entries |-> <<"memtest">>]

Twin == [Static EXCEPT !.entries = <<"shell">>]

Trees(leaves) == <<leaves, <<Other>>, <<Static>>>>
MCDisks == {Trees(<<Old, New>>), Trees(<<Old, New, Newer(5)>>), Trees(<<Old, New, Newer(4)>>),
            <<<<>>, <<Static>>, <<Twin>>>>, <<<<>>>>}

Bytes(what, n) == [i \in 1..n |-> what]
File(kernel, initrd, archive) == [kernel |-> kernel, initrd |-> initrd, key |-> archive]

\* The generations are on a disk that may have been unlocked; one initrd is of six bytes.
MCFiles ==
    [sel \in UNION {{Selection(leaf.path, leaf.entries[k]) : k \in DOMAIN leaf.entries} :
                       leaf \in {Old, New, Newer(5), Other, Static, Twin}} \cup {BareFile} |->
        CASE sel.path = Static.path -> File("good", Unnamed, NoKey)
          [] sel.path = Other.path /\ sel.entry = "refused" -> File("bad", Bytes("i", 2), NoKey)
          [] sel.path = Other.path /\ sel.entry = "partial" -> File("good", Missing, NoKey)
          [] sel = BareFile -> File("good", Unnamed, NoKey)
          [] sel.path[1] = "a" -> File("good", Bytes("i", IF sel.entry = "gaming" THEN 6 ELSE 4), Bytes("k", 4))]

MCEfiVars == {None, Selection(Old.path, "gaming"), Selection(<<"gone", "nixos", "x">>, "default"),
              Selection(Static.path, "memtest")}

=============================================================================
