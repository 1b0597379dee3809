----------------------------- MODULE MCTreeView -----------------------------
(* DiskView for TLC: a disk whose entries.json files are cut or wrong in every
   way, a disk that is locked, open or in error, and static entries. *)
EXTENDS DiskView

Member(field, value) == <<field, ":", value>>

\* An object as the installer's jq writes it.
Object(name) ==
    <<"{">> \o Member("name", name) \o <<",">> \o Member("kernel", "vmlinuz") \o <<",">>
        \o Member("initrd", "initrd") \o <<",">> \o Member("cmdline", "quiet") \o <<"}">>

Array(objects) ==
    <<"[">> \o FlattenSeq([i \in DOMAIN objects |->
                  IF i = Len(objects) THEN objects[i] ELSE Append(objects[i], ",")]) \o <<"]">>

Written == Array(<<Object("default"), Object("gaming")>>)

\* The same with one more member, or with one in the place of the last.
With(member) == SubSeq(Object("default"), 1, 16) \o <<",">> \o member \o <<"}">>
Without(member) == SubSeq(Object("default"), 1, 13) \o member \o <<"}">>

\* A file whose writing stopped, or that someone wrote by hand.
Cut(n) == SubSeq(Written, 1, n)
Wrong == {Append(Cut(3), Broken), [Written EXCEPT ![3] = "title"], [Written EXCEPT ![19] = "}"],
          Array(<<Append(SubSeq(Object("default"), 1, 12), "}")>>), Array(<<<<"{", "}">>>>),
          SubSeq(Written, 1, 18) \o <<",", "]">>, Array(<<With(Member("title", "x"))>>),
          Array(<<Without(Member("name", "again"))>>)}

\* And of what a hand may add, what the parser takes: a field for the second time, and
\* something behind the array.
Odd == {Array(<<With(Member("name", "again")), Object("gaming")>>), Append(Written, "]"),
        Written \o Object("late")}
Files == {Cut(n) : n \in 0..Len(Written)} \cup Wrong \cup Odd \cup {Array(<<>>)}

Directory(name, json, readable, sub) == [name |-> name, json |-> json, readable |-> readable, sub |-> sub]
Generation(name, json) == Directory(name, json, TRUE, <<>>)

\* boot/nixos/{g1,g2,g3}: g1 and g3 are whole, what is in g2 varies; a directory that
\* cannot be read, one without leaves, and one inside a leaf are left out.
Boot(json, readable) ==
    Directory("boot", NoFile, readable, <<
        Directory("lost", NoFile, FALSE, <<Generation("l1", Written)>>),
        Directory("nixos", NoFile, TRUE, <<
            Generation("g1", Array(<<Object("default")>>)),
            Directory("g2", json, TRUE, <<Generation("inner", Written)>>),
            Generation("g3", Written)>>),
        Directory("tmp", NoFile, TRUE, <<Generation("empty", NoFile)>>)>>)

StaticObject(name) ==
    <<"{">> \o Member("name", name) \o <<",">> \o Member("dir", "memtest") \o <<",">>
        \o Member("kernel", "memtest.bin") \o <<",">> \o Member("initrd", "") \o <<",">>
        \o Member("cmdline", "") \o <<"}">>

Other == Directory("boot", NoFile, TRUE, <<Generation("arch", Array(<<Object("linux")>>))>>)
Mounted(boot) == [state |-> "Mounted", boot |-> boot]
Closed(state) == [state |-> state, boot |-> Other]

Default(path, entry) == [path |-> path, entry |-> entry]

Of(sources, static, default) == [sources |-> sources, static |-> static, default |-> default]

Whole == Array(<<Object("default")>>)

\* A disk on which installing g2 stopped somewhere, or that someone wrote to.
Stopped(file) ==
    Of(<<Mounted(Directory("boot", NoFile, TRUE,
             <<Directory("g2", file, TRUE, <<Generation("inner", Written)>>), Generation("g3", Whole)>>))>>,
       Array(<<>>), Default(<<1, "g2">>, "gaming"))

\* Two disks and one or two static entries in one directory, or a static.json that
\* does not parse; the second disk is locked, fails, or is mounted.
Machine(readable, static, defaults) ==
    {Of(<<Mounted(Boot(Cut(5), readable)), second>>, static, default) :
        second \in {Closed("Encrypted"), Mounted(Other), Closed("Error")}, default \in defaults}

MachineLayouts ==
    {{Stopped(file), Stopped(Written)} : file \in Files}
    \cup {Machine(TRUE, Array(<<StaticObject("memtest")>>),
                  {Default(<<1, "nixos", "g3">>, "gaming"), Default(<<2, "arch">>, "linux")}),
          Machine(FALSE, Array(<<StaticObject("memtest"), StaticObject("shell")>>),
                  {Default(<<>>, ""), Default(<<"memtest">>, "memtest")}),
          Machine(TRUE, Array(<<Object("x")>>), {Default(<<>>, "")})}

MCFound == LET all == UNION MachineLayouts IN FoldSet(LAMBDA l, list : Append(list, l), <<>>, all)
MCMachines ==
    LET found == MCFound IN {{l \in DOMAIN found : found[l] \in machine} : machine \in MachineLayouts}

=============================================================================
