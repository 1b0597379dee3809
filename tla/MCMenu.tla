------------------------------- MODULE MCMenu -------------------------------
(* Menu for TLC: a plain disk with two generations, a LUKS disk and a natively
   encrypted bcachefs disk with one leaf each, and one static entry. *)
EXTENDS Menu

CONSTANTS plain, crypt, bcache, image

MCDiskOrder == <<plain, crypt, bcache>>
MCKind == [d \in {plain, crypt, bcache} |->
             IF d = crypt THEN "luks" ELSE IF d = bcache THEN "bcachefs" ELSE "plain"]

\* What Only takes out is what SelectSeq would.
ASSUME OnlySelects ==
    \A S \in SUBSET Disks : Only(DiskOrder, S) = SelectSeq(DiskOrder, LAMBDA d : d \in S)

Gen(name, mtime, entries) == [dir |-> "nixos", name |-> name, mtime |-> mtime, entries |-> entries]

\* The newest leaf of all is on the LUKS disk; two leaves tie on the plain one,
\* and the bcachefs one has no entries.
MCBootTree == [d \in {plain, crypt, bcache} |->
    IF d = plain THEN <<Gen("g1", 2, <<"default">>), Gen("g2", 2, <<"default", "gaming">>),
                        Gen("g0", 1, <<"default">>)>>
    ELSE IF d = crypt THEN <<Gen("h1", 3, <<"default", "gaming">>)>>
    ELSE <<Gen("i1", 1, <<"default">>), Gen("i2", 2, <<>>)>>]

Memtest == <<<<image, "static">>, "static", "memtest">>
MCStaticLists == {<<>>, <<[path |-> Memtest, mtime |-> 0, entries |-> <<"memtest">>]>>}

MCEfiVars == {None, Selection(<<Disk(plain), "nixos", "g0">>, "gaming"),
              Selection(<<Mapper(crypt), "nixos", "h1">>, "gaming"),
              Selection(<<Disk(bcache), "nixos", "i1">>, "default"),
              Selection(Memtest, "memtest")}

============================================================================
