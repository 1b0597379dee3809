------------------------------ MODULE BootTree ------------------------------
(***************************************************************************)
(* From files to boot trees (kexec-menu-core/src/tree.rs): parsing         *)
(* entries.json and static.json, and walking the boot/ directory of a      *)
(* mounted filesystem.                                                     *)
(*                                                                         *)
(* A file is a sequence of JSON tokens; a string, complete and without     *)
(* invalid escapes, is a token of its own, and a string that is not is the *)
(* token Broken.  White space is left out.                                 *)
(*                                                                         *)
(* A directory is [name, json, readable, sub]: its entries.json or NoFile, *)
(* whether it can be listed, and its subdirectories sorted by name.        *)
(***************************************************************************)
EXTENDS Integers, Sequences, SequencesExt

Punctuation == {"[", "]", "{", "}", ",", ":"}
Broken == "broken"
NoFile == <<"none">>

EntryFields == {"name", "kernel", "initrd", "cmdline"}
StaticFields == EntryFields \cup {"dir"}

----------------------------------------------------------------------------
(* The parser: peek, expect and parse_string look at one token *)

At(doc, i) == IF i \in DOMAIN doc THEN doc[i] ELSE "end"
IsString(token) == token \notin Punctuation \cup {Broken, "end"}

\* The outcome of a parse: the values read, and the place after them.
Failed == [ok |-> FALSE, value |-> <<>>, next |-> 0]
Parsed(value, next) == [ok |-> TRUE, value |-> value, next |-> next]

IsMember(doc, i, fields) ==
    At(doc, i) \in fields /\ At(doc, i + 1) = ":" /\ IsString(At(doc, i + 2))

\* The members of an object from its i-th token on; a field that is there twice has
\* its last value, and at the end every field has to be there.
RECURSIVE ParseMembers(_, _, _, _)
ParseMembers(doc, i, fields, seen) ==
    LET now == [f \in DOMAIN seen \cup {At(doc, i)} |->
                   IF f = At(doc, i) THEN At(doc, i + 2) ELSE seen[f]]
    IN  CASE ~IsMember(doc, i, fields) -> Failed
          [] IsMember(doc, i, fields) /\ At(doc, i + 3) = "," -> ParseMembers(doc, i + 4, fields, now)
          [] IsMember(doc, i, fields) /\ At(doc, i + 3) = "}" /\ DOMAIN now = fields -> Parsed(now, i + 4)
          [] OTHER -> Failed

\* parse_entry, parse_one_static_config
ParseObject(doc, i, fields) ==
    IF At(doc, i) = "{" THEN ParseMembers(doc, i + 1, fields, <<>>) ELSE Failed

\* The objects of the array from the i-th token on.
RECURSIVE ParseObjects(_, _, _, _)
ParseObjects(doc, i, fields, sofar) ==
    LET after(object) ==
            CASE ~object.ok -> Failed
              [] object.ok /\ At(doc, object.next) = "," ->
                    ParseObjects(doc, object.next + 1, fields, Append(sofar, object.value))
              [] object.ok /\ At(doc, object.next) = "]" ->
                    Parsed(Append(sofar, object.value), object.next + 1)
              [] OTHER -> Failed
    IN  after(ParseObject(doc, i, fields))

\* Mutant of Parse: the end of the file ends the array as well.
ParseToEnd(doc, fields) ==
    IF At(doc, 1) # "[" THEN Failed
    ELSE IF At(doc, 2) \in {"]", "end"} THEN Parsed(<<>>, 3)
    ELSE LET shut == IF doc[Len(doc)] = "]" THEN doc ELSE Append(doc, "]")
         IN  ParseObjects(shut, 2, fields, <<>>)

\* parse_entries, parse_static_config; what follows the array is not looked at.
Parse(doc, fields) ==
    IF At(doc, 1) # "[" THEN Failed
    ELSE IF At(doc, 2) = "]" THEN Parsed(<<>>, 3)
    ELSE ParseObjects(doc, 2, fields, <<>>)

----------------------------------------------------------------------------
(* Trees *)

Leaf(path, entries) == [kind |-> "leaf", name |-> "", path |-> path, entries |-> entries, children |-> <<>>]
Dir(name, children) == [kind |-> "dir", name |-> name, path |-> <<>>, entries |-> <<>>, children |-> children]

Names(objects) == [k \in DOMAIN objects |-> objects[k].name]

\* walk_boot_tree of a directory at path: a subdirectory with an entries.json is a
\* leaf, or left out if that does not parse, whatever is in it; another one is kept
\* if it has something in it.
RECURSIVE WalkBootTree(_, _)
WalkBootTree(dir, path) ==
    LET leaf(here, parsed) == IF parsed.ok THEN <<Leaf(here, Names(parsed.value))>> ELSE <<>>
        inner(name, children) == IF children # <<>> THEN <<Dir(name, children)>> ELSE <<>>
        node(sub, here) ==
            IF sub.json # NoFile THEN leaf(here, Parse(sub.json, EntryFields))
            ELSE inner(sub.name, IF sub.readable THEN WalkBootTree(sub, here) ELSE <<>>)
    IN  FlattenSeq([i \in DOMAIN dir.sub |-> node(dir.sub[i], Append(path, dir.sub[i].name))])

\* build_source_tree: a boot directory that cannot be listed gives an empty tree.
SourceTree(boot, path) == IF boot.readable THEN WalkBootTree(boot, path) ELSE <<>>

\* load_static_entries: for every object a tree of one leaf with one entry; no
\* trees at all if the file does not parse.
StaticTreesOf(doc) ==
    LET leaves(parsed) ==
            IF ~parsed.ok THEN <<>>
            ELSE [i \in DOMAIN parsed.value |->
                     <<Leaf(<<parsed.value[i].dir>>, <<parsed.value[i].name>>)>>]
    IN  leaves(Parse(doc, StaticFields))

=============================================================================
