------------------------------ MODULE Outline ------------------------------
(***************************************************************************)
(* What a tree view promises its user, without the list it is kept in: a   *)
(* tree of which every inner node is open or shut, of which is shown what  *)
(* lies under open nodes only, and a cursor on a node that is shown.       *)
(*                                                                         *)
(* A node is its place: <<2, 1>> is the first child of the second root.    *)
(* Keys move the cursor, open and shut nodes, and ask for what is under    *)
(* the cursor.                                                             *)
(***************************************************************************)
EXTENDS Integers, Sequences

VARIABLES
    shape,    \* the tree: a function from places to what is there
    open,     \* the nodes that are open
    at,       \* the cursor
    asked     \* what the last key asked for

vars == <<shape, open, at, asked>>

Nodes == DOMAIN shape
Ancestors(p) == {SubSeq(p, 1, n) : n \in 1..(Len(p) - 1)}
Parent(p) == SubSeq(p, 1, Len(p) - 1)

\* Nodes are listed with their children after them.
Before(p, q) ==
    \/ Len(p) < Len(q) /\ SubSeq(q, 1, Len(p)) = p
    \/ \E n \in 1..Len(p) :
          n <= Len(q) /\ p[n] < q[n] /\ SubSeq(p, 1, n - 1) = SubSeq(q, 1, n - 1)

Nowhere == <<>>
Nothing == [kind |-> "none", src |-> 0, path |-> <<>>, entry |-> ""]

\* A directory, a leaf, and a source with something under it.
Foldable(what) ==
    \/ what.kind \in {"dir", "leaf"}
    \/ what.kind = "source" /\ what.state \in {"Mounted", "Static"}

----------------------------------------------------------------------------

IsTree(s) == \A p \in DOMAIN s : p \in Seq(Nat) /\ (Len(p) > 1 => Parent(p) \in DOMAIN s)

\* Some tree is shown, with the cursor on a node of it that is shown.
Shows(s, o, c) ==
    /\ IsTree(s)
    /\ o \subseteq {p \in DOMAIN s : Foldable(s[p])}
    /\ IF s = <<>> THEN c = Nowhere ELSE c \in DOMAIN s /\ Ancestors(c) \subseteq o

Init == Shows(shape, open, at) /\ asked = Nothing

\* Another tree takes its place.
Show == Shows(shape', open', at') /\ asked' = Nothing

ShownNodes == LET o == open IN {p \in Nodes : Ancestors(p) \subseteq o}

Go(p) == at' = p /\ asked' = Nothing /\ UNCHANGED <<shape, open>>

\* To the next node that is shown.
Down ==
    LET below == LET c == at IN {p \in ShownNodes : Before(c, p)}
    IN  \E p \in below : (\A q \in below \ {p} : Before(p, q)) /\ Go(p)

\* To the last node that is shown before.
Up ==
    LET above == LET c == at IN {p \in ShownNodes : Before(p, c)}
    IN  \E p \in above : (\A q \in above \ {p} : Before(q, p)) /\ Go(p)

Open ==
    /\ at \in Nodes \ open /\ Foldable(shape[at])
    /\ open' = open \cup {at} /\ asked' = Nothing /\ UNCHANGED <<shape, at>>

Shut ==
    /\ at \in open
    /\ open' = open \ {at} /\ asked' = Nothing /\ UNCHANGED <<shape, at>>

Out ==
    /\ Len(at) > 1
    /\ Go(Parent(at))

\* To boot the entry under the cursor, of the leaf it is in, from the source it is
\* in; to unlock the source under the cursor; to browse the source the cursor is in.
Ask(kind, path, entry) ==
    /\ asked' = [kind |-> kind, src |-> at[1], path |-> path, entry |-> entry]
    /\ UNCHANGED <<shape, open, at>>

Boot == at \in Nodes /\ shape[at].kind = "entry" /\ Ask("boot", shape[Parent(at)].path, shape[at].name)
Unlock == at \in Nodes /\ shape[at].kind = "source" /\ shape[at].state = "Encrypted" /\ Ask("unlock", <<>>, "")
Browse == at \in Nodes /\ Ask("browse", <<>>, "")

\* A key that does nothing forgets what was asked.
Idle == asked' = Nothing /\ UNCHANGED <<shape, open, at>>

Next ==
    \/ Show \/ Down \/ Up \/ Open \/ Shut \/ Out \/ Boot \/ Unlock \/ Browse \/ Idle

Spec == Init /\ [][Next]_vars

----------------------------------------------------------------------------
(* Properties *)

\* Whatever is opened, shut and moved over, the cursor is on a node that is there and
\* shown, and it has a place to be unless there is no node at all.
CursorIsShown == Shows(shape, open, at)

=============================================================================
