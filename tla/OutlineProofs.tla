--------------------------- MODULE OutlineProofs ---------------------------
(***************************************************************************)
(* What an outline promises, of any tree of any depth; and with that what  *)
(* a tree view promises, as it implements one.                             *)
(***************************************************************************)
EXTENDS Outline, SequenceTheorems, TLAPS

----------------------------------------------------------------------------
(* Places *)

\* A node is not above itself.
LEMMA NotItsAncestor ==
  ASSUME NEW p \in Seq(Nat)
  PROVE  p \notin Ancestors(p)
<1> SUFFICES ASSUME NEW n \in 1..(Len(p) - 1), p = SubSeq(p, 1, n) PROVE FALSE
  BY DEF Ancestors
<1>1. \A i \in 1..n : p[i] \in Nat
  BY LenProperties, ElementOfSeq
<1>2. Len(SubSeq(p, 1, n)) = n
  BY <1>1, SubSeqProperties
<1> QED
  BY <1>2, LenProperties

\* What is above the parent is above the child.
LEMMA ParentsAncestors ==
  ASSUME NEW p \in Seq(Nat), Len(p) > 1
  PROVE  Ancestors(Parent(p)) \subseteq Ancestors(p)
<1> DEFINE l == Len(p) - 1
<1>1. Len(p) \in Nat /\ l \in 1..Len(p)
  BY LenProperties
<1>2. Len(Parent(p)) = l
  <2>1. \A i \in 1..l : p[i] \in Nat
    BY <1>1, ElementOfSeq
  <2> QED
    BY <1>1, <2>1, SubSeqProperties DEF Parent
<1> SUFFICES ASSUME NEW n \in 1..(l - 1) PROVE SubSeq(Parent(p), 1, n) \in Ancestors(p)
  BY <1>2 DEF Ancestors
<1>3. SubSeq(SubSeq(p, 1, l), 1, n) = SubSeq(p, 1 + 1 - 1, 1 + n - 1)
  BY <1>1, SubSeqOfSubSeq
<1> QED
  BY <1>1, <1>3 DEF Ancestors, Parent

\* Where there is a node there is a tree.
LEMMA NodesMakeTree ==
  ASSUME NEW p \in Nodes
  PROVE  shape # <<>>
  BY DEF Nodes

----------------------------------------------------------------------------
(* The steps *)

LEMMA GoPreserves ==
  ASSUME CursorIsShown, NEW p \in Nodes, Ancestors(p) \subseteq open, Go(p)
  PROVE  CursorIsShown'
<1>1. shape # <<>>
  BY NodesMakeTree
<1> QED
  BY <1>1 DEF CursorIsShown, Shows, Go, Nodes

LEMMA MovePreserves ==
  ASSUME CursorIsShown, Down \/ Up \/ Out
  PROVE  CursorIsShown'
<1>1. CASE Down \/ Up
  <2>1. PICK p \in ShownNodes : Go(p)
    BY <1>1 DEF Down, Up
  <2>2. p \in Nodes /\ Ancestors(p) \subseteq open
    BY DEF ShownNodes
  <2> QED
    BY <2>1, <2>2, GoPreserves
<1>2. CASE Out
  <2>1. Len(at) > 1 /\ Go(Parent(at))
    BY <1>2 DEF Out
  <2>2. shape # <<>>
    BY <2>1, EmptySeq DEF CursorIsShown, Shows, Nowhere
  <2>3. at \in Nodes /\ at \in Seq(Nat) /\ Ancestors(at) \subseteq open
    BY <2>2 DEF CursorIsShown, Shows, IsTree, Nodes
  <2>4. Parent(at) \in Nodes
    BY <2>1, <2>3 DEF CursorIsShown, Shows, IsTree, Nodes
  <2>5. Ancestors(Parent(at)) \subseteq open
    BY <2>1, <2>3, ParentsAncestors
  <2> QED
    BY <2>1, <2>4, <2>5, GoPreserves
<1> QED
  BY <1>1, <1>2

\* Shutting a node hides what is under it, and the cursor is not.
LEMMA FoldPreserves ==
  ASSUME CursorIsShown, Open \/ Shut
  PROVE  CursorIsShown'
<1>1. CASE Open
  BY <1>1, NodesMakeTree DEF Open, CursorIsShown, Shows, Nodes
<1>2. CASE Shut
  <2>1. at \in open /\ open' = open \ {at} /\ UNCHANGED <<shape, at>>
    BY <1>2 DEF Shut
  <2>2. at \in Nodes
    BY <2>1 DEF CursorIsShown, Shows, Nodes
  <2>3. shape # <<>>
    BY <2>2, NodesMakeTree
  <2>4. at \in Seq(Nat) /\ Ancestors(at) \subseteq open
    BY <2>2, <2>3 DEF CursorIsShown, Shows, IsTree, Nodes
  <2>5. Ancestors(at) \subseteq open \ {at}
    BY <2>4, NotItsAncestor
  <2> QED
    BY <2>1, <2>3, <2>5 DEF CursorIsShown, Shows
<1> QED
  BY <1>1, <1>2

LEMMA AskPreserves ==
  ASSUME CursorIsShown, Boot \/ Unlock \/ Browse \/ Idle \/ UNCHANGED vars
  PROVE  CursorIsShown'
<1>1. UNCHANGED <<shape, open, at>>
  BY DEF Boot, Unlock, Browse, Idle, Ask, vars
<1> QED
  BY <1>1 DEF CursorIsShown, Shows

LEMMA ShowPreserves ==
  ASSUME Show
  PROVE  CursorIsShown'
  BY DEF Show, CursorIsShown

----------------------------------------------------------------------------

\* The cursor of an outline is always on a node that is there and shown, whatever is
\* opened, shut and moved over, at any depth.
THEOREM OutlineKeepsCursor == Spec => []CursorIsShown
<1>1. Init => CursorIsShown
  BY DEF Init, CursorIsShown
<1>2. CursorIsShown /\ [Next]_vars => CursorIsShown'
  BY MovePreserves, FoldPreserves, AskPreserves, ShowPreserves DEF Next
<1> QED
  BY <1>1, <1>2, PTL DEF Spec

=============================================================================
