--------------------------- MODULE TreeViewProofs ---------------------------
(***************************************************************************)
(* What holds of the list a tree view is kept in, for trees of any size    *)
(* and depth and any keys.                                                 *)
(*                                                                         *)
(* recompute_visibility remembers one depth while it goes through the      *)
(* list.  ScanIsRight says what that depth is at every node: that of the   *)
(* outermost collapsed node around it.                                     *)
(*                                                                         *)
(* That the list implements an Outline rests on ListedInOrder,             *)
(* AncestorsAre and FirstIsSource: the places that PlacesOf makes of the   *)
(* depths are in the order of the list, have those of the nodes around a   *)
(* node as their prefixes, and start with the number of the source.        *)
(*                                                                         *)
(* Of the lists these proofs assume what BuiltAssumption says; BuildAssures*)
(* proves it of the lists that TreeView::build makes of any boot trees, by *)
(* induction over the height of the trees (TreeNodes) and the number of    *)
(* the sources (SourcesFlattened).                                         *)
(***************************************************************************)
EXTENDS TreeView, FiniteSetTheorems, SequenceTheorems, WellFoundedInduction, TLAPS

\* Numbers of a set go no lower for ever.
LEMMA LeastNat ==
  ASSUME NEW S \in SUBSET Nat, S # {}
  PROVE  \E n \in S : \A m \in S : n <= m
<1>1. PICK n \in S : \A m \in S : ~(<<m, n>> \in OpToRel(<, Nat))
  BY WFMin, NatLessThanWellFounded
<1>2. \A m \in S : ~(m < n)
  BY <1>1 DEF OpToRel
<1> QED
  BY <1>2

\* Nor higher, if there is a bound.
LEMMA GreatestNat ==
  ASSUME NEW S \in SUBSET Nat, S # {}, NEW b \in Nat, \A n \in S : n <= b
  PROVE  \E n \in S : \A m \in S : m <= n
<1> DEFINE T == {k \in Nat : b - k \in S}
<1>1. \A n \in S : b - n \in T
  OBVIOUS
<1>2. PICK k \in T : \A j \in T : k <= j
  BY <1>1, LeastNat
<1> QED
  BY <1>1, <1>2

Collapsed(node) == ~node.expanded /\ node.kind # "entry"

\* What the scan of a list remembers after each node.
IsScan(list, f) ==
    f = [i \in 0..Len(list) |-> IF i = 0 THEN NotHidden ELSE HiddenAfter(f[i - 1], list[i])]

\* There is such a scan, by the number of nodes.
LEMMA ScanExists ==
  ASSUME NEW list, Len(list) \in Nat
  PROVE  \E f : IsScan(list, f)
<1> DEFINE To(n, f) == f = [i \in 0..n |-> IF i = 0 THEN NotHidden ELSE HiddenAfter(f[i - 1], list[i])]
           Bad == {n \in Nat : ~\E f : To(n, f)}
<1>1. SUFFICES Bad = {}
  BY DEF IsScan
<1>2. SUFFICES ASSUME Bad # {} PROVE FALSE
  OBVIOUS
<1>3. PICK n \in Bad : \A m \in Bad : n <= m
  BY <1>2, LeastNat
<1>4. n # 0
  <2> DEFINE f == [i \in 0..0 |-> NotHidden]
  <2>1. \A i \in 0..0 : i = 0
    OBVIOUS
  <2>2. To(0, f)
    BY <2>1
  <2> QED
    BY <2>2
<1>5. n - 1 \in Nat \ Bad
  <2>1. n \in Nat
    OBVIOUS
  <2> HIDE DEF Bad
  <2> QED
    BY <1>3, <1>4, <2>1
<1>6. PICK f : To(n - 1, f)
  BY <1>5
<1> DEFINE g == [i \in 0..n |-> IF i = n THEN HiddenAfter(f[n - 1], list[n]) ELSE f[i]]
<1>7. ASSUME NEW i \in 0..n
      PROVE  g[i] = IF i = 0 THEN NotHidden ELSE HiddenAfter(g[i - 1], list[i])
  <2>1. CASE i = 0
    BY <1>4, <1>6, <2>1
  <2>2. CASE i # 0
    <3>1. g[i - 1] = f[i - 1]
      BY <2>2
    <3>2. CASE i = n
      BY <2>2, <3>1, <3>2
    <3>3. CASE i # n
      <4>1. i \in 0..(n - 1)
        BY <3>3
      <4>2. f[i] = HiddenAfter(f[i - 1], list[i])
        BY <1>6, <2>2, <4>1
      <4> QED
        BY <2>2, <3>1, <3>3, <4>2
    <3> QED
      BY <3>2, <3>3
  <2> QED
    BY <2>1, <2>2
<1>8. To(n, g)
  BY <1>7
<1> QED
  BY <1>8

\* The flags are what the scan has at each node.
LEMMA Recomputed ==
  ASSUME NEW list, Len(list) \in Nat
  PROVE  \E f : /\ IsScan(list, f)
                /\ RecomputeVisibility(list) =
                      [i \in DOMAIN list |->
                          [list[i] EXCEPT !.visible = (HiddenAt(f[i - 1], list[i]) = NotHidden)]]
<1> DEFINE f == CHOOSE g : IsScan(list, g)
<1>1. IsScan(list, f)
  BY ScanExists
<1>2. RecomputeVisibility(list) =
         [i \in DOMAIN list |-> [list[i] EXCEPT !.visible = (HiddenAt(f[i - 1], list[i]) = NotHidden)]]
  BY DEF RecomputeVisibility, IsScan
<1> QED
  BY <1>1, <1>2

\* The nodes around a place in the list, i itself included.
Chain(list, i) == Above(list, i) \cup {i}

\* Around a node are those of the nodes around the one before it that are less deep.
LEMMA AboveNext ==
  ASSUME NEW list, NEW i \in Nat, i > 1, \A k \in 1..i : list[k].depth \in Nat
  PROVE  Above(list, i) = {j \in Chain(list, i - 1) : list[j].depth < list[i].depth}
<1>1. ASSUME NEW j \in Above(list, i)
      PROVE  j \in Chain(list, i - 1) /\ list[j].depth < list[i].depth
  <2>1. j \in 1..(i - 1) /\ \A k \in (j + 1)..i : list[j].depth < list[k].depth
    BY DEF Above
  <2>2. list[j].depth < list[i].depth /\ \A k \in (j + 1)..(i - 1) : list[j].depth < list[k].depth
    BY <2>1
  <2>3. j = i - 1 \/ j \in 1..((i - 1) - 1)
    BY <2>1
  <2> QED
    BY <2>2, <2>3 DEF Above, Chain
<1>2. ASSUME NEW j \in Chain(list, i - 1), list[j].depth < list[i].depth
      PROVE  j \in Above(list, i)
  <2>1. j \in 1..(i - 1) /\ \A k \in (j + 1)..(i - 1) : list[j].depth < list[k].depth
    BY DEF Above, Chain
  <2>2. \A k \in (j + 1)..i : k = i \/ k \in (j + 1)..(i - 1)
    BY <2>1
  <2> QED
    BY <1>2, <2>1, <2>2 DEF Above
<1> QED
  BY <1>1, <1>2

\* What the scan remembers after node i: nothing if no node around the next place is
\* collapsed, else the depth of the outermost that is.
Remembers(list, i, below) ==
    /\ below \in Nat \cup {NotHidden}
    /\ \A j \in Chain(list, i) : Collapsed(list[j]) => below # NotHidden /\ below <= list[j].depth
    /\ below # NotHidden => \E j \in Chain(list, i) : Collapsed(list[j]) /\ list[j].depth = below

\* At a node the scan remembers something just when a node above it is collapsed.
LEMMA HiddenIsCollapsed ==
  ASSUME NEW list, NEW i \in Nat, i > 1, \A k \in 1..i : list[k].depth \in Nat,
         NEW below, Remembers(list, i - 1, below)
  PROVE  HiddenAt(below, list[i]) = NotHidden <=> \A j \in Above(list, i) : ~Collapsed(list[j])
<1>1. \A j : j \in Above(list, i) <=> j \in Chain(list, i - 1) /\ list[j].depth < list[i].depth
  BY AboveNext
<1>2. \A j \in Chain(list, i - 1) : list[j].depth \in Nat
  BY DEF Chain, Above
<1>3. list[i].depth \in Nat /\ NotHidden = -1
  BY DEF NotHidden
<1>4. CASE below = NotHidden
  BY <1>1, <1>3, <1>4 DEF Remembers, HiddenAt, Uncovers
<1>5. CASE below # NotHidden
  <2>1. below \in Nat
    BY <1>5 DEF Remembers
  <2>2. PICK j \in Chain(list, i - 1) : Collapsed(list[j]) /\ list[j].depth = below
    BY <1>5 DEF Remembers
  <2>3. HiddenAt(below, list[i]) = NotHidden <=> list[i].depth <= below
    BY <1>3, <1>5 DEF HiddenAt, Uncovers
  <2>4. ASSUME list[i].depth <= below, NEW k \in Above(list, i), Collapsed(list[k])
        PROVE  FALSE
    BY <1>1, <1>2, <1>3, <2>1, <2>4 DEF Remembers
  <2>5. ASSUME ~(list[i].depth <= below)
        PROVE  j \in Above(list, i)
    BY <1>1, <1>3, <2>1, <2>2, <2>5
  <2> QED
    BY <2>2, <2>3, <2>4, <2>5
<1> QED
  BY <1>4, <1>5

\* One step of the scan.
LEMMA ScanStep ==
  ASSUME NEW list, NEW i \in Nat, i > 1, \A k \in 1..i : list[k].depth \in Nat,
         NEW below, Remembers(list, i - 1, below)
  PROVE  Remembers(list, i, HiddenAfter(below, list[i]))
<1>1. \A j : j \in Above(list, i) <=> j \in Chain(list, i - 1) /\ list[j].depth < list[i].depth
  BY AboveNext
<1>2. list[i].depth \in Nat /\ NotHidden = -1
  BY DEF NotHidden
<1>3. CASE HiddenAt(below, list[i]) = NotHidden
  <2>1. \A j \in Above(list, i) : ~Collapsed(list[j])
    BY <1>3, HiddenIsCollapsed
  <2>2. HiddenAfter(below, list[i]) = IF Collapsed(list[i]) THEN list[i].depth ELSE NotHidden
    BY <1>3 DEF HiddenAfter, Collapsed
  <2> QED
    BY <1>2, <2>1, <2>2 DEF Remembers, Chain
<1>4. CASE HiddenAt(below, list[i]) # NotHidden
  <2>1. /\ HiddenAfter(below, list[i]) = below /\ below \in Nat /\ below < list[i].depth
    BY <1>2, <1>4 DEF HiddenAfter, HiddenAt, Uncovers, Remembers
  <2>2. PICK j \in Chain(list, i - 1) : Collapsed(list[j]) /\ list[j].depth = below
    BY <1>2, <2>1 DEF Remembers
  <2>3. j \in Above(list, i)
    BY <1>1, <2>1, <2>2
  <2>4. \A k \in Chain(list, i) : Collapsed(list[k]) => below <= list[k].depth
    BY <1>1, <1>2, <2>1 DEF Remembers, Chain
  <2> QED
    BY <1>2, <2>1, <2>2, <2>3, <2>4 DEF Remembers, Chain
<1> QED
  BY <1>3, <1>4

\* And all of them, from the first node on.
LEMMA ScanIsRight ==
  ASSUME NEW list, Len(list) \in Nat, \A k \in 1..Len(list) : list[k].depth \in Nat,
         NEW f, IsScan(list, f)
  PROVE  \A i \in 1..Len(list) : Remembers(list, i, f[i])
<1> DEFINE Bad == {i \in 1..Len(list) : ~Remembers(list, i, f[i])}
<1>1. SUFFICES ASSUME Bad # {} PROVE FALSE
  OBVIOUS
<1>2. PICK i \in Bad : \A j \in Bad : i <= j
  <2>1. Bad \in SUBSET Nat
    OBVIOUS
  <2> HIDE DEF Bad
  <2> QED
    BY <1>1, <2>1, LeastNat
<1>3. f[0] = NotHidden /\ i \in 1..Len(list) /\ f[i] = HiddenAfter(f[i - 1], list[i])
  BY DEF IsScan
<1>4. list[i].depth \in Nat /\ NotHidden = -1
  BY <1>3 DEF NotHidden
<1>5. CASE i = 1
  <2>1. HiddenAt(NotHidden, list[1]) = NotHidden
    BY DEF HiddenAt
  <2>2. f[1] = IF Collapsed(list[1]) THEN list[1].depth ELSE NotHidden
    BY <1>3, <1>5, <2>1 DEF HiddenAfter, Collapsed
  <2>3. Chain(list, 1) = {1}
    BY DEF Chain, Above
  <2> QED
    BY <1>4, <1>5, <2>2, <2>3 DEF Remembers
<1>6. CASE i > 1
  <2>1. i - 1 \in 1..Len(list) /\ i - 1 \notin Bad
    BY <1>2, <1>3, <1>6
  <2>2. Remembers(list, i - 1, f[i - 1])
    BY <2>1
  <2>3. \A k \in 1..i : list[k].depth \in Nat
    BY <1>3
  <2> QED
    BY <1>3, <1>6, <2>2, <2>3, ScanStep
<1> QED
  BY <1>3, <1>5, <1>6

----------------------------------------------------------------------------
(* Views *)

\* Nothing is under an entry, so what is above a node and collapsed is not expanded.
LEMMA AboveIsOpen ==
  ASSUME NEW list, IsView(list), NEW i \in DOMAIN list, NEW j \in Above(list, i)
  PROVE  /\ j \in DOMAIN list /\ list[j].kind # "entry"
         /\ Collapsed(list[j]) <=> ~list[j].expanded
<1>1. /\ Len(list) \in Nat /\ i \in 1..Len(list) /\ j \in 1..(i - 1)
      /\ list[j].depth < list[j + 1].depth
  BY DEF IsView, Above
<1>2. /\ list[j].depth \in Nat /\ list[j + 1].depth \in Nat /\ j + 1 \in 2..Len(list)
      /\ (j + 1) - 1 = j /\ j \in DOMAIN list
  BY <1>1 DEF IsView
<1>3. list[j].kind = "entry" => list[j + 1].depth <= list[j].depth
  BY <1>2 DEF IsView
<1> QED
  BY <1>1, <1>2, <1>3 DEF Collapsed

\* recompute_visibility changes flags only, and makes visible what is under expanded nodes.
LEMMA RecomputedView ==
  ASSUME NEW list, IsView(list), NEW new, new = RecomputeVisibility(list)
  PROVE  /\ DOMAIN new = DOMAIN list /\ Len(new) = Len(list)
         /\ \A i \in DOMAIN list :
               /\ DOMAIN new[i] = Fields /\ Lasting(new[i]) = Lasting(list[i])
               /\ new[i].kind = list[i].kind /\ new[i].depth = list[i].depth
               /\ new[i].expanded = list[i].expanded /\ new[i].visible \in BOOLEAN
               /\ new[i].visible <=> \A j \in Above(list, i) : list[j].expanded
<1>1. /\ Len(list) \in Nat /\ DOMAIN list = 1..Len(list)
      /\ \A k \in 1..Len(list) : list[k].depth \in Nat /\ DOMAIN list[k] = Fields
  BY DEF IsView
<1>2. PICK f : /\ IsScan(list, f)
               /\ new = [i \in DOMAIN list |->
                            [list[i] EXCEPT !.visible = (HiddenAt(f[i - 1], list[i]) = NotHidden)]]
  BY <1>1, Recomputed
<1>3. DOMAIN new = DOMAIN list /\ Len(new) = Len(list)
  BY <1>1, <1>2
<1>4. ASSUME NEW i \in DOMAIN list
      PROVE  HiddenAt(f[i - 1], list[i]) = NotHidden <=> \A j \in Above(list, i) : list[j].expanded
  <2>1. i \in 1..Len(list) /\ \A k \in 1..i : list[k].depth \in Nat
    BY <1>1, <1>4
  <2>2. CASE i = 1
    <3>1. Above(list, i) = {}
      BY <2>2 DEF Above
    <3>2. f[i - 1] = NotHidden
      BY <1>1, <1>2, <2>2 DEF IsScan
    <3> QED
      BY <3>1, <3>2 DEF HiddenAt
  <2>3. CASE i > 1
    <3>1. Remembers(list, i - 1, f[i - 1])
      <4>1. i - 1 \in 1..Len(list)
        BY <1>1, <2>1, <2>3
      <4>2. \A k \in 1..Len(list) : Remembers(list, k, f[k])
        <5>1. IsScan(list, f)
          BY <1>2
        <5> QED
          BY <1>1, <5>1, ScanIsRight
      <4> QED
        BY <4>1, <4>2
    <3>2. HiddenAt(f[i - 1], list[i]) = NotHidden <=> \A j \in Above(list, i) : ~Collapsed(list[j])
      BY <2>1, <2>3, <3>1, HiddenIsCollapsed
    <3> QED
      BY <1>4, <3>2, AboveIsOpen
  <2> QED
    BY <2>1, <2>2, <2>3
<1>5. ASSUME NEW i \in DOMAIN list
      PROVE  /\ DOMAIN new[i] = Fields
             /\ \A field \in Fields \ {"visible"} : new[i][field] = list[i][field]
             /\ new[i].visible = (HiddenAt(f[i - 1], list[i]) = NotHidden)
  <2>1. new[i] = [list[i] EXCEPT !.visible = (HiddenAt(f[i - 1], list[i]) = NotHidden)]
    BY <1>2
  <2>2. DOMAIN list[i] = Fields /\ "visible" \in Fields
    BY <1>1 DEF Fields
  <2> QED
    BY <2>1, <2>2
<1>6. ASSUME NEW i \in DOMAIN list
      PROVE  /\ Lasting(new[i]) = Lasting(list[i])
             /\ new[i].kind = list[i].kind /\ new[i].depth = list[i].depth
             /\ new[i].expanded = list[i].expanded
  BY <1>5 DEF Lasting, Fields
<1> QED
  BY <1>3, <1>4, <1>5, <1>6

\* Lists of the same kinds and depths are views together, and nodes are above the same.
LEMMA ViewKept ==
  ASSUME NEW list, IsView(list), NEW new, DOMAIN new = DOMAIN list, Len(new) = Len(list),
         \A i \in DOMAIN list :
            /\ DOMAIN new[i] = Fields
            /\ new[i].kind = list[i].kind /\ new[i].depth = list[i].depth
            /\ new[i].expanded \in BOOLEAN /\ (new[i].kind = "entry" => ~new[i].expanded)
  PROVE  IsView(new) /\ \A i \in DOMAIN list : Above(new, i) = Above(list, i)
<1>1. Len(list) \in Nat \ {0} /\ DOMAIN list = 1..Len(list)
  BY DEF IsView
<1>2. \A i \in 2..Len(list) : i \in DOMAIN list /\ i - 1 \in DOMAIN list
  BY <1>1
<1>3. 1 \in DOMAIN list
  BY <1>1
<1>4. IsView(new)
  <2>1. DOMAIN new = 1..Len(new) /\ Len(new) \in Nat \ {0} /\ new[1].kind = "source"
    BY <1>1, <1>3 DEF IsView
  <2>2. ASSUME NEW i \in DOMAIN new
        PROVE  /\ DOMAIN new[i] = Fields /\ new[i].kind \in {"source", "dir", "leaf", "entry"}
               /\ new[i].depth \in Nat /\ new[i].expanded \in BOOLEAN
               /\ new[i].kind = "source" <=> new[i].depth = 0
               /\ new[i].kind = "entry" => ~new[i].expanded
    BY DEF IsView
  <2>3. ASSUME NEW i \in 2..Len(new)
        PROVE  /\ new[i].kind = "entry" =>
                      \/ new[i - 1].kind = "leaf" /\ new[i].depth = new[i - 1].depth + 1
                      \/ new[i - 1].kind = "entry" /\ new[i].depth = new[i - 1].depth
               /\ new[i - 1].kind = "entry" => new[i].depth <= new[i - 1].depth
    <3>1. /\ new[i].kind = list[i].kind /\ new[i].depth = list[i].depth
          /\ new[i - 1].kind = list[i - 1].kind /\ new[i - 1].depth = list[i - 1].depth
      BY <1>2
    <3>2. i \in 2..Len(list)
      OBVIOUS
    <3> QED
      BY <3>1, <3>2 DEF IsView
  <2> QED
    BY <2>1, <2>2, <2>3 DEF IsView
<1>5. \A i \in DOMAIN list : \A j \in 1..(i - 1) : \A k \in (j + 1)..i : j \in DOMAIN list /\ k \in DOMAIN list
  BY <1>1
<1>6. \A i \in DOMAIN list : Above(new, i) = Above(list, i)
  BY <1>5 DEF Above
<1> QED
  BY <1>4, <1>6

\* A list as it is built.
LEMMA BuiltView ==
  ASSUME NEW l \in Layouts
  PROVE  /\ IsView(Built[l])
         /\ \A i \in DOMAIN Built[l] : Built[l][i].visible <=> \A j \in Above(Built[l], i) : Built[l][j].expanded
<1>1. IsView(Built[l]) /\ Built[l] = RecomputeVisibility(Built[l])
  BY BuiltAssumption DEF AreBuilt, Layouts
<1> QED
  BY <1>1, RecomputedView

\* The first node is under nothing, so it is shown: the cursor always has a place.
LEMMA FirstIsShown ==
  ASSUME NEW list, IsView(list),
         \A i \in DOMAIN list : list[i].visible <=> \A j \in Above(list, i) : list[j].expanded
  PROVE  1 \in DOMAIN list /\ list[1].visible
<1>1. 1 \in DOMAIN list
  BY DEF IsView
<1>2. Above(list, 1) = {}
  BY DEF Above
<1> QED
  BY <1>1, <1>2

\* Among some of the first places there is a last one.
LEMMA HighestIs ==
  ASSUME NEW n \in Nat, NEW S \in SUBSET (1..n), S # {}
  PROVE  Highest(S) \in S /\ \A j \in S : j <= Highest(S)
<1>1. S \in SUBSET Nat /\ \A i \in S : i <= n
  OBVIOUS
<1>2. \E i \in S : \A j \in S : j <= i
  BY <1>1, GreatestNat
<1> QED
  BY <1>2 DEF Highest

\* Among some places there is a first one.
LEMMA LowestIs ==
  ASSUME NEW S \in SUBSET Nat, S # {}
  PROVE  Lowest(S) \in S /\ \A j \in S : Lowest(S) <= j
BY LeastNat DEF Lowest

\* The leaf an entry is in is the nearest one before it.
LEMMA LeafOfEntry ==
  ASSUME NEW list, IsView(list), NEW i \in DOMAIN list, list[i].kind = "entry"
  PROVE  \E j \in Above(list, i) :
            list[j].kind = "leaf" /\ list[j].depth = list[i].depth - 1 /\ LeafPathOf(list, i) = list[j].path
<1> DEFINE Leaf(m, j) == /\ j \in 1..(m - 1) /\ list[j].kind = "leaf" /\ list[j].depth = list[m].depth - 1
                         /\ \A k \in (j + 1)..m : list[k].kind = "entry" /\ list[k].depth = list[m].depth
           Bad == {m \in 1..i : list[m].kind = "entry" /\ ~\E j \in 1..(m - 1) : Leaf(m, j)}
<1>0. /\ Len(list) \in Nat /\ DOMAIN list = 1..Len(list) /\ i \in 1..Len(list) /\ list[1].kind = "source"
      /\ \A k \in 1..Len(list) : list[k].depth \in Nat
  BY DEF IsView
<1>1. Bad = {}
  <2>1. SUFFICES ASSUME Bad # {} PROVE FALSE
    OBVIOUS
  <2>2. PICK m \in Bad : \A k \in Bad : m <= k
    <3>1. Bad \in SUBSET Nat
      OBVIOUS
    <3> HIDE DEF Bad
    <3> QED
      BY <2>1, <3>1, LeastNat
  <2>3. m \in 2..Len(list) /\ m <= i /\ list[m].kind = "entry" /\ ~\E j \in 1..(m - 1) : Leaf(m, j)
    <3>1. m \in 1..i /\ list[m].kind = "entry" /\ ~\E j \in 1..(m - 1) : Leaf(m, j)
      BY <2>2
    <3> HIDE DEF Leaf, Bad
    <3>2. m # 1
      BY <1>0, <3>1
    <3> QED
      BY <1>0, <3>1, <3>2
  <2>4. \/ list[m - 1].kind = "leaf" /\ list[m].depth = list[m - 1].depth + 1
        \/ list[m - 1].kind = "entry" /\ list[m].depth = list[m - 1].depth
    BY <2>3 DEF IsView
  <2>5. list[m].depth \in Nat /\ list[m - 1].depth \in Nat /\ m - 1 \in 1..(m - 1) /\ m - 1 \in 1..i
    BY <1>0, <2>3
  <2>6. CASE list[m - 1].kind = "leaf" /\ list[m].depth = list[m - 1].depth + 1
    <3>1. \A k \in ((m - 1) + 1)..m : k = m
      BY <2>3
    <3>2. Leaf(m, m - 1)
      BY <2>3, <2>5, <2>6, <3>1
    <3> QED
      BY <2>3, <2>5, <3>2
  <2>7. CASE list[m - 1].kind = "entry" /\ list[m].depth = list[m - 1].depth
    <3>1. m - 1 \notin Bad
      BY <2>2, <2>3
    <3>2. PICK j \in 1..((m - 1) - 1) : Leaf(m - 1, j)
      BY <2>5, <2>7, <3>1
    <3>3. \A k \in (j + 1)..m : k = m \/ k \in (j + 1)..(m - 1)
      BY <2>3
    <3>4. Leaf(m, j)
      BY <2>3, <2>5, <2>7, <3>2, <3>3
    <3>5. j \in 1..(m - 1)
      BY <2>3
    <3> QED
      BY <2>3, <3>4, <3>5
  <2> QED
    BY <2>4, <2>6, <2>7
<1>2. PICK j \in 1..(i - 1) : Leaf(i, j)
  <2>1. i \in 1..i
    BY <1>0
  <2>2. i \notin Bad
    BY <1>1
  <2> QED
    BY <2>1, <2>2
<1>3. j \in Above(list, i)
  <2>1. list[i].depth \in Nat
    BY <1>0
  <2> QED
    BY <1>2, <2>1 DEF Above
<1> DEFINE S == {k \in 1..i : list[k].kind = "leaf"}
<1>4. j \in S /\ \A k \in S : k <= j
  <2>1. j \in 1..i
    BY <1>0
  <2>2. \A k \in 1..i : k <= j \/ k \in (j + 1)..i
    BY <1>0
  <2> QED
    BY <1>2, <2>1, <2>2
<1>5. Highest(S) = j
  <2>1. S \in SUBSET (1..i) /\ S # {} /\ i \in Nat
    BY <1>0, <1>4
  <2>2. Highest(S) \in S /\ \A k \in S : k <= Highest(S)
    BY <2>1, HighestIs
  <2>3. Highest(S) \in Nat /\ j \in Nat
    BY <2>2
  <2> QED
    BY <1>4, <2>2, <2>3
<1>6. LeafPathOf(list, i) = list[j].path
  BY <1>5 DEF LeafPathOf
<1> QED
  BY <1>2, <1>3, <1>6

\* The source a node is in is the nearest one before it, or the node itself.
LEMMA SourceOfNode ==
  ASSUME NEW list, IsView(list), NEW i \in DOMAIN list,
         NEW s, s = Highest({j \in 1..i : list[j].kind = "source"})
  PROVE  s \in Above(list, i) \cup {i} /\ list[s].kind = "source"
<1>0. /\ Len(list) \in Nat /\ i \in 1..Len(list) /\ list[1].kind = "source"
      /\ \A k \in 1..Len(list) : list[k].depth \in Nat /\ (list[k].kind = "source" <=> list[k].depth = 0)
  BY DEF IsView
<1> DEFINE S == {j \in 1..i : list[j].kind = "source"}
<1>1. 1 \in S /\ S \in SUBSET (1..i) /\ i \in Nat
  BY <1>0
<1>2. s \in S /\ \A k \in S : k <= s
  BY <1>1, HighestIs
<1>3. s \in 1..i /\ list[s].kind = "source" /\ list[s].depth = 0
  BY <1>0, <1>2
<1>4. \A k \in (s + 1)..i : k \in 1..Len(list) /\ k \notin S /\ k \in 1..i
  BY <1>0, <1>2, <1>3
<1>5. \A k \in (s + 1)..i : list[s].depth < list[k].depth
  BY <1>0, <1>3, <1>4
<1>6. s = i \/ s \in 1..(i - 1)
  BY <1>0, <1>3
<1>7. s \in Above(list, i) \cup {i}
  BY <1>5, <1>6 DEF Above
<1> QED
  BY <1>3, <1>7

----------------------------------------------------------------------------
(* The invariant *)

\* The list is a view and its flags say what is expanded; the cursor is on a node that is
\* shown; what was asked for is of the cursor.
LInv ==
    /\ layout \in Layouts /\ IsView(nodes)
    /\ VisibleAreUnfolded
    /\ cursor \in DOMAIN nodes /\ CursorIsShown
    /\ asked.kind \in {"none", "boot", "unlock", "browse"} /\ RequestIsOfCursor

\* A list that was just built, with the cursor where it starts.
LEMMA BuiltCursor ==
  ASSUME NEW l \in Layouts
  PROVE  BuildCursor(Built[l]) \in DOMAIN Built[l] /\ Built[l][BuildCursor(Built[l])].visible
<1> DEFINE list == Built[l]
<1>1. 1 \in DOMAIN list /\ list[1].visible
  BY BuiltView, FirstIsShown
<1>2. DOMAIN list = 1..Len(list) /\ Len(list) \in Nat
  BY BuiltView DEF IsView
<1>3. DefaultsOf(list) # {} => Highest(DefaultsOf(list)) \in DOMAIN list
  <2>1. DefaultsOf(list) \in SUBSET (1..Len(list))
    BY <1>2 DEF DefaultsOf
  <2> QED
    BY <1>2, <2>1, HighestIs
<1> QED
  BY <1>1, <1>3 DEF BuildCursor

\* The invariant holds of a list that was just built, whatever was before.
LEMMA BuiltIsRight ==
  ASSUME NEW l \in Layouts, layout' = l, nodes' = Built[l], cursor' = BuildCursor(Built[l]), asked' = Nothing
  PROVE  LInv'
<1>1. IsView(nodes') /\ cursor' \in DOMAIN nodes' /\ CursorIsShown'
  BY BuiltView, BuiltCursor DEF CursorIsShown
<1>2. VisibleAreUnfolded'
  BY BuiltView DEF VisibleAreUnfolded
<1>3. asked'.kind = "none"
  BY DEF Nothing
<1> QED
  BY <1>1, <1>2, <1>3 DEF LInv, RequestIsOfCursor

\* It holds at the start,
LEMMA ListInitial == Init => LInv
<1> SUFFICES ASSUME Init PROVE LInv
  OBVIOUS
<1>1. /\ layout \in Layouts /\ nodes = Built[layout] /\ cursor = BuildCursor(Built[layout])
      /\ asked.kind = "none"
  BY DEF Init, Nothing
<1>2. IsView(nodes) /\ cursor \in DOMAIN nodes /\ CursorIsShown
  BY <1>1, BuiltView, BuiltCursor DEF CursorIsShown
<1>3. VisibleAreUnfolded
  BY <1>1, BuiltView DEF VisibleAreUnfolded
<1> QED
  BY <1>1, <1>2, <1>3 DEF LInv, RequestIsOfCursor

\* The cursor goes to a node that is shown, and nothing else changes.
LEMMA GoPreserves ==
  ASSUME LInv, NEW i \in DOMAIN nodes, nodes[i].visible, Go(i)
  PROVE  LInv'
<1>1. cursor' = i /\ asked'.kind = "none" /\ layout' = layout /\ nodes' = nodes
  BY DEF Go, Nothing
<1>2. VisibleAreUnfolded'
  BY <1>1 DEF LInv, VisibleAreUnfolded
<1> QED
  BY <1>1, <1>2 DEF LInv, CursorIsShown, RequestIsOfCursor

\* A key that does nothing.
LEMMA StayPreserves ==
  ASSUME LInv, Stay
  PROVE  LInv'
BY GoPreserves DEF Stay, LInv, CursorIsShown

\* The nearest of some nodes that are shown before or after another.
LEMMA NearestIsShown ==
  ASSUME LInv, NEW i, NEW S
  PROVE  /\ S \subseteq VisibleAfter(i) /\ S # {} => Lowest(S) \in DOMAIN nodes /\ nodes[Lowest(S)].visible
         /\ S \subseteq VisibleBefore(nodes, i) /\ S # {} =>
               Highest(S) \in DOMAIN nodes /\ nodes[Highest(S)].visible
<1>1. DOMAIN nodes = 1..Len(nodes) /\ Len(nodes) \in Nat
  BY DEF LInv, IsView
<1>2. ASSUME S \subseteq VisibleAfter(i), S # {}
      PROVE  Lowest(S) \in S
  <2>1. S \in SUBSET Nat
    BY <1>1, <1>2 DEF VisibleAfter
  <2> QED
    BY <1>2, <2>1, LowestIs
<1>3. ASSUME S \subseteq VisibleBefore(nodes, i), S # {}
      PROVE  Highest(S) \in S
  <2>1. S \in SUBSET (1..Len(nodes))
    BY <1>1, <1>3 DEF VisibleBefore
  <2> QED
    BY <1>1, <1>3, <2>1, HighestIs
<1> QED
  BY <1>2, <1>3 DEF VisibleAfter, VisibleBefore

\* A node that can be toggled is, and the flags of visibility are those of what is
\* expanded then.
LEMMA Toggled ==
  ASSUME LInv, Toggle, Toggles(Here)
  PROVE  /\ cursor' = VisibleCursor(nodes') /\ asked' = Nothing /\ layout' = layout
         /\ DOMAIN nodes' = DOMAIN nodes /\ IsView(nodes')
         /\ \A i \in DOMAIN nodes :
               /\ Lasting(nodes'[i]) = Lasting(nodes[i]) /\ Above(nodes', i) = Above(nodes, i)
               /\ nodes'[i].expanded = IF i = cursor THEN ~nodes[i].expanded ELSE nodes[i].expanded
               /\ nodes'[i].visible <=> \A j \in Above(nodes, i) : nodes'[j].expanded
<1> DEFINE list == [nodes EXCEPT ![cursor].expanded = ~@]
<1>1. /\ nodes' = RecomputeVisibility(list) /\ cursor' = VisibleCursor(nodes')
      /\ asked' = Nothing /\ layout' = layout
  BY DEF Toggle
<1>2. /\ IsView(nodes) /\ cursor \in DOMAIN nodes /\ nodes[cursor].kind # "entry"
      /\ DOMAIN nodes = 1..Len(nodes) /\ Len(nodes) \in Nat
  BY DEF LInv, IsView, Toggles, Here
<1>3. DOMAIN list = DOMAIN nodes /\ Len(list) = Len(nodes)
  BY <1>2
<1>4. ASSUME NEW i \in DOMAIN nodes
      PROVE  /\ DOMAIN list[i] = Fields
             /\ \A field \in Fields \ {"expanded"} : list[i][field] = nodes[i][field]
             /\ list[i].expanded \in BOOLEAN
             /\ list[i].expanded = IF i = cursor THEN ~nodes[i].expanded ELSE nodes[i].expanded
  <2>1. DOMAIN nodes[i] = Fields /\ "expanded" \in Fields /\ nodes[i].expanded \in BOOLEAN
    BY <1>2 DEF IsView, Fields
  <2>2. CASE i = cursor
    <3>1. list[i] = [nodes[i] EXCEPT !.expanded = ~nodes[i].expanded]
      BY <1>2, <2>2
    <3> QED
      BY <2>1, <2>2, <3>1
  <2>3. CASE i # cursor
    <3>1. list[i] = nodes[i]
      BY <2>3
    <3> QED
      BY <2>1, <2>3, <3>1
  <2> QED
    BY <2>2, <2>3
<1>5. \A i \in DOMAIN nodes :
         /\ list[i].kind = nodes[i].kind /\ list[i].depth = nodes[i].depth
         /\ Lasting(list[i]) = Lasting(nodes[i])
         /\ list[i].kind = "entry" => ~list[i].expanded
  <2> TAKE i \in DOMAIN nodes
  <2>1. \A field \in Fields \ {"expanded"} : list[i][field] = nodes[i][field]
    BY <1>4
  <2>2. /\ list[i].kind = nodes[i].kind /\ list[i].depth = nodes[i].depth
        /\ Lasting(list[i]) = Lasting(nodes[i])
    BY <2>1 DEF Lasting, Fields
  <2>3. list[i].kind = "entry" => i # cursor /\ ~nodes[i].expanded
    BY <1>2, <2>2 DEF IsView
  <2> QED
    BY <1>4, <2>2, <2>3
<1> HIDE DEF list
<1>6. IsView(list) /\ \A i \in DOMAIN nodes : Above(list, i) = Above(nodes, i)
  <2>1. \A i \in DOMAIN nodes :
           /\ DOMAIN list[i] = Fields
           /\ list[i].kind = nodes[i].kind /\ list[i].depth = nodes[i].depth
           /\ list[i].expanded \in BOOLEAN /\ (list[i].kind = "entry" => ~list[i].expanded)
    BY <1>4, <1>5
  <2> QED
    BY <1>2, <1>3, <2>1, ViewKept
<1>7. PICK new : new = nodes' /\ new = RecomputeVisibility(list)
  BY <1>1
<1>8. /\ DOMAIN new = DOMAIN nodes /\ Len(new) = Len(nodes)
      /\ \A i \in DOMAIN nodes :
            /\ DOMAIN new[i] = Fields /\ Lasting(new[i]) = Lasting(list[i])
            /\ new[i].kind = list[i].kind /\ new[i].depth = list[i].depth
            /\ new[i].expanded = list[i].expanded
            /\ new[i].visible <=> \A j \in Above(list, i) : list[j].expanded
  BY <1>3, <1>6, <1>7, RecomputedView
<1>9. IsView(new) /\ \A i \in DOMAIN nodes : Above(new, i) = Above(nodes, i)
  <2>1. \A i \in DOMAIN nodes :
           /\ DOMAIN new[i] = Fields
           /\ new[i].kind = nodes[i].kind /\ new[i].depth = nodes[i].depth
           /\ new[i].expanded \in BOOLEAN /\ (new[i].kind = "entry" => ~new[i].expanded)
    BY <1>4, <1>5, <1>8
  <2> QED
    BY <1>2, <1>8, <2>1, ViewKept
<1>10. ASSUME NEW i \in DOMAIN nodes
       PROVE  new[i].visible <=> \A j \in Above(nodes, i) : new[j].expanded
  <2>1. \A j \in Above(nodes, i) : j \in DOMAIN nodes
    BY <1>2, <1>10, AboveIsOpen
  <2> QED
    BY <1>6, <1>8, <2>1
<1>11. \A i \in DOMAIN nodes :
          /\ Lasting(new[i]) = Lasting(nodes[i])
          /\ new[i].expanded = IF i = cursor THEN ~nodes[i].expanded ELSE nodes[i].expanded
  BY <1>4, <1>5, <1>8
<1> QED
  BY <1>1, <1>7, <1>8, <1>9, <1>10, <1>11

\* The cursor has not to move, since nothing changed above it.
LEMMA TogglePreserves ==
  ASSUME LInv, Toggle
  PROVE  LInv' /\ cursor' = cursor
<1>1. CASE ~Toggles(Here)
  <2>1. Stay
    BY <1>1 DEF Toggle
  <2> QED
    BY <2>1, StayPreserves DEF Stay, Go
<1>2. CASE Toggles(Here)
  <2>1. /\ cursor' = VisibleCursor(nodes') /\ asked' = Nothing /\ layout' = layout
        /\ DOMAIN nodes' = DOMAIN nodes /\ IsView(nodes')
        /\ \A i \in DOMAIN nodes :
              /\ Lasting(nodes'[i]) = Lasting(nodes[i]) /\ Above(nodes', i) = Above(nodes, i)
              /\ i # cursor => nodes'[i].expanded = nodes[i].expanded
              /\ nodes'[i].visible <=> \A j \in Above(nodes, i) : nodes'[j].expanded
    BY <1>2, Toggled
  <2>2. /\ layout \in Layouts /\ IsView(nodes) /\ cursor \in DOMAIN nodes /\ nodes[cursor].visible
        /\ DOMAIN nodes = DOMAIN Built[layout]
        /\ \A i \in DOMAIN nodes :
              /\ Lasting(nodes[i]) = Lasting(Built[layout][i])
              /\ nodes[i].visible <=> \A j \in Above(nodes, i) : nodes[j].expanded
    BY DEF LInv, CursorIsShown, VisibleAreUnfolded
  <2>3. nodes'[cursor].visible
    <3>1. \A j \in Above(nodes, cursor) : j \in DOMAIN nodes /\ j # cursor /\ nodes[j].expanded
      BY <2>2, AboveIsOpen DEF Above
    <3> QED
      BY <2>1, <2>2, <3>1
  <2>4. cursor' = cursor
    BY <2>1, <2>3 DEF VisibleCursor
  <2>5. VisibleAreUnfolded'
    BY <2>1, <2>2 DEF VisibleAreUnfolded
  <2>6. asked'.kind = "none"
    BY <2>1 DEF Nothing
  <2>7. IsView(nodes') /\ cursor' \in DOMAIN nodes' /\ CursorIsShown'
    BY <2>1, <2>2, <2>3, <2>4 DEF CursorIsShown
  <2> QED
    BY <2>1, <2>2, <2>4, <2>5, <2>6, <2>7 DEF LInv, RequestIsOfCursor
<1> QED
  BY <1>1, <1>2

\* The keys that move the cursor or open and shut a node.
LEMMA MovePreserves ==
  ASSUME LInv, MoveDown \/ MoveUp \/ Expand \/ Collapse \/ EnterOther
  PROVE  LInv'
<1>1. CASE MoveDown
  <2>1. CASE VisibleAfter(cursor) = {}
    BY <1>1, <2>1, StayPreserves DEF MoveDown
  <2>2. CASE VisibleAfter(cursor) # {}
    <3>1. Go(Lowest(VisibleAfter(cursor)))
      BY <1>1, <2>2 DEF MoveDown
    <3> QED
      BY <2>2, <3>1, NearestIsShown, GoPreserves
  <2> QED
    BY <2>1, <2>2
<1>2. CASE MoveUp
  <2>1. CASE VisibleBefore(nodes, cursor) = {}
    BY <1>2, <2>1, StayPreserves DEF MoveUp
  <2>2. CASE VisibleBefore(nodes, cursor) # {}
    <3>1. Go(Highest(VisibleBefore(nodes, cursor)))
      BY <1>2, <2>2 DEF MoveUp
    <3> QED
      BY <2>2, <3>1, NearestIsShown, GoPreserves
  <2> QED
    BY <2>1, <2>2
<1>3. CASE Expand
  BY <1>3, TogglePreserves, StayPreserves DEF Expand
<1>4. CASE Collapse
  <2>1. CASE Toggle \/ Stay
    BY <2>1, TogglePreserves, StayPreserves
  <2>2. CASE Outer(cursor) # {} /\ Go(Highest(Outer(cursor)))
    <3>1. Outer(cursor) \subseteq VisibleBefore(nodes, cursor)
      BY DEF Outer
    <3> QED
      BY <2>2, <3>1, NearestIsShown, GoPreserves
  <2> QED
    BY <1>4, <2>1, <2>2 DEF Collapse
<1>5. CASE EnterOther
  BY <1>5, TogglePreserves DEF EnterOther
<1> QED
  BY <1>1, <1>2, <1>3, <1>4, <1>5

\* The keys that ask run_tui for something; the list and the cursor stay.
LEMMA RequestPreserves ==
  ASSUME LInv, EnterEntry \/ EnterLocked \/ OpenFileBrowser
  PROVE  LInv'
<1>1. layout' = layout /\ nodes' = nodes /\ cursor' = cursor
  BY DEF EnterEntry, EnterLocked, OpenFileBrowser, Request
<1>2. VisibleAreUnfolded' /\ CursorIsShown' /\ IsView(nodes')
  BY <1>1 DEF LInv, VisibleAreUnfolded, CursorIsShown
<1>3. CASE EnterEntry
  <2>1. /\ asked'.kind = "boot" /\ asked'.path = LeafPathOf(nodes, cursor)
        /\ asked'.entry = nodes[cursor].name /\ nodes[cursor].kind = "entry"
    BY <1>3 DEF EnterEntry, Request, Here
  <2>2. RequestIsOfCursor'
    BY <1>1, <2>1, LeafOfEntry DEF RequestIsOfCursor, LInv
  <2> QED
    BY <1>1, <1>2, <2>1, <2>2 DEF LInv
<1>4. CASE EnterLocked
  <2>1. asked'.kind = "unlock"
    BY <1>4 DEF EnterLocked, Request
  <2> QED
    BY <1>1, <1>2, <2>1 DEF LInv, RequestIsOfCursor
<1>5. CASE OpenFileBrowser
  <2>1. asked'.kind = "browse" /\ asked'.src = CursorSource
    BY <1>5 DEF OpenFileBrowser, Request
  <2>2. PICK s : s = Highest({j \in 1..cursor : nodes[j].kind = "source"})
    OBVIOUS
  <2>3. CursorSource = nodes[s].src
    BY <2>2 DEF CursorSource, SourceAt
  <2>4. s \in Above(nodes, cursor) \cup {cursor} /\ nodes[s].kind = "source"
    BY <2>2, SourceOfNode DEF LInv
  <2>5. RequestIsOfCursor'
    BY <1>1, <2>1, <2>3, <2>4 DEF RequestIsOfCursor
  <2> QED
    BY <1>1, <1>2, <2>1, <2>5 DEF LInv
<1> QED
  BY <1>3, <1>4, <1>5

\* and after every step.
LEMMA ListStep ==
  ASSUME LInv, [Next]_vars
  PROVE  LInv'
<1>1. ASSUME NEW l \in Layouts, Rebuild(l)
      PROVE  LInv'
  <2>1. layout' = l /\ nodes' = Built[l] /\ cursor' = BuildCursor(Built[l]) /\ asked' = Nothing
    BY <1>1 DEF Rebuild
  <2> QED
    BY <2>1, BuiltIsRight
<1>2. CASE UNCHANGED vars
  <2>1. layout' = layout /\ nodes' = nodes /\ cursor' = cursor /\ asked' = asked
    BY <1>2 DEF vars
  <2>2. VisibleAreUnfolded' /\ CursorIsShown' /\ RequestIsOfCursor'
    BY <2>1 DEF LInv, VisibleAreUnfolded, CursorIsShown, RequestIsOfCursor
  <2> QED
    BY <2>1, <2>2 DEF LInv
<1> QED
  BY <1>1, <1>2, MovePreserves, RequestPreserves DEF Next

----------------------------------------------------------------------------
(* The places of the nodes *)

\* What PlacesOf has for the places before and at each node.
IsPlacing(list, f) ==
    f = [i \in 0..Len(list) |-> IF i = 0 THEN <<>> ELSE NextPlace(f[i - 1], list[i].depth)]

\* There is such a function, by the number of nodes.
LEMMA PlacingExists ==
  ASSUME NEW list, Len(list) \in Nat
  PROVE  \E f : IsPlacing(list, f)
<1> DEFINE To(n, f) == f = [i \in 0..n |-> IF i = 0 THEN <<>> ELSE NextPlace(f[i - 1], list[i].depth)]
           Bad == {n \in Nat : ~\E f : To(n, f)}
<1>1. SUFFICES Bad = {}
  BY DEF IsPlacing
<1>2. SUFFICES ASSUME Bad # {} PROVE FALSE
  OBVIOUS
<1>3. PICK n \in Bad : \A m \in Bad : n <= m
  BY <1>2, LeastNat
<1>4. n # 0
  <2> DEFINE f == [i \in 0..0 |-> <<>>]
  <2>1. \A i \in 0..0 : i = 0
    OBVIOUS
  <2>2. To(0, f)
    BY <2>1
  <2> QED
    BY <2>2
<1>5. n - 1 \in Nat \ Bad
  <2>1. n \in Nat
    OBVIOUS
  <2> HIDE DEF Bad
  <2> QED
    BY <1>3, <1>4, <2>1
<1>6. PICK f : To(n - 1, f)
  BY <1>5
<1> DEFINE g == [i \in 0..n |-> IF i = n THEN NextPlace(f[n - 1], list[n].depth) ELSE f[i]]
<1>7. ASSUME NEW i \in 0..n
      PROVE  g[i] = IF i = 0 THEN <<>> ELSE NextPlace(g[i - 1], list[i].depth)
  <2>1. CASE i = 0
    BY <1>4, <1>6, <2>1
  <2>2. CASE i # 0
    <3>1. g[i - 1] = f[i - 1]
      BY <2>2
    <3>2. CASE i = n
      BY <2>2, <3>1, <3>2
    <3>3. CASE i # n
      <4>1. i \in 0..(n - 1)
        BY <3>3
      <4>2. f[i] = NextPlace(f[i - 1], list[i].depth)
        BY <1>6, <2>2, <4>1
      <4> QED
        BY <2>2, <3>1, <3>3, <4>2
    <3> QED
      BY <3>2, <3>3
  <2> QED
    BY <2>1, <2>2
<1>8. To(n, g)
  BY <1>7
<1> QED
  BY <1>8

\* The first place, and every other from the one before it.
LEMMA PlacesFollow ==
  ASSUME NEW list, Len(list) \in Nat, DOMAIN list = 1..Len(list), NEW places, places = PlacesOf(list)
  PROVE  /\ DOMAIN places = DOMAIN list
         /\ 1 \in DOMAIN list => places[1] = NextPlace(<<>>, list[1].depth)
         /\ \A i \in DOMAIN list \ {1} : places[i] = NextPlace(places[i - 1], list[i].depth)
<1> DEFINE f == CHOOSE g : IsPlacing(list, g)
<1>1. IsPlacing(list, f)
  BY PlacingExists
<1>2. places = [i \in DOMAIN list |-> f[i]]
  BY DEF PlacesOf, IsPlacing
<1> HIDE DEF f
<1>3. f[0] = <<>> /\ \A i \in 1..Len(list) : f[i] = NextPlace(f[i - 1], list[i].depth)
  BY <1>1 DEF IsPlacing
<1>4. \A i \in DOMAIN list \ {1} : i - 1 \in DOMAIN list
  OBVIOUS
<1> QED
  BY <1>2, <1>3, <1>4

\* A place next to another, or under it.
LEMMA NextPlaceIs ==
  ASSUME NEW before \in Seq(Nat), NEW d \in 0..Len(before)
  PROVE  /\ NextPlace(before, d) \in Seq(Nat) /\ Len(NextPlace(before, d)) = d + 1
         /\ \A x \in 1..d : NextPlace(before, d)[x] = before[x]
         /\ NextPlace(before, d)[d + 1] = IF Len(before) > d THEN before[d + 1] + 1 ELSE 1
<1> DEFINE part == SubSeq(before, 1, d)
           number == IF Len(before) > d THEN before[d + 1] + 1 ELSE 1
<1>1. Len(before) \in Nat
  BY LenProperties
<1>2. part \in Seq(Nat) /\ Len(part) = d /\ \A x \in 1..d : part[x] = before[x]
  <2>1. 1 \in Int /\ d \in Int /\ \A x \in 1..d : before[x] \in Nat
    BY <1>1, ElementOfSeq
  <2>2. /\ part \in Seq(Nat) /\ Len(part) = (IF 1 <= d THEN d - 1 + 1 ELSE 0)
        /\ \A x \in 1..(d - 1 + 1) : part[x] = before[1 + x - 1]
    BY <2>1, SubSeqProperties
  <2> HIDE DEF part
  <2> QED
    BY <1>1, <2>2
<1>3. number \in Nat
  <2>1. Len(before) > d => d + 1 \in 1..Len(before)
    BY <1>1
  <2>2. Len(before) > d => before[d + 1] \in Nat
    BY <2>1, ElementOfSeq
  <2> QED
    BY <2>2
<1>4. NextPlace(before, d) = Append(part, number)
  BY DEF NextPlace
<1> HIDE DEF part, number
<1>5. /\ Append(part, number) \in Seq(Nat) /\ Len(Append(part, number)) = Len(part) + 1
      /\ \A x \in 1..Len(part) : Append(part, number)[x] = part[x]
      /\ Append(part, number)[Len(part) + 1] = number
  BY <1>2, <1>3, AppendProperties
<1> QED
  BY <1>2, <1>4, <1>5 DEF number

\* A place has as many numbers as its node is deep, and one; up to the depth of a node
\* they are those of the node before it, and then comes the next.
Placed(list, places) ==
    /\ DOMAIN places = DOMAIN list
    /\ \A i \in DOMAIN list : places[i] \in Seq(Nat) /\ Len(places[i]) = list[i].depth + 1
    /\ places[1][1] = 1
    /\ \A i \in DOMAIN list \ {1} :
          /\ \A x \in 1..list[i].depth : places[i][x] = places[i - 1][x]
          /\ places[i][list[i].depth + 1] =
                IF list[i - 1].depth < list[i].depth THEN 1 ELSE places[i - 1][list[i].depth + 1] + 1

\* What the proofs take of a list that was built.
IsListed(list) ==
    /\ Len(list) \in Nat \ {0} /\ DOMAIN list = 1..Len(list)
    /\ \A i \in DOMAIN list : list[i].depth \in Nat
    /\ list[1].depth = 0
    /\ \A i \in DOMAIN list \ {1} : list[i].depth <= list[i - 1].depth + 1

\* It can be taken of every list there is.
LEMMA BuiltIsListed ==
  ASSUME NEW list, IsView(list), IsNumbered(list)
  PROVE  IsListed(list)
<1>1. /\ Len(list) \in Nat \ {0} /\ DOMAIN list = 1..Len(list) /\ list[1].kind = "source"
      /\ \A i \in DOMAIN list : list[i].depth \in Nat /\ (list[i].kind = "source" <=> list[i].depth = 0)
  BY DEF IsView
<1>2. \A i \in DOMAIN list \ {1} : list[i].depth <= list[i - 1].depth + 1
  BY DEF IsNumbered
<1>3. 1 \in DOMAIN list
  BY <1>1
<1> QED
  BY <1>1, <1>2, <1>3 DEF IsListed

\* And so are the places of such a list.
LEMMA PlacesArePlaced ==
  ASSUME NEW list, IsListed(list), NEW places, places = PlacesOf(list)
  PROVE  Placed(list, places)
<1>0. /\ Len(list) \in Nat /\ DOMAIN list = 1..Len(list) /\ 1 \in DOMAIN list
      /\ list[1].depth = 0 /\ \A i \in DOMAIN list : list[i].depth \in Nat
  BY DEF IsListed
<1>1. /\ DOMAIN places = DOMAIN list
      /\ places[1] = NextPlace(<<>>, 0)
      /\ \A i \in DOMAIN list \ {1} : places[i] = NextPlace(places[i - 1], list[i].depth)
  BY <1>0, PlacesFollow
<1> DEFINE Good(i) == places[i] \in Seq(Nat) /\ Len(places[i]) = list[i].depth + 1
           Bad == {i \in DOMAIN list : ~Good(i)}
<1>2. Good(1) /\ places[1][1] = 1
  <2>1. PICK none : none = <<>>
    OBVIOUS
  <2>2. none \in Seq(Nat) /\ Len(none) = 0 /\ 0 \in 0..Len(none)
    BY <2>1, EmptySeq
  <2>3. /\ NextPlace(none, 0) \in Seq(Nat) /\ Len(NextPlace(none, 0)) = 0 + 1
        /\ NextPlace(none, 0)[0 + 1] = IF Len(none) > 0 THEN none[0 + 1] + 1 ELSE 1
    BY <2>2, NextPlaceIs
  <2> QED
    BY <1>0, <1>1, <2>1, <2>2, <2>3
<1>3. ASSUME NEW i \in DOMAIN list \ {1}, Good(i - 1)
      PROVE  /\ Good(i)
             /\ \A x \in 1..list[i].depth : places[i][x] = places[i - 1][x]
             /\ places[i][list[i].depth + 1] =
                   IF list[i - 1].depth < list[i].depth THEN 1 ELSE places[i - 1][list[i].depth + 1] + 1
  <2> DEFINE before == places[i - 1]
             d == list[i].depth
  <2>1. before \in Seq(Nat) /\ Len(before) = list[i - 1].depth + 1 /\ i - 1 \in DOMAIN list
    BY <1>0, <1>3
  <2>2. d \in 0..Len(before) /\ list[i - 1].depth \in Nat /\ d \in Nat
    BY <1>0, <2>1 DEF IsListed
  <2> HIDE DEF before, d
  <2>3. /\ NextPlace(before, d) \in Seq(Nat) /\ Len(NextPlace(before, d)) = d + 1
        /\ \A x \in 1..d : NextPlace(before, d)[x] = before[x]
        /\ NextPlace(before, d)[d + 1] = IF Len(before) > d THEN before[d + 1] + 1 ELSE 1
    BY <2>1, <2>2, NextPlaceIs
  <2>4. places[i] = NextPlace(before, d)
    BY <1>1 DEF before, d
  <2>5. Len(before) > d <=> ~(list[i - 1].depth < d)
    BY <2>1, <2>2
  <2> QED
    BY <2>3, <2>4, <2>5 DEF before, d
<1>4. Bad = {}
  <2>1. SUFFICES ASSUME Bad # {} PROVE FALSE
    OBVIOUS
  <2>2. PICK i \in Bad : \A j \in Bad : i <= j
    <3>1. Bad \in SUBSET Nat
      BY <1>0
    <3> HIDE DEF Bad
    <3> QED
      BY <2>1, <3>1, LeastNat
  <2>3. i # 1 /\ i \in DOMAIN list /\ ~Good(i)
    <3> HIDE DEF Good
    <3> QED
      BY <1>2, <2>2
  <2> HIDE DEF Good
  <2>4. i - 1 \in DOMAIN list /\ i - 1 \notin Bad
    <3>1. i - 1 \in DOMAIN list /\ ~(i <= i - 1)
      BY <1>0, <2>3
    <3> QED
      BY <2>2, <3>1
  <2> QED
    BY <1>3, <2>3, <2>4
<1>5. \A i \in DOMAIN list : Good(i)
  <2> HIDE DEF Good
  <2> QED
    BY <1>4
<1>6. \A i \in DOMAIN list \ {1} : Good(i - 1)
  <2> HIDE DEF Good
  <2> QED
    BY <1>0, <1>5
<1> QED
  BY <1>1, <1>2, <1>3, <1>5, <1>6 DEF Placed

\* Node i is under node j, or is j, and so is its place.
Within(list, places, j, i) ==
    /\ \A k \in (j + 1)..i : list[j].depth < list[k].depth
    /\ j <= i
    /\ \A x \in 1..(list[j].depth + 1) : places[i][x] = places[j][x]

\* Node i is after node j and what is under it, and so is its place.
Beyond(list, places, j, i) ==
    /\ j < i
    /\ \E n \in 1..(list[j].depth + 1) :
          /\ n <= list[i].depth + 1 /\ places[j][n] < places[i][n]
          /\ \A x \in 1..(n - 1) : places[i][x] = places[j][x]

\* Every node is under one before it, or after what is.
LEMMA WithinOrBeyond ==
  ASSUME NEW list, IsListed(list), NEW places, Placed(list, places),
         NEW j \in DOMAIN list, NEW i \in DOMAIN list, j <= i
  PROVE  Within(list, places, j, i) \/ Beyond(list, places, j, i)
<1> DEFINE Good(m) == Within(list, places, j, m) \/ Beyond(list, places, j, m)
           Bad == {m \in j..i : ~Good(m)}
           D(m) == list[m].depth
<1>0. /\ Len(list) \in Nat /\ DOMAIN list = 1..Len(list)
      /\ \A m \in DOMAIN list : D(m) \in Nat /\ \A x \in 1..(D(m) + 1) : places[m][x] \in Nat
  <2>1. \A m \in DOMAIN list : places[m] \in Seq(Nat) /\ Len(places[m]) = D(m) + 1
    BY DEF Placed
  <2>2. \A m \in DOMAIN list : \A x \in 1..(D(m) + 1) : places[m][x] \in Nat
    BY <2>1, ElementOfSeq
  <2> QED
    BY <2>2 DEF IsListed
<1>1. Good(j)
  BY <1>0 DEF Within
<1>2. ASSUME NEW m \in DOMAIN list, m > j, Good(m - 1)
      PROVE  Good(m)
  <2> DEFINE d == D(m)
             c == D(m - 1)
             e == D(j)
  <2>1. /\ m - 1 \in DOMAIN list /\ m \in DOMAIN list \ {1} /\ c \in Nat /\ d \in Nat /\ e \in Nat /\ d <= c + 1
        /\ j <= m - 1 /\ j \in Nat /\ m \in Nat
    BY <1>0, <1>2 DEF IsListed
  <2>2. /\ \A x \in 1..d : places[m][x] = places[m - 1][x]
        /\ places[m][d + 1] = IF c < d THEN 1 ELSE places[m - 1][d + 1] + 1
    BY <2>1 DEF Placed
  <2> HIDE DEF d, c, e
  <2>3. CASE Within(list, places, j, m - 1)
    <3>1. /\ \A k \in (j + 1)..(m - 1) : e < D(k)
          /\ \A x \in 1..(e + 1) : places[m - 1][x] = places[j][x]
      BY <2>3 DEF Within, e
    <3>2. e <= c
      <4>1. CASE j = m - 1
        BY <2>1, <4>1 DEF e, c
      <4>2. CASE j # m - 1
        <5>1. m - 1 \in (j + 1)..(m - 1)
          BY <2>1, <4>2
        <5> QED
          BY <2>1, <3>1, <5>1 DEF c
      <4> QED
        BY <4>1, <4>2
    <3>3. CASE e < d
      <4>1. \A x \in 1..(e + 1) : x \in 1..d
        BY <2>1, <3>3
      <4>2. \A x \in 1..(e + 1) : places[m][x] = places[j][x]
        BY <2>2, <3>1, <4>1
      <4>3. \A k \in (j + 1)..m : k = m \/ k \in (j + 1)..(m - 1)
        BY <2>1
      <4>4. \A k \in (j + 1)..m : e < D(k)
        BY <3>1, <3>3, <4>3 DEF d
      <4>5. Within(list, places, j, m)
        BY <2>1, <4>2, <4>4 DEF Within, e
      <4> QED
        BY <4>5
    <3>4. CASE ~(e < d)
      <4>1. d + 1 \in 1..(e + 1) /\ d + 1 \in 1..(c + 1) /\ ~(c < d)
        BY <2>1, <3>2, <3>4
      <4>2. places[m][d + 1] = places[j][d + 1] + 1 /\ places[j][d + 1] \in Nat
        BY <1>0, <2>2, <3>1, <4>1 DEF e
      <4>3. \A x \in 1..((d + 1) - 1) : x \in 1..d /\ x \in 1..(e + 1)
        BY <2>1, <4>1
      <4>4. \A x \in 1..((d + 1) - 1) : places[m][x] = places[j][x]
        BY <2>2, <3>1, <4>3
      <4>5. places[j][d + 1] < places[m][d + 1] /\ d + 1 <= d + 1 /\ j < m
        BY <2>1, <4>2
      <4>6. Beyond(list, places, j, m)
        BY <4>1, <4>4, <4>5 DEF Beyond, e, d
      <4> QED
        BY <4>6
    <3> QED
      BY <3>3, <3>4
  <2>4. CASE Beyond(list, places, j, m - 1)
    <3>1. PICK n \in 1..(e + 1) :
            /\ n <= c + 1 /\ places[j][n] < places[m - 1][n]
            /\ \A x \in 1..(n - 1) : places[m - 1][x] = places[j][x]
      BY <2>4 DEF Beyond, e, c
    <3>2. n \in Nat /\ places[j][n] \in Nat /\ places[m - 1][n] \in Nat
      <4>1. n \in 1..(c + 1) /\ n \in Nat
        BY <2>1, <3>1
      <4> QED
        BY <1>0, <2>1, <4>1 DEF c, e
    <3>3. CASE n <= d
      <4>1. n \in 1..d /\ n <= d + 1 /\ \A x \in 1..(n - 1) : x \in 1..d
        BY <2>1, <3>2, <3>3
      <4>2. places[j][n] < places[m][n] /\ \A x \in 1..(n - 1) : places[m][x] = places[j][x]
        BY <2>2, <3>1, <4>1
      <4>3. Beyond(list, places, j, m)
        BY <2>1, <4>1, <4>2, <1>2 DEF Beyond, e, d
      <4> QED
        BY <4>3
    <3>4. CASE n = d + 1
      <4>1. ~(c < d) /\ \A x \in 1..(n - 1) : x \in 1..d
        BY <2>1, <3>1, <3>4
      <4>2. places[m][n] = places[m - 1][n] + 1 /\ \A x \in 1..(n - 1) : places[m][x] = places[j][x]
        BY <2>2, <3>1, <3>4, <4>1
      <4>3. places[j][n] < places[m][n] /\ n <= d + 1
        BY <2>1, <3>1, <3>2, <3>4, <4>2
      <4>4. Beyond(list, places, j, m)
        BY <4>2, <4>3, <1>2 DEF Beyond, e, d
      <4> QED
        BY <4>4
    <3>5. CASE n > d + 1
      <4>1. d + 1 \in 1..(n - 1) /\ d + 1 \in 1..(e + 1) /\ ~(c < d) /\ d + 1 \in 1..(c + 1)
        BY <2>1, <3>1, <3>2, <3>5
      <4>2. places[m][d + 1] = places[j][d + 1] + 1 /\ places[j][d + 1] \in Nat
        BY <1>0, <2>2, <3>1, <4>1 DEF e
      <4>3. \A x \in 1..((d + 1) - 1) : x \in 1..d /\ x \in 1..(n - 1)
        BY <2>1, <3>2, <4>1
      <4>4. \A x \in 1..((d + 1) - 1) : places[m][x] = places[j][x]
        BY <2>2, <3>1, <4>3
      <4>5. places[j][d + 1] < places[m][d + 1] /\ d + 1 <= d + 1
        BY <2>1, <4>2
      <4>6. Beyond(list, places, j, m)
        BY <4>1, <4>4, <4>5, <1>2 DEF Beyond, e, d
      <4> QED
        BY <4>6
    <3> QED
      BY <2>1, <3>2, <3>3, <3>4, <3>5
  <2> QED
    BY <1>2, <2>3, <2>4
<1> HIDE DEF Good
<1>3. Bad = {}
  <2>1. SUFFICES ASSUME Bad # {} PROVE FALSE
    OBVIOUS
  <2>2. PICK m \in Bad : \A k \in Bad : m <= k
    <3>1. Bad \in SUBSET Nat
      BY <1>0
    <3> HIDE DEF Bad
    <3> QED
      BY <2>1, <3>1, LeastNat
  <2>3. m \in j..i /\ ~Good(m) /\ m # j
    BY <1>1, <2>2
  <2>4. m \in DOMAIN list /\ m > j /\ m - 1 \in j..i /\ ~(m <= m - 1)
    BY <1>0, <2>3
  <2>5. Good(m - 1)
    BY <2>2, <2>4
  <2> QED
    BY <1>2, <2>3, <2>4, <2>5
<1>4. i \in j..i
  BY <1>0
<1>5. Good(i)
  BY <1>3, <1>4
<1> QED
  BY <1>5 DEF Good

\* Two places are the same up to some number.
LEMMA SamePrefix ==
  ASSUME NEW p \in Seq(Nat), NEW q \in Seq(Nat), NEW n \in Nat, n <= Len(p), n <= Len(q)
  PROVE  /\ SubSeq(p, 1, n) \in Seq(Nat) /\ Len(SubSeq(p, 1, n)) = n
         /\ SubSeq(p, 1, n) = SubSeq(q, 1, n) <=> \A x \in 1..n : p[x] = q[x]
<1>1. ASSUME NEW s \in Seq(Nat), n <= Len(s)
      PROVE  SubSeq(s, 1, n) \in Seq(Nat) /\ Len(SubSeq(s, 1, n)) = n /\ \A x \in 1..n : SubSeq(s, 1, n)[x] = s[x]
  <2> DEFINE part == SubSeq(s, 1, n)
  <2>1. 1 \in Int /\ n \in Int /\ \A x \in 1..n : s[x] \in Nat
    <3>1. Len(s) \in Nat
      BY LenProperties
    <3> QED
      BY <1>1, <3>1, ElementOfSeq
  <2>2. /\ part \in Seq(Nat) /\ Len(part) = (IF 1 <= n THEN n - 1 + 1 ELSE 0)
        /\ \A x \in 1..(n - 1 + 1) : part[x] = s[1 + x - 1]
    BY <2>1, SubSeqProperties
  <2> HIDE DEF part
  <2>3. part \in Seq(Nat) /\ Len(part) = n /\ \A x \in 1..n : part[x] = s[x]
    BY <2>2
  <2> QED
    BY <2>3 DEF part
<1>2. /\ SubSeq(p, 1, n) \in Seq(Nat) /\ Len(SubSeq(p, 1, n)) = n /\ \A x \in 1..n : SubSeq(p, 1, n)[x] = p[x]
      /\ SubSeq(q, 1, n) \in Seq(Nat) /\ Len(SubSeq(q, 1, n)) = n /\ \A x \in 1..n : SubSeq(q, 1, n)[x] = q[x]
  BY <1>1
<1> DEFINE a == SubSeq(p, 1, n)
           b == SubSeq(q, 1, n)
<1> HIDE DEF a, b
<1>3. /\ a \in Seq(Nat) /\ Len(a) = n /\ \A x \in 1..n : a[x] = p[x]
      /\ b \in Seq(Nat) /\ Len(b) = n /\ \A x \in 1..n : b[x] = q[x]
  BY <1>2 DEF a, b
<1>4. a = b <=> \A x \in 1..n : p[x] = q[x]
  <2>1. ASSUME \A x \in 1..n : p[x] = q[x]
        PROVE  a = b
    <3>1. \A x \in 1..Len(a) : a[x] = b[x]
      BY <1>3, <2>1
    <3> QED
      BY <1>3, <3>1, SeqEqual
  <2>2. ASSUME a = b
        PROVE  \A x \in 1..n : p[x] = q[x]
    BY <1>3, <2>2
  <2> QED
    BY <2>1, <2>2
<1> QED
  BY <1>2, <1>4 DEF a, b

\* Before, number by number.
Comes(p, q) ==
    \/ Len(p) < Len(q) /\ \A x \in 1..Len(p) : p[x] = q[x]
    \/ \E n \in 1..Len(p) : n <= Len(q) /\ p[n] < q[n] /\ \A x \in 1..(n - 1) : p[x] = q[x]

\* It is the same.
LEMMA BeforeComes ==
  ASSUME NEW p \in Seq(Nat), NEW q \in Seq(Nat)
  PROVE  Abstract!Before(p, q) <=> Comes(p, q)
<1>0. Len(p) \in Nat /\ Len(q) \in Nat
  BY LenProperties
<1>1. ASSUME Len(p) < Len(q)
      PROVE  SubSeq(q, 1, Len(p)) = p <=> \A x \in 1..Len(p) : p[x] = q[x]
  <2>1. SubSeq(p, 1, Len(p)) = p
    BY SubSeqFull
  <2>2. Len(p) <= Len(p) /\ Len(p) <= Len(q)
    BY <1>0, <1>1
  <2>3. SubSeq(p, 1, Len(p)) = SubSeq(q, 1, Len(p)) <=> \A x \in 1..Len(p) : p[x] = q[x]
    BY <1>0, <2>2, SamePrefix
  <2> QED
    BY <2>1, <2>3
<1>2. ASSUME NEW n \in 1..Len(p), n <= Len(q)
      PROVE  SubSeq(p, 1, n - 1) = SubSeq(q, 1, n - 1) <=> \A x \in 1..(n - 1) : p[x] = q[x]
  <2>1. n - 1 \in Nat /\ n - 1 <= Len(p) /\ n - 1 <= Len(q)
    BY <1>0, <1>2
  <2> QED
    BY <2>1, SamePrefix
<1> QED
  BY <1>1, <1>2 DEF Abstract!Before, Comes

\* No place is before itself, nor two before each other.
LEMMA ComesIsStrict ==
  ASSUME NEW p \in Seq(Nat), NEW q \in Seq(Nat), Comes(p, q), Comes(q, p)
  PROVE  FALSE
<1>0. /\ Len(p) \in Nat /\ Len(q) \in Nat
      /\ \A x \in 1..Len(p) : p[x] \in Nat
      /\ \A x \in 1..Len(q) : q[x] \in Nat
  BY LenProperties, ElementOfSeq
<1>1. CASE Len(p) < Len(q) /\ \A x \in 1..Len(p) : p[x] = q[x]
  <2>1. PICK n \in 1..Len(q) : n <= Len(p) /\ q[n] < p[n]
    BY <1>0, <1>1 DEF Comes
  <2>2. n \in 1..Len(p)
    BY <1>0, <2>1
  <2> QED
    BY <1>0, <1>1, <2>1, <2>2
<1>2. CASE \E n \in 1..Len(p) : n <= Len(q) /\ p[n] < q[n] /\ \A x \in 1..(n - 1) : p[x] = q[x]
  <2>1. PICK n \in 1..Len(p) : n <= Len(q) /\ p[n] < q[n] /\ \A x \in 1..(n - 1) : p[x] = q[x]
    BY <1>2
  <2>2. n \in 1..Len(q) /\ n \in Nat
    BY <1>0, <2>1
  <2>3. CASE Len(q) < Len(p) /\ \A x \in 1..Len(q) : q[x] = p[x]
    BY <1>0, <2>1, <2>2, <2>3
  <2>4. CASE \E m \in 1..Len(q) : m <= Len(p) /\ q[m] < p[m] /\ \A x \in 1..(m - 1) : q[x] = p[x]
    <3>1. PICK m \in 1..Len(q) : m <= Len(p) /\ q[m] < p[m] /\ \A x \in 1..(m - 1) : q[x] = p[x]
      BY <2>4
    <3>2. m \in 1..Len(p) /\ m \in Nat
      BY <1>0, <3>1
    <3>3. m < n => m \in 1..(n - 1)
      BY <2>2, <3>2
    <3>4. n < m => n \in 1..(m - 1)
      BY <2>2, <3>2
    <3>5. p[m] \in Nat /\ q[m] \in Nat /\ p[n] \in Nat /\ q[n] \in Nat
      BY <1>0, <2>2, <3>2
    <3>6. m = n \/ m < n \/ n < m
      BY <2>2, <3>2
    <3> QED
      BY <2>1, <3>1, <3>3, <3>4, <3>5, <3>6
  <2> QED
    BY <2>3, <2>4 DEF Comes
<1> QED
  BY <1>1, <1>2 DEF Comes

\* The list has its nodes in the order of their places.
LEMMA ListedInOrder ==
  ASSUME NEW list, IsListed(list), NEW places, Placed(list, places),
         NEW i \in DOMAIN list, NEW j \in DOMAIN list
  PROVE  /\ Abstract!Before(places[i], places[j]) <=> i < j
         /\ places[i] = places[j] => i = j
<1>0. /\ Len(list) \in Nat /\ DOMAIN list = 1..Len(list)
      /\ \A m \in DOMAIN list : places[m] \in Seq(Nat) /\ Len(places[m]) = list[m].depth + 1 /\ list[m].depth \in Nat
  BY DEF IsListed, Placed
<1>1. ASSUME NEW a \in DOMAIN list, NEW b \in DOMAIN list, a < b
      PROVE  Comes(places[a], places[b])
  <2>1. a <= b /\ a \in Nat /\ b \in Nat
    BY <1>0, <1>1
  <2>2. CASE Within(list, places, a, b)
    <3>1. list[a].depth < list[b].depth /\ \A x \in 1..(list[a].depth + 1) : places[b][x] = places[a][x]
      <4>1. b \in (a + 1)..b
        BY <1>1, <2>1
      <4> QED
        BY <2>2, <4>1 DEF Within
    <3>2. Len(places[a]) < Len(places[b])
      BY <1>0, <3>1
    <3> QED
      BY <1>0, <3>1, <3>2 DEF Comes
  <2>3. CASE Beyond(list, places, a, b)
    BY <1>0, <2>3 DEF Beyond, Comes
  <2> QED
    BY <2>1, <2>2, <2>3, WithinOrBeyond
<1>2. Comes(places[i], places[j]) <=> i < j
  <2>1. i \in Nat /\ j \in Nat /\ places[i] \in Seq(Nat) /\ places[j] \in Seq(Nat)
    BY <1>0
  <2>2. CASE i < j
    BY <1>1, <2>2
  <2>3. CASE j < i
    BY <1>1, <2>1, <2>3, ComesIsStrict
  <2>4. CASE i = j
    BY <2>1, <2>4, ComesIsStrict
  <2> QED
    BY <2>1, <2>2, <2>3, <2>4
<1>3. places[i] = places[j] => i = j
  <2> SUFFICES ASSUME places[i] = places[j], i # j PROVE FALSE
    OBVIOUS
  <2>1. i < j \/ j < i
    BY <1>0
  <2>2. Comes(places[i], places[i])
    BY <1>1, <2>1
  <2> QED
    BY <1>0, <2>2, ComesIsStrict
<1> QED
  BY <1>0, <1>2, <1>3, BeforeComes

\* A node has the place of a node above it, as far as that goes.
LEMMA AboveIsPrefix ==
  ASSUME NEW list, IsListed(list), NEW places, Placed(list, places),
         NEW i \in DOMAIN list, NEW j \in Above(list, i)
  PROVE  /\ j \in DOMAIN list /\ list[j].depth < list[i].depth
         /\ places[j] = SubSeq(places[i], 1, list[j].depth + 1)
<1> DEFINE e == list[j].depth
           Good(k) == \A x \in 1..(e + 1) : places[k][x] = places[j][x]
           Bad == {k \in j..i : ~Good(k)}
<1>0. /\ Len(list) \in Nat /\ DOMAIN list = 1..Len(list) /\ i \in 1..Len(list)
      /\ \A k \in DOMAIN list : list[k].depth \in Nat
  BY DEF IsListed
<1>1. /\ j \in 1..(i - 1) /\ \A k \in (j + 1)..i : list[j].depth < list[k].depth
  BY DEF Above
<1>2. j \in DOMAIN list /\ e \in Nat /\ list[j].depth < list[i].depth
  BY <1>0, <1>1
<1>3. ASSUME NEW k \in (j + 1)..i, Good(k - 1)
      PROVE  Good(k)
  <2>1. k \in DOMAIN list \ {1} /\ e < list[k].depth /\ list[k].depth \in Nat
    BY <1>0, <1>1
  <2>2. \A x \in 1..list[k].depth : places[k][x] = places[k - 1][x]
    BY <2>1 DEF Placed
  <2>3. \A x \in 1..(e + 1) : x \in 1..list[k].depth
    BY <1>2, <2>1
  <2> HIDE DEF e
  <2> QED
    BY <1>3, <2>2, <2>3
<1>4. Bad = {}
  <2>1. SUFFICES ASSUME Bad # {} PROVE FALSE
    OBVIOUS
  <2> HIDE DEF Good
  <2>2. PICK k \in Bad : \A m \in Bad : k <= m
    <3>1. Bad \in SUBSET Nat
      BY <1>0, <1>1
    <3> HIDE DEF Bad
    <3> QED
      BY <2>1, <3>1, LeastNat
  <2>3. Good(j)
    BY DEF Good
  <2>4. k \in j..i /\ ~Good(k) /\ k # j
    BY <2>2, <2>3
  <2>5. k \in (j + 1)..i /\ k - 1 \in j..i /\ ~(k <= k - 1)
    BY <1>0, <1>1, <2>4
  <2>6. Good(k - 1)
    BY <2>2, <2>5
  <2> QED
    BY <1>3, <2>4, <2>5, <2>6
<1>5. Good(i)
  <2>1. i \in j..i
    BY <1>0, <1>1
  <2> HIDE DEF Good
  <2> QED
    BY <1>4, <2>1
<1>6. /\ places[i] \in Seq(Nat) /\ Len(places[i]) = list[i].depth + 1
      /\ places[j] \in Seq(Nat) /\ Len(places[j]) = e + 1
  BY <1>2 DEF Placed
<1>7. e + 1 \in Nat /\ e + 1 <= Len(places[i]) /\ e + 1 <= Len(places[j])
  BY <1>0, <1>2, <1>6
<1>8. SubSeq(places[i], 1, e + 1) = SubSeq(places[j], 1, e + 1)
  <2> HIDE DEF e
  <2>1. \A x \in 1..(e + 1) : places[i][x] = places[j][x]
    BY <1>5
  <2> QED
    BY <1>6, <1>7, <2>1, SamePrefix
<1>9. SubSeq(places[j], 1, e + 1) = places[j]
  BY <1>6, SubSeqFull
<1> QED
  BY <1>2, <1>8, <1>9

\* There is one at every lesser depth, as deep as which or less nothing comes between.
LEMMA AboveAtDepth ==
  ASSUME NEW list, IsListed(list), NEW i \in DOMAIN list, NEW n \in 1..list[i].depth
  PROVE  \E j \in Above(list, i) : list[j].depth = n - 1 /\ \A k \in (j + 1)..i : n <= list[k].depth
<1>0. /\ Len(list) \in Nat /\ DOMAIN list = 1..Len(list) /\ i \in 1..Len(list) /\ list[1].depth = 0
      /\ \A k \in DOMAIN list : list[k].depth \in Nat
      /\ \A k \in DOMAIN list \ {1} : list[k].depth <= list[k - 1].depth + 1
  BY DEF IsListed
<1> DEFINE S == {k \in 1..(i - 1) : list[k].depth < n}
           j == Highest(S)
<1>1. list[i].depth \in Nat /\ n <= list[i].depth /\ n \in Nat /\ i # 1
  BY <1>0
<1>2. j \in S /\ \A k \in S : k <= j
  <2>1. S \in SUBSET (1..(i - 1)) /\ 1 \in S /\ i - 1 \in Nat
    BY <1>0, <1>1
  <2> HIDE DEF S
  <2> QED
    BY <2>1, HighestIs
<1> HIDE DEF j
<1>3. \A k \in (j + 1)..i : n <= list[k].depth
  <2> SUFFICES ASSUME NEW k \in (j + 1)..i PROVE n <= list[k].depth
    OBVIOUS
  <2>1. CASE k = i
    BY <1>1, <2>1
  <2>2. CASE k # i
    <3>1. k \in 1..(i - 1) /\ k \notin S /\ list[k].depth \in Nat
      BY <1>0, <1>2, <2>2
    <3> QED
      BY <1>1, <3>1
  <2> QED
    BY <2>1, <2>2
<1>4. j \in 1..(i - 1) /\ list[j].depth < n /\ list[j].depth \in Nat
  BY <1>0, <1>2
<1>5. list[j + 1].depth <= list[j].depth + 1 /\ n <= list[j + 1].depth /\ list[j + 1].depth \in Nat
  <2>1. j + 1 \in DOMAIN list \ {1} /\ (j + 1) - 1 = j /\ j + 1 \in (j + 1)..i
    BY <1>0, <1>4
  <2> QED
    BY <1>0, <1>3, <2>1
<1>6. list[j].depth = n - 1
  BY <1>1, <1>4, <1>5
<1>7. j \in Above(list, i)
  <2>1. \A k \in (j + 1)..i : k \in DOMAIN list
    BY <1>0, <1>4
  <2>2. \A k \in (j + 1)..i : list[j].depth < list[k].depth
    BY <1>0, <1>1, <1>3, <1>4, <2>1
  <2> QED
    BY <1>4, <2>2 DEF Above
<1> QED
  BY <1>3, <1>6, <1>7

\* The nodes a node is under are those of the outline.
LEMMA AncestorsAre ==
  ASSUME NEW list, IsListed(list), NEW places, Placed(list, places), NEW i \in DOMAIN list
  PROVE  Abstract!Ancestors(places[i]) = {places[j] : j \in Above(list, i)}
<1> DEFINE d == list[i].depth
<1>1. Len(places[i]) = d + 1 /\ d \in Nat /\ (d + 1) - 1 = d
  BY DEF Placed, IsListed
<1>2. Abstract!Ancestors(places[i]) = {SubSeq(places[i], 1, n) : n \in 1..d}
  BY <1>1 DEF Abstract!Ancestors
<1>3. ASSUME NEW j \in Above(list, i)
      PROVE  \E n \in 1..d : places[j] = SubSeq(places[i], 1, n)
  <2>1. j \in DOMAIN list /\ list[j].depth < d /\ places[j] = SubSeq(places[i], 1, list[j].depth + 1)
    BY AboveIsPrefix
  <2>2. list[j].depth \in Nat
    BY <2>1 DEF IsListed
  <2>3. list[j].depth + 1 \in 1..d
    BY <1>1, <2>1, <2>2
  <2> QED
    BY <2>1, <2>3
<1>4. ASSUME NEW n \in 1..d
      PROVE  \E j \in Above(list, i) : places[j] = SubSeq(places[i], 1, n)
  <2>1. PICK j \in Above(list, i) : list[j].depth = n - 1
    BY AboveAtDepth
  <2>2. places[j] = SubSeq(places[i], 1, list[j].depth + 1)
    BY AboveIsPrefix
  <2>3. list[j].depth + 1 = n
    BY <2>1
  <2> QED
    BY <2>2, <2>3
<1> QED
  BY <1>2, <1>3, <1>4

\* The parent of a node that has one.
LEMMA ParentIs ==
  ASSUME NEW list, IsListed(list), NEW places, Placed(list, places),
         NEW i \in DOMAIN list, list[i].depth > 0
  PROVE  \E j \in Above(list, i) :
            /\ list[j].depth = list[i].depth - 1 /\ Abstract!Parent(places[i]) = places[j]
            /\ \A k \in (j + 1)..i : list[i].depth <= list[k].depth
<1>1. Len(places[i]) = list[i].depth + 1 /\ list[i].depth \in Nat
  BY DEF Placed, IsListed
<1>2. list[i].depth \in 1..list[i].depth
  BY <1>1
<1>3. PICK j \in Above(list, i) :
         list[j].depth = list[i].depth - 1 /\ \A k \in (j + 1)..i : list[i].depth <= list[k].depth
  BY <1>2, AboveAtDepth
<1>4. places[j] = SubSeq(places[i], 1, list[j].depth + 1)
  BY AboveIsPrefix
<1>5. list[j].depth + 1 = Len(places[i]) - 1
  BY <1>1, <1>3
<1> QED
  BY <1>3, <1>4, <1>5 DEF Abstract!Parent

\* The first number of a place is that of the source the node is in.
LEMMA FirstIsSource ==
  ASSUME NEW list, IsView(list), IsNumbered(list), NEW places, Placed(list, places), NEW i \in DOMAIN list
  PROVE  places[i][1] = list[SourceAt(list, i)].src
<1> DEFINE Good(k) == places[k][1] = list[SourceAt(list, k)].src
           Bad == {k \in DOMAIN list : ~Good(k)}
           In(k) == {j \in 1..k : list[j].kind = "source"}
<1>0. /\ Len(list) \in Nat /\ DOMAIN list = 1..Len(list) /\ 1 \in DOMAIN list /\ list[1].kind = "source"
      /\ \A k \in DOMAIN list : list[k].depth \in Nat /\ (list[k].kind = "source" <=> list[k].depth = 0)
  BY DEF IsView
<1>1. \A k \in DOMAIN list : SourceAt(list, k) \in In(k) /\ \A m \in In(k) : m <= SourceAt(list, k)
  <2> TAKE k \in DOMAIN list
  <2>1. In(k) \in SUBSET (1..k) /\ 1 \in In(k) /\ k \in Nat
    BY <1>0
  <2>2. SourceAt(list, k) = Highest(In(k))
    BY DEF SourceAt
  <2> HIDE DEF In
  <2> QED
    BY <2>1, <2>2, HighestIs
<1>2. Good(1)
  <2>1. SourceAt(list, 1) = 1
    BY <1>0, <1>1
  <2>2. places[1][1] = 1
    BY DEF Placed
  <2>3. list[1].src = 1
    BY DEF IsNumbered
  <2> QED
    BY <2>1, <2>2, <2>3
<1>3. ASSUME NEW k \in DOMAIN list \ {1}, Good(k - 1)
      PROVE  Good(k)
  <2>1. k - 1 \in DOMAIN list /\ k \in DOMAIN list /\ k \in Nat /\ k > 1
    BY <1>0
  <2>2. /\ \A x \in 1..list[k].depth : places[k][x] = places[k - 1][x]
        /\ places[k][list[k].depth + 1] =
              IF list[k - 1].depth < list[k].depth THEN 1 ELSE places[k - 1][list[k].depth + 1] + 1
    BY DEF Placed
  <2>3. CASE list[k].kind = "source"
    <3>1. list[k].depth = 0 /\ ~(list[k - 1].depth < 0)
      BY <1>0, <2>1, <2>3
    <3>2. places[k][1] = places[k - 1][1] + 1
      BY <2>2, <3>1
    <3>3. list[k].src = list[SourceAt(list, k - 1)].src + 1
      BY <2>3 DEF IsNumbered
    <3>4. k \in In(k) /\ \A m \in In(k) : m <= k
      BY <2>1, <2>3
    <3>5. SourceAt(list, k) = k
      <4>1. k <= SourceAt(list, k) /\ SourceAt(list, k) \in In(k)
        BY <1>1, <2>1, <3>4
      <4> QED
        BY <2>1, <4>1
    <3> QED
      BY <1>3, <3>2, <3>3, <3>5
  <2>4. CASE list[k].kind # "source"
    <3>1. list[k].depth \in Nat /\ list[k].depth # 0
      BY <1>0, <2>4
    <3>2. places[k][1] = places[k - 1][1]
      BY <2>2, <3>1
    <3>3. In(k) = In(k - 1)
      <4>1. \A j \in 1..k : j = k \/ j \in 1..(k - 1)
        BY <2>1
      <4>2. \A j \in 1..(k - 1) : j \in 1..k
        BY <2>1
      <4> QED
        BY <2>4, <4>1, <4>2
    <3>4. SourceAt(list, k) = SourceAt(list, k - 1)
      BY <3>3 DEF SourceAt
    <3> QED
      BY <1>3, <3>2, <3>4
  <2> QED
    BY <2>3, <2>4
<1> HIDE DEF Good
<1>4. Bad = {}
  <2>1. SUFFICES ASSUME Bad # {} PROVE FALSE
    OBVIOUS
  <2>2. PICK k \in Bad : \A m \in Bad : k <= m
    <3>1. Bad \in SUBSET Nat
      BY <1>0
    <3> HIDE DEF Bad
    <3> QED
      BY <2>1, <3>1, LeastNat
  <2>3. k \in DOMAIN list \ {1} /\ ~Good(k)
    BY <1>2, <2>2
  <2>4. k - 1 \in DOMAIN list /\ ~(k <= k - 1)
    BY <1>0, <2>3
  <2>5. Good(k - 1)
    BY <2>2, <2>4
  <2> QED
    BY <1>3, <2>3, <2>5
<1>5. Good(i)
  BY <1>4
<1> QED
  BY <1>5 DEF Good

----------------------------------------------------------------------------
(* The list as an outline *)

\* What is expanded can be toggled.
RInv == LInv /\ \A i \in DOMAIN nodes : nodes[i].expanded => Toggles(nodes[i])

\* The tree of a list that was built.
LEMMA BuiltShape ==
  ASSUME NEW l \in Layouts
  PROVE  /\ IsListed(Built[l]) /\ Placed(Built[l], PlacesIn[l])
         /\ DOMAIN ShapeIn[l] = {PlacesIn[l][i] : i \in DOMAIN Built[l]}
         /\ \A i \in DOMAIN Built[l] : ShapeIn[l][PlacesIn[l][i]] = What(Built[l][i])
<1> DEFINE list == Built[l]
           places == PlacesIn[l]
<1>1. IsListed(list)
  BY BuiltAssumption, BuiltIsListed DEF AreBuilt, Layouts
<1>2. places = PlacesOf(list)
  BY DEF PlacesIn
<1>3. Placed(list, places)
  BY <1>1, <1>2, PlacesArePlaced
<1>4. ShapeIn[l] = ShapeOf(list, places)
  BY DEF ShapeIn
<1> HIDE DEF list, places
<1>5. ASSUME NEW i \in DOMAIN list
      PROVE  (CHOOSE j \in DOMAIN list : places[j] = places[i]) = i
  <2>1. \A j \in DOMAIN list : places[j] = places[i] => j = i
    BY <1>1, <1>3, ListedInOrder
  <2> QED
    BY <2>1
<1>6. ASSUME NEW i \in DOMAIN list
      PROVE  ShapeOf(list, places)[places[i]] = What(list[i])
  BY <1>5 DEF ShapeOf
<1>7. DOMAIN ShapeOf(list, places) = {places[i] : i \in DOMAIN list}
  BY DEF ShapeOf
<1> QED
  BY <1>1, <1>3, <1>4, <1>6, <1>7 DEF list, places

\* The list that is shown has the places of the one that was built.
LEMMA Drawn ==
  ASSUME LInv
  PROVE  /\ IsView(nodes) /\ IsListed(nodes) /\ Placed(nodes, Places)
         /\ DOMAIN Shape = {Places[i] : i \in DOMAIN nodes}
         /\ \A i \in DOMAIN nodes :
               /\ Shape[Places[i]] = What(nodes[i])
               /\ Places[i][1] = nodes[SourceAt(nodes, i)].src
               /\ nodes[i].kind = "entry" => nodes[i].src = Places[i][1]
<1> DEFINE list == Built[layout]
<1>1. layout \in Layouts /\ IsView(nodes) /\ IsView(list) /\ IsNumbered(list)
  BY BuiltAssumption DEF LInv, AreBuilt, Layouts
<1>2. /\ DOMAIN nodes = DOMAIN list
      /\ \A i \in DOMAIN nodes : Lasting(nodes[i]) = Lasting(list[i])
  BY DEF LInv, VisibleAreUnfolded
<1>3. /\ IsListed(list) /\ Placed(list, Places)
      /\ DOMAIN Shape = {Places[i] : i \in DOMAIN list}
      /\ \A i \in DOMAIN list : Shape[Places[i]] = What(list[i])
  BY <1>1, BuiltShape DEF Places, Shape
<1> HIDE DEF list
<1>4. \A i \in DOMAIN nodes :
         /\ nodes[i].depth = list[i].depth /\ nodes[i].kind = list[i].kind /\ nodes[i].src = list[i].src
         /\ What(nodes[i]) = What(list[i])
  BY <1>2 DEF Lasting, What
<1>5. /\ Len(nodes) \in Nat \ {0} /\ DOMAIN nodes = 1..Len(nodes)
      /\ \A i \in DOMAIN nodes \ {1} : i - 1 \in DOMAIN nodes /\ i \in DOMAIN nodes
      /\ 1 \in DOMAIN nodes
  <2>1. Len(nodes) \in Nat \ {0} /\ DOMAIN nodes = 1..Len(nodes)
    BY <1>1 DEF IsView
  <2> QED
    BY <2>1
<1>6. IsListed(nodes)
  BY <1>2, <1>3, <1>4, <1>5 DEF IsListed
<1>7. Placed(nodes, Places)
  <2>1. /\ DOMAIN Places = DOMAIN nodes
        /\ \A i \in DOMAIN nodes : Places[i] \in Seq(Nat) /\ Len(Places[i]) = nodes[i].depth + 1
        /\ Places[1][1] = 1
    BY <1>2, <1>3, <1>4 DEF Placed
  <2>2. ASSUME NEW i \in DOMAIN nodes \ {1}
        PROVE  /\ \A x \in 1..nodes[i].depth : Places[i][x] = Places[i - 1][x]
               /\ Places[i][nodes[i].depth + 1] =
                     IF nodes[i - 1].depth < nodes[i].depth THEN 1 ELSE Places[i - 1][nodes[i].depth + 1] + 1
    <3>1. nodes[i].depth = list[i].depth /\ nodes[i - 1].depth = list[i - 1].depth /\ i \in DOMAIN list \ {1}
      BY <1>2, <1>4, <1>5
    <3> QED
      BY <1>3, <3>1 DEF Placed
  <2> QED
    BY <2>1, <2>2 DEF Placed
<1>8. ASSUME NEW i \in DOMAIN nodes
      PROVE  /\ Places[i][1] = nodes[SourceAt(nodes, i)].src
             /\ nodes[i].kind = "entry" => nodes[i].src = Places[i][1]
  <2>1. {j \in 1..i : nodes[j].kind = "source"} = {j \in 1..i : list[j].kind = "source"}
    <3>1. \A j \in 1..i : j \in DOMAIN nodes
      BY <1>5
    <3> QED
      BY <1>4, <3>1
  <2>2. SourceAt(nodes, i) = SourceAt(list, i)
    BY <2>1 DEF SourceAt
  <2>3. SourceAt(nodes, i) \in DOMAIN nodes
    <3>1. PICK s : s = Highest({j \in 1..i : nodes[j].kind = "source"})
      OBVIOUS
    <3>2. s \in Above(nodes, i) \cup {i}
      BY <1>1, <3>1, SourceOfNode
    <3>3. s \in DOMAIN nodes
      BY <1>5, <3>2 DEF Above
    <3> QED
      BY <3>1, <3>3 DEF SourceAt
  <2>4. Places[i][1] = list[SourceAt(list, i)].src
    BY <1>1, <1>2, <1>3, FirstIsSource
  <2>5. list[i].kind = "entry" => list[i].src = list[SourceAt(list, i)].src
    BY <1>1, <1>2 DEF IsNumbered
  <2> QED
    BY <1>4, <2>2, <2>3, <2>4, <2>5
<1>9. DOMAIN Shape = {Places[i] : i \in DOMAIN nodes} /\ \A i \in DOMAIN nodes : Shape[Places[i]] = What(nodes[i])
  BY <1>2, <1>3, <1>4
<1> QED
  BY <1>1, <1>6, <1>7, <1>8, <1>9

\* Nodes are expanded and shown in the list if they are in the outline.
LEMMA FlagsAre ==
  ASSUME LInv
  PROVE  /\ \A i \in DOMAIN nodes :
               /\ Places[i] \in OpenPlaces <=> nodes[i].expanded
               /\ Abstract!Ancestors(Places[i]) \subseteq OpenPlaces <=> nodes[i].visible
         /\ Abstract!ShownNodes = {Places[i] : i \in {j \in DOMAIN nodes : nodes[j].visible}}
<1>1. /\ IsListed(nodes) /\ Placed(nodes, Places) /\ IsView(nodes)
      /\ DOMAIN Shape = {Places[i] : i \in DOMAIN nodes}
  BY Drawn
<1>2. ASSUME NEW i \in DOMAIN nodes
      PROVE  Places[i] \in OpenPlaces <=> nodes[i].expanded
  <2>1. \A j \in DOMAIN nodes : Places[j] = Places[i] => j = i
    BY <1>1, ListedInOrder
  <2> QED
    BY <2>1 DEF OpenPlaces
<1>3. ASSUME NEW i \in DOMAIN nodes
      PROVE  Abstract!Ancestors(Places[i]) \subseteq OpenPlaces <=> nodes[i].visible
  <2>1. Abstract!Ancestors(Places[i]) = {Places[j] : j \in Above(nodes, i)}
    BY <1>1, AncestorsAre
  <2>2. \A j \in Above(nodes, i) : j \in DOMAIN nodes
    BY <1>1, AboveIsOpen
  <2>3. nodes[i].visible <=> \A j \in Above(nodes, i) : nodes[j].expanded
    BY DEF LInv, VisibleAreUnfolded
  <2>4. (\A j \in Above(nodes, i) : Places[j] \in OpenPlaces) <=> (\A j \in Above(nodes, i) : nodes[j].expanded)
    BY <1>2, <2>2
  <2>5. {Places[j] : j \in Above(nodes, i)} \subseteq OpenPlaces <=> \A j \in Above(nodes, i) : Places[j] \in OpenPlaces
    OBVIOUS
  <2> QED
    BY <2>1, <2>3, <2>4, <2>5
<1>4. Abstract!ShownNodes = {p \in DOMAIN Shape : Abstract!Ancestors(p) \subseteq OpenPlaces}
  BY DEF Abstract!ShownNodes, Abstract!Nodes
<1> QED
  BY <1>1, <1>2, <1>3, <1>4

\* What is shown is an outline.
LEMMA ListShows == RInv => Abstract!CursorIsShown
<1> SUFFICES ASSUME RInv PROVE Abstract!CursorIsShown
  OBVIOUS
<1>0. LInv
  BY DEF RInv
<1>1. /\ IsListed(nodes) /\ Placed(nodes, Places) /\ IsView(nodes)
      /\ DOMAIN Shape = {Places[i] : i \in DOMAIN nodes}
      /\ \A i \in DOMAIN nodes : Shape[Places[i]] = What(nodes[i])
  BY <1>0, Drawn
<1>2. Abstract!IsTree(Shape)
  <2> SUFFICES ASSUME NEW i \in DOMAIN nodes
               PROVE  Places[i] \in Seq(Nat) /\ (Len(Places[i]) > 1 => Abstract!Parent(Places[i]) \in DOMAIN Shape)
    BY <1>1 DEF Abstract!IsTree
  <2>1. Places[i] \in Seq(Nat) /\ Len(Places[i]) = nodes[i].depth + 1 /\ nodes[i].depth \in Nat
    BY <1>1 DEF Placed, IsListed
  <2>2. ASSUME nodes[i].depth > 0
        PROVE  Abstract!Parent(Places[i]) \in DOMAIN Shape
    <3>1. PICK j \in Above(nodes, i) : Abstract!Parent(Places[i]) = Places[j]
      BY <1>1, <2>2, ParentIs
    <3>2. j \in DOMAIN nodes
      BY <1>1, AboveIsOpen
    <3> QED
      BY <1>1, <3>1, <3>2
  <2>3. Len(Places[i]) > 1 => nodes[i].depth > 0
    BY <2>1
  <2> QED
    BY <2>1, <2>2, <2>3
<1>3. OpenPlaces \subseteq {p \in DOMAIN Shape : Abstract!Foldable(Shape[p])}
  <2> SUFFICES ASSUME NEW i \in DOMAIN nodes, nodes[i].expanded
               PROVE  Places[i] \in DOMAIN Shape /\ Abstract!Foldable(Shape[Places[i]])
    BY DEF OpenPlaces
  <2>1. Toggles(nodes[i])
    BY DEF RInv
  <2>2. nodes[i].kind \in {"source", "dir", "leaf", "entry"}
    BY <1>1 DEF IsView
  <2>3. Abstract!Foldable(What(nodes[i]))
    BY <2>1, <2>2 DEF Abstract!Foldable, What, Toggles, Expandable
  <2> QED
    BY <1>1, <2>3
<1>4. CursorPlace \in DOMAIN Shape /\ Abstract!Ancestors(CursorPlace) \subseteq OpenPlaces
  <2>1. cursor \in DOMAIN nodes /\ nodes[cursor].visible
    BY <1>0 DEF LInv, CursorIsShown
  <2>2. Abstract!Ancestors(Places[cursor]) \subseteq OpenPlaces
    BY <1>0, <2>1, FlagsAre
  <2> QED
    BY <1>1, <2>1, <2>2 DEF CursorPlace
<1>5. Shape # <<>>
  <2>1. PICK none : none = <<>>
    OBVIOUS
  <2>2. DOMAIN none = {}
    BY <2>1
  <2>3. Shape # none
    BY <1>4, <2>2
  <2> QED
    BY <2>1, <2>3
<1> QED
  BY <1>2, <1>3, <1>4, <1>5 DEF Abstract!CursorIsShown, Abstract!Shows

\* Nothing but the cursor moves.
LEMMA SameOutline ==
  ASSUME layout' = layout, nodes' = nodes
  PROVE  Places' = Places /\ Shape' = Shape /\ OpenPlaces' = OpenPlaces
<1>1. Places' = Places /\ Shape' = Shape
  BY DEF Places, Shape
<1>2. OpenPlaces' = OpenPlaces
  BY <1>1 DEF OpenPlaces
<1> QED
  BY <1>1, <1>2

\* A key that does nothing to the list does nothing to the outline.
LEMMA StayIsIdle ==
  ASSUME Stay
  PROVE  Abstract!Idle
<1>1. layout' = layout /\ nodes' = nodes /\ cursor' = cursor /\ asked' = Nothing
  BY DEF Stay, Go
<1>2. Places' = Places /\ Shape' = Shape /\ OpenPlaces' = OpenPlaces
  BY <1>1, SameOutline
<1>3. CursorPlace' = CursorPlace
  BY <1>1, <1>2 DEF CursorPlace
<1> QED
  BY <1>1, <1>2, <1>3 DEF Abstract!Idle, Abstract!Nothing, Nothing

\* The cursor goes to the place of the node it goes to.
LEMMA GoIsGo ==
  ASSUME NEW i, Go(i)
  PROVE  Abstract!Go(Places[i])
<1>1. layout' = layout /\ nodes' = nodes /\ cursor' = i /\ asked' = Nothing
  BY DEF Go
<1>2. Places' = Places /\ Shape' = Shape /\ OpenPlaces' = OpenPlaces
  BY <1>1, SameOutline
<1>3. CursorPlace' = Places[i]
  BY <1>1, <1>2 DEF CursorPlace
<1> QED
  BY <1>1, <1>2, <1>3 DEF Abstract!Go, Abstract!Nothing, Nothing

\* What has been opened or shut can still be toggled.
LEMMA TogglesKept ==
  ASSUME RInv, Toggle
  PROVE  RInv'
<1>0. LInv
  BY DEF RInv
<1>1. LInv'
  BY <1>0, TogglePreserves
<1>2. CASE ~Toggles(Here)
  <2>1. nodes' = nodes
    BY <1>2 DEF Toggle, Stay, Go
  <2> QED
    BY <1>1, <2>1 DEF RInv
<1>3. CASE Toggles(Here)
  <2>1. /\ DOMAIN nodes' = DOMAIN nodes
        /\ \A i \in DOMAIN nodes :
              /\ Lasting(nodes'[i]) = Lasting(nodes[i])
              /\ nodes'[i].expanded = IF i = cursor THEN ~nodes[i].expanded ELSE nodes[i].expanded
    BY <1>0, <1>3, Toggled
  <2>2. ASSUME NEW i \in DOMAIN nodes, nodes'[i].expanded
        PROVE  Toggles(nodes'[i])
    <3>1. nodes'[i].kind = nodes[i].kind /\ nodes'[i].state = nodes[i].state
      BY <2>1 DEF Lasting
    <3>2. Toggles(nodes[i])
      BY <1>3, <2>1, <2>2 DEF RInv, Here
    <3> QED
      BY <3>1, <3>2 DEF Toggles
  <2> QED
    BY <1>1, <2>1, <2>2 DEF RInv
<1> QED
  BY <1>2, <1>3

\* A list that was built starts that way.
LEMMA RInitial == Init => RInv
<1> SUFFICES ASSUME Init PROVE RInv
  OBVIOUS
<1>1. LInv
  BY ListInitial
<1>2. layout \in Layouts /\ nodes = Built[layout]
  BY DEF Init
<1> QED
  BY <1>1, <1>2, BuiltAssumption DEF RInv, IsNumbered, AreBuilt, Layouts

\* And it stays that way.
LEMMA RStep ==
  ASSUME RInv, [Next]_vars
  PROVE  RInv'
<1>0. LInv'
  BY ListStep DEF RInv
<1>1. CASE nodes' = nodes
  BY <1>0, <1>1 DEF RInv
<1>2. CASE Toggle
  BY <1>2, TogglesKept
<1>3. ASSUME NEW l \in Layouts, Rebuild(l)
      PROVE  RInv'
  <2>1. nodes' = Built[l]
    BY <1>3 DEF Rebuild
  <2> QED
    BY <1>0, <2>1, BuiltAssumption DEF RInv, IsNumbered, AreBuilt, Layouts
<1>4. CASE UNCHANGED vars
  BY <1>1, <1>4 DEF vars
<1>5. CASE MoveDown \/ MoveUp
  <2>1. nodes' = nodes
    BY <1>5 DEF MoveDown, MoveUp, Stay, Go
  <2> QED
    BY <1>1, <2>1
<1>6. CASE Expand \/ Collapse \/ EnterOther
  <2>1. Toggle \/ nodes' = nodes
    BY <1>6 DEF Expand, Collapse, EnterOther, Stay, Go
  <2> QED
    BY <1>1, <1>2, <2>1
<1>7. CASE EnterEntry \/ EnterLocked \/ OpenFileBrowser
  <2>1. nodes' = nodes
    BY <1>7 DEF EnterEntry, EnterLocked, OpenFileBrowser, Request
  <2> QED
    BY <1>1, <2>1
<1> QED
  BY <1>3, <1>4, <1>5, <1>6, <1>7 DEF Next

\* The next node that is marked visible is the next one that is shown.
LEMMA MoveDownIsDown ==
  ASSUME LInv, MoveDown
  PROVE  Abstract!Down \/ Abstract!Idle
<1>1. CASE VisibleAfter(cursor) = {}
  BY <1>1, StayIsIdle DEF MoveDown
<1>2. CASE VisibleAfter(cursor) # {}
  <2>1. PICK i : i = Lowest(VisibleAfter(cursor))
    OBVIOUS
  <2>2. IsListed(nodes) /\ Placed(nodes, Places) /\ DOMAIN nodes = 1..Len(nodes) /\ Len(nodes) \in Nat
    BY Drawn DEF IsListed
  <2>3. i \in VisibleAfter(cursor) /\ \A k \in VisibleAfter(cursor) : i <= k
    <3>1. VisibleAfter(cursor) \in SUBSET Nat
      BY <2>2 DEF VisibleAfter
    <3> QED
      BY <1>2, <2>1, <3>1, LowestIs
  <2>4. i \in DOMAIN nodes /\ nodes[i].visible /\ cursor < i /\ cursor \in DOMAIN nodes
    BY <2>2, <2>3 DEF VisibleAfter, LInv
  <2> DEFINE below == {p \in Abstract!ShownNodes : Abstract!Before(CursorPlace, p)}
  <2>5. Places[i] \in below
    <3>1. Abstract!Before(Places[cursor], Places[i])
      BY <2>2, <2>4, ListedInOrder
    <3> QED
      BY <2>4, <3>1, FlagsAre DEF CursorPlace
  <2>6. ASSUME NEW q \in below, q # Places[i]
        PROVE  Abstract!Before(Places[i], q)
    <3>1. PICK k \in DOMAIN nodes : nodes[k].visible /\ q = Places[k]
      BY FlagsAre
    <3>2. cursor < k
      BY <2>2, <2>4, <3>1, ListedInOrder DEF CursorPlace
    <3>3. k \in VisibleAfter(cursor) /\ k # i
      BY <2>2, <2>4, <2>6, <3>1, <3>2 DEF VisibleAfter
    <3>4. i < k
      BY <2>2, <2>3, <2>4, <3>3
    <3> QED
      BY <2>2, <2>4, <3>1, <3>4, ListedInOrder
  <2>7. Abstract!Go(Places[i])
    BY <1>2, <2>1, GoIsGo DEF MoveDown
  <2> QED
    BY <2>5, <2>6, <2>7 DEF Abstract!Down
<1> QED
  BY <1>1, <1>2

\* And the last one before.
LEMMA MoveUpIsUp ==
  ASSUME LInv, MoveUp
  PROVE  Abstract!Up \/ Abstract!Idle
<1>1. CASE VisibleBefore(nodes, cursor) = {}
  BY <1>1, StayIsIdle DEF MoveUp
<1>2. CASE VisibleBefore(nodes, cursor) # {}
  <2>1. PICK i : i = Highest(VisibleBefore(nodes, cursor))
    OBVIOUS
  <2>2. IsListed(nodes) /\ Placed(nodes, Places) /\ DOMAIN nodes = 1..Len(nodes) /\ Len(nodes) \in Nat
    BY Drawn DEF IsListed
  <2>3. i \in VisibleBefore(nodes, cursor) /\ \A k \in VisibleBefore(nodes, cursor) : k <= i
    <3>1. VisibleBefore(nodes, cursor) \in SUBSET (1..Len(nodes))
      BY <2>2 DEF VisibleBefore
    <3> QED
      BY <1>2, <2>1, <2>2, <3>1, HighestIs
  <2>4. i \in DOMAIN nodes /\ nodes[i].visible /\ i < cursor /\ cursor \in DOMAIN nodes
    BY <2>2, <2>3 DEF VisibleBefore, LInv
  <2> DEFINE above == {p \in Abstract!ShownNodes : Abstract!Before(p, CursorPlace)}
  <2>5. Places[i] \in above
    <3>1. Abstract!Before(Places[i], Places[cursor])
      BY <2>2, <2>4, ListedInOrder
    <3> QED
      BY <2>4, <3>1, FlagsAre DEF CursorPlace
  <2>6. ASSUME NEW q \in above, q # Places[i]
        PROVE  Abstract!Before(q, Places[i])
    <3>1. PICK k \in DOMAIN nodes : nodes[k].visible /\ q = Places[k]
      BY FlagsAre
    <3>2. k < cursor
      BY <2>2, <2>4, <3>1, ListedInOrder DEF CursorPlace
    <3>3. k \in VisibleBefore(nodes, cursor) /\ k # i
      BY <2>2, <2>4, <2>6, <3>1, <3>2 DEF VisibleBefore
    <3>4. k < i
      BY <2>2, <2>3, <2>4, <3>3
    <3> QED
      BY <2>2, <2>4, <3>1, <3>4, ListedInOrder
  <2>7. Abstract!Go(Places[i])
    BY <1>2, <2>1, GoIsGo DEF MoveUp
  <2> QED
    BY <2>5, <2>6, <2>7 DEF Abstract!Up
<1> QED
  BY <1>1, <1>2

\* Toggling opens or shuts the node under the cursor and no other.
LEMMA ToggleIsOpenOrShut ==
  ASSUME LInv, Toggle
  PROVE  Abstract!Open \/ Abstract!Shut \/ Abstract!Idle
<1>1. CASE ~Toggles(Here)
  BY <1>1, StayIsIdle DEF Toggle
<1>2. CASE Toggles(Here)
  <2>1. /\ layout' = layout /\ asked' = Nothing /\ cursor' = cursor /\ DOMAIN nodes' = DOMAIN nodes
        /\ \A i \in DOMAIN nodes :
              nodes'[i].expanded = IF i = cursor THEN ~nodes[i].expanded ELSE nodes[i].expanded
    BY <1>2, Toggled, TogglePreserves
  <2>2. /\ IsListed(nodes) /\ Placed(nodes, Places) /\ IsView(nodes) /\ cursor \in DOMAIN nodes
        /\ DOMAIN Shape = {Places[i] : i \in DOMAIN nodes}
        /\ Shape[Places[cursor]] = What(nodes[cursor])
    BY Drawn DEF LInv
  <2>3. Places' = Places /\ Shape' = Shape /\ CursorPlace' = CursorPlace
    BY <2>1 DEF Places, Shape, CursorPlace
  <2>4. \A i \in DOMAIN nodes : Places[i] = Places[cursor] => i = cursor
    BY <2>2, ListedInOrder
  <2>5. /\ OpenPlaces' = {Places[i] : i \in {j \in DOMAIN nodes : nodes'[j].expanded}}
        /\ OpenPlaces = {Places[i] : i \in {j \in DOMAIN nodes : nodes[j].expanded}}
    BY <2>1, <2>3 DEF OpenPlaces
  <2>6. CursorPlace = Places[cursor] /\ CursorPlace \in Abstract!Nodes /\ Abstract!Foldable(Shape[CursorPlace])
    <3>1. nodes[cursor].kind \in {"source", "dir", "leaf", "entry"}
      BY <2>2 DEF IsView
    <3>2. Abstract!Foldable(What(nodes[cursor]))
      BY <1>2, <3>1 DEF Abstract!Foldable, What, Toggles, Expandable, Here
    <3> QED
      BY <2>2, <3>2 DEF Abstract!Nodes, CursorPlace
  <2>7. CASE nodes[cursor].expanded
    <3>1. CursorPlace \in OpenPlaces
      BY <2>2, <2>5, <2>6, <2>7
    <3>2. OpenPlaces' = OpenPlaces \ {CursorPlace}
      BY <2>1, <2>2, <2>4, <2>5, <2>6, <2>7
    <3>3. Abstract!Shut
      BY <2>1, <2>3, <3>1, <3>2 DEF Abstract!Shut, Abstract!Nothing, Nothing
    <3> QED
      BY <3>3
  <2>8. CASE ~nodes[cursor].expanded
    <3>1. CursorPlace \notin OpenPlaces
      BY <2>2, <2>4, <2>5, <2>6, <2>8
    <3>2. OpenPlaces' = OpenPlaces \cup {CursorPlace}
      BY <2>1, <2>2, <2>4, <2>5, <2>6, <2>8
    <3>3. Abstract!Open
      BY <2>1, <2>3, <2>6, <3>1, <3>2 DEF Abstract!Open, Abstract!Nothing, Nothing
    <3> QED
      BY <3>3
  <2> QED
    BY <2>7, <2>8
<1> QED
  BY <1>1, <1>2

\* The last node that is shown before the cursor and less deep is its parent.
LEMMA OuterIsParent ==
  ASSUME LInv, Outer(cursor) # {}
  PROVE  Len(CursorPlace) > 1 /\ Abstract!Parent(CursorPlace) = Places[Highest(Outer(cursor))]
<1>1. /\ IsListed(nodes) /\ Placed(nodes, Places) /\ IsView(nodes) /\ cursor \in DOMAIN nodes
      /\ DOMAIN nodes = 1..Len(nodes) /\ Len(nodes) \in Nat /\ nodes[cursor].visible
      /\ \A i \in DOMAIN nodes : nodes[i].depth \in Nat
      /\ \A i \in DOMAIN nodes : nodes[i].visible <=> \A j \in Above(nodes, i) : nodes[j].expanded
  BY Drawn DEF IsListed, LInv, CursorIsShown, VisibleAreUnfolded
<1>2. \A j \in Outer(cursor) :
         /\ j \in DOMAIN nodes /\ j < cursor /\ nodes[j].visible
         /\ nodes[j].depth < nodes[cursor].depth
  BY DEF Outer, VisibleBefore
<1>3. nodes[cursor].depth > 0
  BY <1>1, <1>2
<1>4. PICK j \in Above(nodes, cursor) :
         /\ nodes[j].depth = nodes[cursor].depth - 1 /\ Abstract!Parent(Places[cursor]) = Places[j]
         /\ \A k \in (j + 1)..cursor : nodes[cursor].depth <= nodes[k].depth
  BY <1>1, <1>3, ParentIs
<1>5. j \in DOMAIN nodes /\ j < cursor /\ nodes[j].depth < nodes[cursor].depth
  BY <1>1, AboveIsPrefix DEF Above
<1>6. nodes[j].visible
  <2>1. ASSUME NEW k \in Above(nodes, j)
        PROVE  k \in Above(nodes, cursor)
    <3>1. /\ k \in 1..(j - 1) /\ \A m \in (k + 1)..j : nodes[k].depth < nodes[m].depth
          /\ j \in 1..(cursor - 1) /\ \A m \in (j + 1)..cursor : nodes[j].depth < nodes[m].depth
      BY DEF Above
    <3>2. nodes[k].depth < nodes[j].depth /\ k \in DOMAIN nodes
      BY <1>1, <1>5, <3>1
    <3>3. ASSUME NEW m \in (k + 1)..cursor
          PROVE  nodes[k].depth < nodes[m].depth
      <4>1. CASE m <= j
        <5>1. m \in (k + 1)..j
          BY <1>1, <1>5, <3>1, <4>1
        <5> QED
          BY <3>1, <5>1
      <4>2. CASE ~(m <= j)
        <5>1. m \in (j + 1)..cursor /\ m \in DOMAIN nodes
          BY <1>1, <1>5, <3>1, <4>2
        <5> QED
          BY <1>1, <1>5, <3>1, <3>2, <5>1
      <4> QED
        BY <4>1, <4>2
    <3>4. k \in 1..(cursor - 1)
      BY <1>1, <3>1
    <3> QED
      BY <3>3, <3>4 DEF Above
  <2> QED
    BY <1>1, <1>5, <2>1
<1>7. j \in Outer(cursor)
  BY <1>5, <1>6 DEF Outer, VisibleBefore
<1>8. Highest(Outer(cursor)) = j
  <2> DEFINE top == Highest(Outer(cursor))
  <2>1. top \in Outer(cursor) /\ \A k \in Outer(cursor) : k <= top
    <3>1. Outer(cursor) \in SUBSET (1..Len(nodes))
      BY <1>1, <1>2
    <3> QED
      BY <1>1, <1>7, <3>1, HighestIs
  <2> HIDE DEF top
  <2>2. top \in DOMAIN nodes /\ top < cursor /\ nodes[top].depth < nodes[cursor].depth /\ j <= top
    BY <1>2, <1>7, <2>1
  <2>3. ~(j < top)
    <3> SUFFICES ASSUME j < top PROVE FALSE
      OBVIOUS
    <3>1. top \in (j + 1)..cursor
      BY <1>1, <1>5, <2>2
    <3> QED
      BY <1>1, <1>4, <2>2, <3>1
  <2>4. top = j
    BY <1>1, <1>5, <2>2, <2>3
  <2> QED
    BY <2>4 DEF top
<1>9. Len(Places[cursor]) = nodes[cursor].depth + 1
  BY <1>1 DEF Placed
<1> QED
  BY <1>1, <1>3, <1>4, <1>8, <1>9 DEF CursorPlace

\* Left shuts a node or goes to its parent.
LEMMA CollapseIsShutOrOut ==
  ASSUME LInv, Collapse
  PROVE  Abstract!Open \/ Abstract!Shut \/ Abstract!Out \/ Abstract!Idle
<1>1. CASE Toggle
  BY <1>1, ToggleIsOpenOrShut
<1>2. CASE Stay
  BY <1>2, StayIsIdle
<1>3. CASE Outer(cursor) # {} /\ Go(Highest(Outer(cursor)))
  <2>1. Abstract!Go(Places[Highest(Outer(cursor))])
    BY <1>3, GoIsGo
  <2> QED
    BY <1>3, <2>1, OuterIsParent DEF Abstract!Out
<1> QED
  BY <1>1, <1>2, <1>3 DEF Collapse

\* What is asked for is of the cursor's node, and nothing is changed.
LEMMA RequestIsAsk ==
  ASSUME NEW kind, NEW src, NEW path, NEW entry, Request(kind, src, path, entry), src = CursorPlace[1]
  PROVE  Abstract!Ask(kind, path, entry)
<1>1. /\ layout' = layout /\ nodes' = nodes /\ cursor' = cursor
      /\ asked' = [kind |-> kind, src |-> src, path |-> path, entry |-> entry]
  BY DEF Request
<1>2. Places' = Places /\ Shape' = Shape /\ OpenPlaces' = OpenPlaces
  BY <1>1, SameOutline
<1>3. CursorPlace' = CursorPlace
  BY <1>1, <1>2 DEF CursorPlace
<1> QED
  BY <1>1, <1>2, <1>3 DEF Abstract!Ask

\* The entry under the cursor, of the leaf that is its parent.
LEMMA EnterEntryIsBoot ==
  ASSUME LInv, EnterEntry
  PROVE  Abstract!Boot
<1>1. /\ IsView(nodes) /\ IsListed(nodes) /\ Placed(nodes, Places) /\ cursor \in DOMAIN nodes
      /\ DOMAIN Shape = {Places[i] : i \in DOMAIN nodes}
      /\ \A i \in DOMAIN nodes : Shape[Places[i]] = What(nodes[i])
      /\ nodes[cursor].kind = "entry" /\ nodes[cursor].src = Places[cursor][1]
  BY Drawn DEF LInv, EnterEntry, Here
<1>2. PICK j \in Above(nodes, cursor) :
         nodes[j].kind = "leaf" /\ nodes[j].depth = nodes[cursor].depth - 1
         /\ LeafPathOf(nodes, cursor) = nodes[j].path
  BY <1>1, LeafOfEntry
<1>3. \A i \in DOMAIN nodes : nodes[i].depth \in Nat /\ (nodes[i].kind = "source" <=> nodes[i].depth = 0)
  BY <1>1 DEF IsView
<1>4. nodes[cursor].depth > 0
  BY <1>1, <1>3
<1>5. PICK k \in Above(nodes, cursor) :
         nodes[k].depth = nodes[cursor].depth - 1 /\ Abstract!Parent(Places[cursor]) = Places[k]
  BY <1>1, <1>4, ParentIs
<1>6. k = j
  <2>1. /\ j \in 1..(cursor - 1) /\ \A m \in (j + 1)..cursor : nodes[j].depth < nodes[m].depth
        /\ k \in 1..(cursor - 1) /\ \A m \in (k + 1)..cursor : nodes[k].depth < nodes[m].depth
    BY DEF Above
  <2>2. cursor \in Nat /\ nodes[j].depth = nodes[k].depth /\ nodes[j].depth \in Nat
    <3>1. cursor \in Nat
      BY <1>1 DEF IsListed
    <3>2. j \in DOMAIN nodes
      BY <1>1, AboveIsOpen
    <3> QED
      BY <1>2, <1>3, <1>5, <3>1, <3>2
  <2>3. ~(j < k)
    <3> SUFFICES ASSUME j < k PROVE FALSE
      OBVIOUS
    <3>1. k \in (j + 1)..cursor
      BY <2>1, <2>2
    <3> QED
      BY <2>1, <2>2, <3>1
  <2>4. ~(k < j)
    <3> SUFFICES ASSUME k < j PROVE FALSE
      OBVIOUS
    <3>1. j \in (k + 1)..cursor
      BY <2>1, <2>2
    <3> QED
      BY <2>1, <2>2, <3>1
  <2> QED
    BY <2>1, <2>2, <2>3, <2>4
<1>7. Shape[Abstract!Parent(CursorPlace)].path = LeafPathOf(nodes, cursor)
  <2>1. j \in DOMAIN nodes
    BY <1>1, AboveIsOpen
  <2>2. Shape[Places[j]] = What(nodes[j])
    BY <1>1, <2>1
  <2> QED
    BY <1>2, <1>5, <1>6, <2>2 DEF CursorPlace, What
<1>8. /\ CursorPlace \in Abstract!Nodes /\ Shape[CursorPlace].kind = "entry"
      /\ Shape[CursorPlace].name = nodes[cursor].name
  <2>1. Shape[CursorPlace] = What(nodes[cursor]) /\ CursorPlace \in DOMAIN Shape
    BY <1>1 DEF CursorPlace
  <2>2. What(nodes[cursor]).kind = "entry" /\ What(nodes[cursor]).name = nodes[cursor].name
    BY <1>1 DEF What
  <2> QED
    BY <2>1, <2>2 DEF Abstract!Nodes
<1>9. Abstract!Ask("boot", LeafPathOf(nodes, cursor), nodes[cursor].name)
  <2>1. Request("boot", nodes[cursor].src, LeafPathOf(nodes, cursor), nodes[cursor].name)
    BY DEF EnterEntry, Here
  <2>2. nodes[cursor].src = CursorPlace[1]
    BY <1>1 DEF CursorPlace
  <2> QED
    BY <2>1, <2>2, RequestIsAsk
<1> QED
  BY <1>7, <1>8, <1>9 DEF Abstract!Boot

\* Enter on a locked source asks for that one.
LEMMA EnterLockedIsUnlock ==
  ASSUME LInv, EnterLocked
  PROVE  Abstract!Unlock
<1>1. /\ IsView(nodes) /\ cursor \in DOMAIN nodes
      /\ DOMAIN Shape = {Places[i] : i \in DOMAIN nodes}
      /\ Shape[Places[cursor]] = What(nodes[cursor])
      /\ Places[cursor][1] = nodes[SourceAt(nodes, cursor)].src
      /\ nodes[cursor].kind = "source" /\ nodes[cursor].state = "Encrypted"
  BY Drawn DEF LInv, EnterLocked, Here
<1>2. SourceAt(nodes, cursor) = cursor
  <2> DEFINE S == {j \in 1..cursor : nodes[j].kind = "source"}
  <2>1. cursor \in Nat /\ S \in SUBSET (1..cursor) /\ cursor \in S
    BY <1>1 DEF IsView
  <2>2. SourceAt(nodes, cursor) = Highest(S)
    BY DEF SourceAt
  <2> HIDE DEF S
  <2>3. Highest(S) \in 1..cursor /\ cursor <= Highest(S)
    BY <2>1, HighestIs
  <2> QED
    BY <2>1, <2>2, <2>3
<1>3. Abstract!Ask("unlock", <<>>, "")
  <2>1. Request("unlock", nodes[cursor].src, <<>>, "")
    BY DEF EnterLocked, Here
  <2>2. nodes[cursor].src = CursorPlace[1]
    BY <1>1, <1>2 DEF CursorPlace
  <2> QED
    BY <2>1, <2>2, RequestIsAsk
<1>4. Shape[CursorPlace] = What(nodes[cursor]) /\ CursorPlace \in Abstract!Nodes
  BY <1>1 DEF CursorPlace, Abstract!Nodes
<1>5. What(nodes[cursor]).kind = "source" /\ What(nodes[cursor]).state = "Encrypted"
  BY <1>1 DEF What
<1> QED
  BY <1>3, <1>4, <1>5 DEF Abstract!Unlock

\* f asks for the source that the cursor is in.
LEMMA OpenIsBrowse ==
  ASSUME LInv, OpenFileBrowser
  PROVE  Abstract!Browse
<1>1. /\ cursor \in DOMAIN nodes /\ DOMAIN Shape = {Places[i] : i \in DOMAIN nodes}
      /\ Places[cursor][1] = CursorSource
  BY Drawn DEF LInv, CursorSource
<1>2. Abstract!Ask("browse", <<>>, "")
  <2>1. Request("browse", CursorSource, <<>>, "")
    BY DEF OpenFileBrowser
  <2>2. CursorSource = CursorPlace[1]
    BY <1>1 DEF CursorPlace
  <2> QED
    BY <2>1, <2>2, RequestIsAsk
<1> QED
  BY <1>1, <1>2 DEF Abstract!Browse, Abstract!Nodes, CursorPlace

\* Every step of the list is one of the outline.
LEMMA StepImplements ==
  ASSUME RInv, Abstract!CursorIsShown', [Next]_vars
  PROVE  [Abstract!Next]_Abstract!vars
<1>0. LInv
  BY DEF RInv
<1>1. ASSUME NEW l \in Layouts, Rebuild(l)
      PROVE  Abstract!Next
  <2>1. Abstract!Show
    BY <1>1 DEF Rebuild, Abstract!Show, Abstract!CursorIsShown, Abstract!Nothing, Nothing
  <2> QED
    BY <2>1 DEF Abstract!Next
<1>2. CASE MoveDown
  BY <1>0, <1>2, MoveDownIsDown DEF Abstract!Next
<1>3. CASE MoveUp
  BY <1>0, <1>3, MoveUpIsUp DEF Abstract!Next
<1>4. CASE Expand
  BY <1>0, <1>4, ToggleIsOpenOrShut, StayIsIdle DEF Expand, Abstract!Next
<1>5. CASE Collapse
  BY <1>0, <1>5, CollapseIsShutOrOut DEF Abstract!Next
<1>6. CASE EnterOther
  BY <1>0, <1>6, ToggleIsOpenOrShut DEF EnterOther, Abstract!Next
<1>7. CASE EnterEntry
  BY <1>0, <1>7, EnterEntryIsBoot DEF Abstract!Next
<1>8. CASE EnterLocked
  BY <1>0, <1>8, EnterLockedIsUnlock DEF Abstract!Next
<1>9. CASE OpenFileBrowser
  BY <1>0, <1>9, OpenIsBrowse DEF Abstract!Next
<1>10. CASE UNCHANGED vars
  <2>1. layout' = layout /\ nodes' = nodes /\ cursor' = cursor /\ asked' = asked
    BY <1>10 DEF vars
  <2>2. Places' = Places /\ Shape' = Shape /\ OpenPlaces' = OpenPlaces
    BY <2>1, SameOutline
  <2> QED
    BY <2>1, <2>2 DEF Abstract!vars, CursorPlace
<1> QED
  BY <1>1, <1>2, <1>3, <1>4, <1>5, <1>6, <1>7, <1>8, <1>9, <1>10 DEF Next

----------------------------------------------------------------------------
(* What follows *)

\* The invariant of the list holds for every view there can be, whatever keys are pressed
\* and however often it is built anew.
THEOREM NodeListInvariant == Spec => []LInv
<1>1. LInv /\ [Next]_vars => LInv'
  BY ListStep
<1> QED
  BY <1>1, ListInitial, PTL DEF Spec

\* The variables have their types: above all, the cursor stays within the list.
THEOREM NodeListTypeOK == Spec => []TypeOK
<1>1. LInv => TypeOK
  BY DEF LInv, TypeOK, IsView
<1> QED
  BY <1>1, NodeListInvariant, PTL

\* After any keys a node is marked visible if and only if all the nodes it is under are
\* expanded: what recompute_visibility finds out with one remembered depth.
THEOREM NodeListVisible == Spec => []VisibleAreUnfolded
<1>1. LInv => VisibleAreUnfolded
  BY DEF LInv
<1> QED
  BY <1>1, NodeListInvariant, PTL

\* The cursor is never on a node that is hidden.
THEOREM NodeListCursor == Spec => []CursorIsShown
<1>1. LInv => CursorIsShown
  BY DEF LInv
<1> QED
  BY <1>1, NodeListInvariant, PTL

\* find_entry_leaf_path and cursor_source_idx, which go backwards through the list, find
\* the leaf and the source that the cursor is in.
THEOREM NodeListRequest == Spec => []RequestIsOfCursor
<1>1. LInv => RequestIsOfCursor
  BY DEF LInv
<1> QED
  BY <1>1, NodeListInvariant, PTL

\* ensure_cursor_visible at the end of toggle never moves the cursor: "shouldn't happen
\* for toggle" (tui.rs:510) is right.
THEOREM ToggleKeepsCursor == Spec => [][Toggle => cursor' = cursor]_vars
<1>1. LInv /\ [Next]_vars => [Toggle => cursor' = cursor]_vars
  BY TogglePreserves
<1> QED
  BY <1>1, NodeListInvariant, PTL DEF Spec

\* The list implements the outline, whatever the views and the keys: one list of depths
\* with a flag per node, gone through forwards and backwards, behaves as the tree that
\* TreeView::build was given.
THEOREM NodeListImplements == Spec => ImplementsOutline
<1>1. Init => Abstract!Init
  <2> SUFFICES ASSUME Init PROVE Abstract!Init
    OBVIOUS
  <2>1. Abstract!CursorIsShown
    BY RInitial, ListShows
  <2> QED
    BY <2>1 DEF Init, Abstract!Init, Abstract!CursorIsShown, Abstract!Nothing, Nothing
<1>2. RInv /\ [Next]_vars => RInv'
  BY RStep
<1>3. RInv /\ Abstract!CursorIsShown' /\ [Next]_vars => [Abstract!Next]_Abstract!vars
  BY StepImplements
<1> QED
  BY <1>1, <1>2, <1>3, RInitial, ListShows, PTL DEF Spec, ImplementsOutline, Abstract!Spec

----------------------------------------------------------------------------
(* Sequences of any elements *)

IsList(s) == \E S : s \in Seq(S)

LEMMA ListIs ==
  ASSUME NEW s, IsList(s)
  PROVE  Len(s) \in Nat /\ DOMAIN s = 1..Len(s)
<1>1. PICK S : s \in Seq(S)
  BY DEF IsList
<1> QED
  BY <1>1, LenProperties

\* What is where in two lists that are put together.
LEMMA Joined ==
  ASSUME NEW a, IsList(a), NEW b, IsList(b)
  PROVE  /\ IsList(a \o b) /\ Len(a \o b) = Len(a) + Len(b)
         /\ \A i \in 1..Len(a) : (a \o b)[i] = a[i]
         /\ \A i \in 1..Len(b) : (a \o b)[Len(a) + i] = b[i]
<1>1. PICK A : a \in Seq(A)
  BY DEF IsList
<1>2. PICK B : b \in Seq(B)
  BY DEF IsList
<1> DEFINE S == A \cup B
<1>3. a \in Seq(S) /\ b \in Seq(S)
  <2>1. ASSUME NEW s, NEW T, s \in Seq(T), T \subseteq S
        PROVE  s \in Seq(S)
    <3>1. Len(s) \in Nat /\ s \in [1..Len(s) -> T]
      BY <2>1, LenProperties
    <3>2. s \in [1..Len(s) -> S]
      BY <2>1, <3>1
    <3> QED
      BY <3>1, <3>2
  <2> QED
    BY <1>1, <1>2, <2>1
<1>4. /\ a \o b \in Seq(S) /\ Len(a \o b) = Len(a) + Len(b)
      /\ \A i \in 1..Len(a) + Len(b) : (a \o b)[i] = IF i <= Len(a) THEN a[i] ELSE b[i - Len(a)]
      /\ Len(a) \in Nat /\ Len(b) \in Nat
  BY <1>3, ConcatProperties, LenProperties
<1> HIDE DEF S
<1>5. IsList(a \o b)
  BY <1>4 DEF IsList
<1>6. ASSUME NEW i \in 1..Len(a)
      PROVE  (a \o b)[i] = a[i]
  BY <1>4
<1>7. ASSUME NEW i \in 1..Len(b)
      PROVE  (a \o b)[Len(a) + i] = b[i]
  <2>1. Len(a) + i \in 1..Len(a) + Len(b) /\ ~(Len(a) + i <= Len(a)) /\ Len(a) + i - Len(a) = i
    BY <1>4
  <2> QED
    BY <1>4, <2>1
<1> QED
  BY <1>4, <1>5, <1>6, <1>7

\* A place in two lists put together is a place of one of them.
LEMMA JoinedPlace ==
  ASSUME NEW m \in Nat, NEW n \in Nat, NEW i \in 1..(m + n)
  PROVE  i \in 1..m \/ \E k \in 1..n : i = m + k
<1>1. CASE i <= m
  BY <1>1
<1>2. CASE i > m
  <2>1. i - m \in 1..n /\ i = m + (i - m)
    BY <1>2
  <2> QED
    BY <2>1
<1> QED
  BY <1>1, <1>2

\* What FlattenSeq goes through.
IsFlattening(seqs, n, f) == f = [i \in 1..n |-> IF i = 1 THEN seqs[i] ELSE f[i - 1] \o seqs[i]]

\* There is such a function, by the number of lists.
LEMMA FlatteningExists ==
  ASSUME NEW seqs, NEW n \in Nat
  PROVE  \E f : IsFlattening(seqs, n, f)
<1> DEFINE Bad == {m \in Nat : ~\E f : IsFlattening(seqs, m, f)}
<1>1. SUFFICES ASSUME Bad # {} PROVE FALSE
  OBVIOUS
<1>2. PICK m \in Bad : \A k \in Bad : m <= k
  BY <1>1, LeastNat
<1>3. m # 0
  <2> DEFINE f == [i \in 1..0 |-> <<>>]
  <2>1. \A i \in 1..0 : FALSE
    OBVIOUS
  <2>2. f = [i \in 1..0 |-> IF i = 1 THEN seqs[i] ELSE f[i - 1] \o seqs[i]]
    BY <2>1
  <2>3. IsFlattening(seqs, 0, f)
    BY <2>2 DEF IsFlattening
  <2> QED
    BY <1>2, <2>3
<1>4. m - 1 \in Nat /\ m - 1 \notin Bad
  BY <1>2, <1>3
<1>5. PICK f : f = [i \in 1..(m - 1) |-> IF i = 1 THEN seqs[i] ELSE f[i - 1] \o seqs[i]]
  BY <1>4 DEF IsFlattening
<1> DEFINE g == [i \in 1..m |-> IF i = 1 THEN seqs[i] ELSE f[i - 1] \o seqs[i]]
<1>6. ASSUME NEW i \in 1..(m - 1)
      PROVE  g[i] = f[i]
  <2>1. f[i] = IF i = 1 THEN seqs[i] ELSE f[i - 1] \o seqs[i]
    BY <1>5
  <2>2. i \in 1..m
    BY <1>2
  <2>3. g[i] = IF i = 1 THEN seqs[i] ELSE f[i - 1] \o seqs[i]
    BY <2>2
  <2> HIDE DEF g
  <2> QED
    BY <2>1, <2>3
<1>7. \A i \in 1..m : i # 1 => i - 1 \in 1..(m - 1)
  BY <1>2
<1>8. \A i \in 1..m : g[i] = IF i = 1 THEN seqs[i] ELSE g[i - 1] \o seqs[i]
  <2>1. ASSUME NEW i \in 1..m
        PROVE  g[i] = IF i = 1 THEN seqs[i] ELSE g[i - 1] \o seqs[i]
    <3>1. i # 1 => g[i - 1] = f[i - 1]
      BY <1>6, <1>7
    <3>2. g[i] = IF i = 1 THEN seqs[i] ELSE f[i - 1] \o seqs[i]
      OBVIOUS
    <3> HIDE DEF g
    <3> QED
      BY <3>1, <3>2
  <2> QED
    BY <2>1
<1>9. g = [i \in 1..m |-> IF i = 1 THEN seqs[i] ELSE g[i - 1] \o seqs[i]]
  BY <1>8
<1>10. IsFlattening(seqs, m, g)
  <2> HIDE DEF g
  <2> QED
    BY <1>9 DEF IsFlattening
<1> QED
  BY <1>2, <1>10

\* FlattenSeq puts one list after the other.
LEMMA Flattened ==
  ASSUME NEW seqs, Len(seqs) \in Nat \ {0}
  PROVE  \E f : /\ f[1] = seqs[1] /\ \A i \in 2..Len(seqs) : f[i] = f[i - 1] \o seqs[i]
                /\ FlattenSeq(seqs) = f[Len(seqs)]
<1> DEFINE f == CHOOSE f : IsFlattening(seqs, Len(seqs), f)
<1>1. IsFlattening(seqs, Len(seqs), f)
  BY FlatteningExists
<1>2. f = [i \in 1..Len(seqs) |-> IF i = 1 THEN seqs[i] ELSE f[i - 1] \o seqs[i]]
  BY <1>1 DEF IsFlattening
<1>3. FlattenSeq(seqs) = f[Len(seqs)]
  BY DEF FlattenSeq, IsFlattening
<1> HIDE DEF f
<1>4. 1 \in 1..Len(seqs) /\ \A i \in 2..Len(seqs) : i \in 1..Len(seqs) /\ i # 1
  OBVIOUS
<1>5. f[1] = seqs[1] /\ \A i \in 2..Len(seqs) : f[i] = f[i - 1] \o seqs[i]
  BY <1>2, <1>4
<1> QED
  BY <1>3, <1>5

----------------------------------------------------------------------------
(* Lists of nodes as add_tree_nodes makes them *)

\* A node, without where it is.
IsNode(node) ==
    /\ DOMAIN node = Fields /\ node.kind \in {"source", "dir", "leaf", "entry"}
    /\ node.depth \in Nat /\ node.expanded \in BOOLEAN
    /\ node.kind = "source" <=> node.depth = 0
    /\ node.kind = "entry" => ~node.expanded
    /\ node.expanded => Toggles(node)

\* One node after another.
Follows(before, node) ==
    /\ node.depth <= before.depth + 1
    /\ node.kind = "entry" =>
          \/ before.kind = "leaf" /\ node.depth = before.depth + 1
          \/ before.kind = "entry" /\ node.depth = before.depth
    /\ before.kind = "entry" => node.depth <= before.depth

\* The leaf of the default.
Wanted(node, sel) == node.kind = "leaf" /\ node.path = sel.path
Has(list, sel) == \E i \in DOMAIN list : Wanted(list[i], sel)

\* What the default's leaf is in is expanded, as far as it is a directory, and nothing
\* is marked as default but its entry in this leaf.
OpensWanted(list, sel) ==
    \A i \in DOMAIN list : Wanted(list[i], sel) =>
        list[i].expanded /\ \A j \in Above(list, i) : list[j].kind # "source" => list[j].expanded
MarksWanted(list, sel) ==
    \A i \in DOMAIN list : list[i].default =>
        /\ list[i].kind = "entry" /\ list[i].name = sel.entry
        /\ \E j \in 1..(i - 1) :
              Wanted(list[j], sel) /\ \A k \in (j + 1)..i : list[k].kind = "entry"

\* A list of nodes at some depth with what is under them.
IsForest(list, depth, sel) ==
    /\ IsList(list)
    /\ \A i \in DOMAIN list : IsNode(list[i]) /\ depth <= list[i].depth
    /\ Len(list) > 0 => list[1].depth = depth /\ list[1].kind # "entry"
    /\ \A i \in 2..Len(list) : Follows(list[i - 1], list[i])
    /\ OpensWanted(list, sel) /\ MarksWanted(list, sel)

\* What a node of the second list is under.
LEMMA AboveInSecond ==
  ASSUME NEW a, IsList(a), NEW b, IsList(b), NEW i \in 1..Len(b), NEW j \in Above(a \o b, Len(a) + i)
  PROVE  \/ j \in 1..Len(a) /\ a[j].depth < b[1].depth
         \/ \E k \in Above(b, i) : j = Len(a) + k
<1> DEFINE c == a \o b
           m == Len(a)
<1>1. m \in Nat /\ Len(b) \in Nat /\ i \in Nat /\ 1 <= i
  BY ListIs
<1>2. \A k \in 1..m : c[k] = a[k]
  BY Joined
<1>3. \A k \in 1..Len(b) : c[m + k] = b[k]
  BY Joined
<1>4. j \in 1..(m + i - 1) /\ \A k \in (j + 1)..(m + i) : c[j].depth < c[k].depth
  BY <1>1 DEF Above
<1> HIDE DEF c, m
<1>5. CASE j <= m
  <2>1. j \in 1..m /\ m + 1 \in (j + 1)..(m + i) /\ 1 \in 1..Len(b)
    BY <1>1, <1>4, <1>5
  <2>2. c[j].depth < c[m + 1].depth
    BY <1>4, <2>1
  <2>3. c[j] = a[j] /\ c[m + 1] = b[1]
    BY <1>2, <1>3, <2>1
  <2> QED
    BY <2>1, <2>2, <2>3 DEF m
<1>6. CASE j > m
  <2> DEFINE k == j - m
  <2>1. k \in 1..(i - 1) /\ j = m + k /\ k \in 1..Len(b)
    BY <1>1, <1>4, <1>6
  <2>2. ASSUME NEW x \in (k + 1)..i
        PROVE  b[k].depth < b[x].depth
    <3>1. m + x \in (j + 1)..(m + i) /\ x \in 1..Len(b)
      BY <1>1, <2>1
    <3>2. c[j].depth < c[m + x].depth
      BY <1>4, <3>1
    <3>3. c[m + k] = b[k] /\ c[m + x] = b[x]
      BY <1>3, <2>1, <3>1
    <3> QED
      BY <2>1, <3>2, <3>3
  <2>3. k \in Above(b, i)
    BY <2>1, <2>2 DEF Above
  <2> QED
    BY <2>1, <2>3 DEF m
<1> QED
  BY <1>1, <1>4, <1>5, <1>6

\* And of the first.
LEMMA AboveInFirst ==
  ASSUME NEW a, IsList(a), NEW b, IsList(b), NEW i \in 1..Len(a)
  PROVE  Above(a \o b, i) = Above(a, i)
<1>1. Len(a) \in Nat /\ \A k \in 1..Len(a) : (a \o b)[k] = a[k]
  BY Joined, ListIs
<1>2. \A j \in 1..(i - 1) : j \in 1..Len(a) /\ \A k \in (j + 1)..i : k \in 1..Len(a)
  BY <1>1
<1> QED
  BY <1>1, <1>2 DEF Above

\* The default's leaf is in one of two lists.
LEMMA HasJoined ==
  ASSUME NEW a, IsList(a), NEW b, IsList(b), NEW sel
  PROVE  Has(a \o b, sel) <=> Has(a, sel) \/ Has(b, sel)
<1> DEFINE c == a \o b
           m == Len(a)
           n == Len(b)
<1>1. m \in Nat /\ n \in Nat /\ DOMAIN a = 1..m /\ DOMAIN b = 1..n
  BY ListIs
<1>2. DOMAIN c = 1..(m + n)
  BY Joined, ListIs
<1>3. /\ \A i \in 1..m : c[i] = a[i]
      /\ \A i \in 1..n : c[m + i] = b[i]
  BY Joined
<1> HIDE DEF c, m, n
<1>4. \A i \in 1..m : i \in 1..(m + n)
  BY <1>1
<1>5. \A i \in 1..n : m + i \in 1..(m + n)
  BY <1>1
<1>6. ASSUME NEW i \in 1..(m + n), Wanted(c[i], sel)
      PROVE  Has(a, sel) \/ Has(b, sel)
  <2>1. i \in 1..m \/ \E k \in 1..n : i = m + k
    BY <1>1, JoinedPlace
  <2> QED
    BY <1>1, <1>3, <1>6, <2>1 DEF Has
<1>7. ASSUME NEW i \in 1..m, Wanted(a[i], sel)
      PROVE  Has(c, sel)
  BY <1>2, <1>3, <1>4, <1>7 DEF Has
<1>8. ASSUME NEW i \in 1..n, Wanted(b[i], sel)
      PROVE  Has(c, sel)
  BY <1>2, <1>3, <1>5, <1>8 DEF Has
<1>9. Has(c, sel) <=> Has(a, sel) \/ Has(b, sel)
  BY <1>1, <1>2, <1>6, <1>7, <1>8 DEF Has
<1> QED
  BY <1>9 DEF c

\* A list of siblings after another, or what is under a node after the node.
LEMMA ForestJoined ==
  ASSUME NEW sel, NEW d \in Nat, NEW e \in Nat, d <= e,
         NEW a, IsForest(a, d, sel), Len(a) > 0, NEW b, IsForest(b, e, sel),
         Len(b) > 0 => Follows(a[Len(a)], b[1]),
         \A j \in 1..Len(a) :
            a[j].depth < e /\ Has(b, sel) /\ a[j].kind # "source" => a[j].expanded
  PROVE  IsForest(a \o b, d, sel)
<1> DEFINE c == a \o b
           m == Len(a)
           n == Len(b)
<1>1. m \in Nat /\ m > 0 /\ n \in Nat /\ DOMAIN a = 1..m /\ DOMAIN b = 1..n /\ IsList(a) /\ IsList(b)
  BY ListIs DEF IsForest
<1>2. IsList(c) /\ Len(c) = m + n /\ DOMAIN c = 1..(m + n)
  BY <1>1, Joined, ListIs
<1>3. \A i \in 1..m : c[i] = a[i]
  BY <1>1, Joined
<1>4. \A i \in 1..n : c[m + i] = b[i]
  BY <1>1, Joined
<1>5. \A i \in 1..m : Above(c, i) = Above(a, i)
  BY <1>1, AboveInFirst
<1>6. \A i \in 1..n : \A j \in Above(c, m + i) :
          (j \in 1..m /\ a[j].depth < b[1].depth) \/ \E k \in Above(b, i) : j = m + k
  BY <1>1, AboveInSecond
<1>7. n > 0 => Follows(a[m], b[1])
  OBVIOUS
<1> HIDE DEF c, m, n
<1>8. \A i \in DOMAIN c : i \in 1..m \/ \E k \in 1..n : i = m + k
  BY <1>1, <1>2, JoinedPlace
<1>9. ASSUME NEW i \in DOMAIN c
      PROVE  IsNode(c[i]) /\ d <= c[i].depth
  <2>1. CASE i \in 1..m
    BY <1>1, <1>3, <2>1 DEF IsForest
  <2>2. ASSUME NEW k \in 1..n, i = m + k
        PROVE  IsNode(c[i]) /\ d <= c[i].depth
    <3>1. IsNode(b[k]) /\ e <= b[k].depth /\ c[i] = b[k]
      BY <1>1, <1>4, <2>2 DEF IsForest
    <3>2. b[k].depth \in Nat
      BY <3>1 DEF IsNode
    <3> QED
      BY <3>1, <3>2
  <2> QED
    BY <1>8, <2>1, <2>2
<1>10. c[1].depth = d /\ c[1].kind # "entry"
  <2>1. 1 \in 1..m
    BY <1>1
  <2> QED
    BY <1>1, <1>3, <2>1 DEF IsForest, m
<1>11. ASSUME NEW i \in 2..(m + n)
       PROVE  Follows(c[i - 1], c[i])
  <2>1. CASE i <= m
    <3>1. i \in 1..m /\ i - 1 \in 1..m /\ i \in 2..m
      BY <1>1, <2>1
    <3>2. Follows(a[i - 1], a[i])
      BY <3>1 DEF IsForest, m
    <3> QED
      BY <1>3, <3>1, <3>2
  <2>2. CASE i = m + 1
    <3>1. n > 0 /\ 1 \in 1..n /\ m \in 1..m /\ i - 1 = m
      BY <1>1, <2>2
    <3>2. c[m] = a[m] /\ c[m + 1] = b[1]
      BY <1>3, <1>4, <3>1
    <3> QED
      BY <1>7, <2>2, <3>1, <3>2
  <2>3. CASE i > m + 1
    <3> DEFINE k == i - m
    <3>1. k \in 1..n /\ k - 1 \in 1..n /\ k \in 2..n /\ i = m + k /\ i - 1 = m + (k - 1)
      BY <1>1, <2>3
    <3> HIDE DEF k
    <3>2. Follows(b[k - 1], b[k])
      BY <3>1 DEF IsForest, n
    <3> QED
      BY <1>4, <3>1, <3>2
  <2> QED
    BY <1>1, <2>1, <2>2, <2>3
<1>12. OpensWanted(c, sel)
  <2>1. SUFFICES ASSUME NEW i \in DOMAIN c, Wanted(c[i], sel)
        PROVE  c[i].expanded /\ \A j \in Above(c, i) : c[j].kind # "source" => c[j].expanded
    BY DEF OpensWanted
  <2>2. CASE i \in 1..m
    <3>1. c[i] = a[i] /\ i \in DOMAIN a
      BY <1>1, <1>3, <2>2
    <3>2. a[i].expanded /\ \A j \in Above(a, i) : a[j].kind # "source" => a[j].expanded
      BY <2>1, <3>1 DEF IsForest, OpensWanted
    <3>3. \A j \in Above(a, i) : j \in 1..m
      BY <1>1, <2>2 DEF Above
    <3> QED
      BY <1>3, <1>5, <2>2, <3>1, <3>2, <3>3
  <2>3. ASSUME NEW k \in 1..n, i = m + k
        PROVE  c[i].expanded /\ \A j \in Above(c, i) : c[j].kind # "source" => c[j].expanded
    <3>1. c[i] = b[k] /\ k \in DOMAIN b
      BY <1>1, <1>4, <2>3
    <3>2. Has(b, sel)
      BY <2>1, <3>1 DEF Has
    <3>3. b[k].expanded /\ \A j \in Above(b, k) : b[j].kind # "source" => b[j].expanded
      BY <2>1, <3>1 DEF IsForest, OpensWanted
    <3>4. b[1].depth = e
      BY <1>1, <2>3 DEF IsForest, n
    <3>5. ASSUME NEW j \in Above(c, i), c[j].kind # "source"
          PROVE  c[j].expanded
      <4>1. CASE j \in 1..m /\ a[j].depth < b[1].depth
        <5>1. c[j] = a[j]
          BY <1>3, <4>1
        <5>2. \A x \in 1..m : a[x].depth < e /\ Has(b, sel) /\ a[x].kind # "source" => a[x].expanded
          BY DEF m
        <5> QED
          BY <3>2, <3>4, <3>5, <4>1, <5>1, <5>2
      <4>2. ASSUME NEW x \in Above(b, k), j = m + x
            PROVE  c[j].expanded
        <5>1. x \in 1..n
          BY <1>1, <2>3 DEF Above
        <5>2. c[j] = b[x]
          BY <1>4, <4>2, <5>1
        <5> QED
          BY <3>3, <3>5, <5>2
      <4> QED
        BY <1>6, <2>3, <3>5, <4>1, <4>2
    <3> QED
      BY <3>1, <3>3, <3>5
  <2> QED
    BY <1>8, <2>1, <2>2, <2>3
<1>13. MarksWanted(c, sel)
  <2>1. SUFFICES ASSUME NEW i \in DOMAIN c, c[i].default
        PROVE  /\ c[i].kind = "entry" /\ c[i].name = sel.entry
               /\ \E j \in 1..(i - 1) :
                     Wanted(c[j], sel) /\ \A k \in (j + 1)..i : c[k].kind = "entry"
    BY DEF MarksWanted
  <2>2. CASE i \in 1..m
    <3>1. c[i] = a[i] /\ i \in DOMAIN a
      BY <1>1, <1>3, <2>2
    <3>2. /\ a[i].kind = "entry" /\ a[i].name = sel.entry
          /\ \E j \in 1..(i - 1) : Wanted(a[j], sel) /\ \A k \in (j + 1)..i : a[k].kind = "entry"
      BY <2>1, <3>1 DEF IsForest, MarksWanted
    <3>3. PICK j \in 1..(i - 1) : Wanted(a[j], sel) /\ \A k \in (j + 1)..i : a[k].kind = "entry"
      BY <3>2
    <3>4. j \in 1..m /\ \A k \in (j + 1)..i : k \in 1..m
      BY <1>1, <2>2
    <3>5. Wanted(c[j], sel) /\ \A k \in (j + 1)..i : c[k].kind = "entry"
      BY <1>3, <3>3, <3>4
    <3> QED
      BY <3>1, <3>2, <3>5
  <2>3. ASSUME NEW x \in 1..n, i = m + x
        PROVE  /\ c[i].kind = "entry" /\ c[i].name = sel.entry
               /\ \E j \in 1..(i - 1) :
                     Wanted(c[j], sel) /\ \A k \in (j + 1)..i : c[k].kind = "entry"
    <3>1. c[i] = b[x] /\ x \in DOMAIN b
      BY <1>1, <1>4, <2>3
    <3>2. /\ b[x].kind = "entry" /\ b[x].name = sel.entry
          /\ \E j \in 1..(x - 1) : Wanted(b[j], sel) /\ \A k \in (j + 1)..x : b[k].kind = "entry"
      BY <2>1, <3>1 DEF IsForest, MarksWanted
    <3>3. PICK y \in 1..(x - 1) : Wanted(b[y], sel) /\ \A k \in (y + 1)..x : b[k].kind = "entry"
      BY <3>2
    <3>4. y \in 1..n /\ m + y \in 1..(i - 1)
      BY <1>1, <2>3
    <3>5. Wanted(c[m + y], sel)
      BY <1>4, <3>3, <3>4
    <3>6. ASSUME NEW k \in ((m + y) + 1)..i
          PROVE  c[k].kind = "entry"
      <4> DEFINE z == k - m
      <4>1. z \in (y + 1)..x /\ z \in 1..n /\ k = m + z
        BY <1>1, <2>3, <3>4
      <4> HIDE DEF z
      <4>2. c[m + z] = b[z] /\ b[z].kind = "entry"
        BY <1>4, <3>3, <4>1
      <4> QED
        BY <4>1, <4>2
    <3> QED
      BY <3>1, <3>2, <3>4, <3>5, <3>6
  <2> QED
    BY <1>8, <2>1, <2>2, <2>3
<1>14. IsForest(c, d, sel)
  BY <1>2, <1>9, <1>10, <1>11, <1>12, <1>13 DEF IsForest
<1> QED
  BY <1>14 DEF c

----------------------------------------------------------------------------
(* tree_contains_path and add_tree_nodes, which call themselves *)

\* The trees that are not deep.
Low(n) == {t \in Trees : Height[t] < n}

\* What is in a directory is less deep than the list the directory is in.
LEMMA LowChildren ==
  ASSUME NEW t \in Trees
  PROVE  /\ DOMAIN t = 1..Len(t) /\ Len(t) \in Nat /\ Height[t] \in Nat /\ t \in Low(Deepest + 1)
         /\ \A i \in DOMAIN t :
               /\ t[i].kind \in {"dir", "leaf"}
               /\ t[i].kind = "dir" => t[i].children \in Trees /\ Height[t[i].children] < Height[t]
               /\ t[i].kind = "leaf" =>
                     DOMAIN t[i].entries = 1..Len(t[i].entries) /\ Len(t[i].entries) \in Nat
<1>1. Height \in [Trees -> 0..Deepest] /\ Deepest \in Nat /\ IsTree(t)
  BY TreesAssumption
<1>2. Height[t] \in 0..Deepest
  BY <1>1
<1> QED
  BY <1>1, <1>2 DEF IsTree, Low

\* Every tree is low enough for Low(Deepest + 1).
LEMMA AllAreLow == Low(Deepest + 1) = Trees
BY LowChildren DEF Low

HasIn(f, t, path) == \E i \in DOMAIN t : IF t[i].kind = "leaf" THEN t[i].path = path ELSE f[t[i].children]
IsContains(n, f, path) == f = [t \in Low(n) |-> HasIn(f, t, path)]

\* Such a function there is, by the height of the trees.
LEMMA ContainsExists ==
  ASSUME NEW path, NEW n \in Nat
  PROVE  \E f : IsContains(n, f, path)
<1> DEFINE Bad == {m \in Nat : ~\E f : IsContains(m, f, path)}
<1>1. SUFFICES ASSUME Bad # {} PROVE FALSE
  OBVIOUS
<1>2. PICK m \in Bad : \A k \in Bad : m <= k
  BY <1>1, LeastNat
<1>3. m # 0
  <2> DEFINE f == [t \in Low(0) |-> FALSE]
  <2>1. \A t \in Low(0) : FALSE
    BY LowChildren DEF Low
  <2>2. f = [t \in Low(0) |-> HasIn(f, t, path)]
    BY <2>1
  <2>3. IsContains(0, f, path)
    BY <2>2 DEF IsContains
  <2> QED
    BY <1>2, <2>3
<1>4. m - 1 \in Nat /\ m - 1 \notin Bad
  BY <1>2, <1>3
<1>5. PICK f : f = [t \in Low(m - 1) |-> HasIn(f, t, path)]
  BY <1>4 DEF IsContains
<1> DEFINE g == [t \in Low(m) |-> HasIn(f, t, path)]
<1>6. ASSUME NEW t \in Low(m - 1)
      PROVE  g[t] = f[t]
  <2>1. f[t] = HasIn(f, t, path)
    BY <1>5
  <2>2. t \in Low(m)
    BY <1>2, LowChildren DEF Low
  <2>3. g[t] = HasIn(f, t, path)
    BY <2>2
  <2> HIDE DEF g
  <2> QED
    BY <2>1, <2>3
<1>7. ASSUME NEW t \in Low(m)
      PROVE  g[t] = HasIn(g, t, path)
  <2>1. \A i \in DOMAIN t : t[i].kind # "leaf" => t[i].children \in Low(m - 1)
    BY <1>2, LowChildren DEF Low
  <2>2. \A i \in DOMAIN t : t[i].kind # "leaf" => g[t[i].children] = f[t[i].children]
    BY <1>6, <2>1
  <2>3. g[t] = HasIn(f, t, path)
    OBVIOUS
  <2> HIDE DEF g
  <2>4. HasIn(g, t, path) <=> HasIn(f, t, path)
    BY <2>2 DEF HasIn
  <2>5. HasIn(g, t, path) \in BOOLEAN /\ HasIn(f, t, path) \in BOOLEAN
    BY DEF HasIn
  <2> QED
    BY <2>3, <2>4, <2>5
<1>8. g = [t \in Low(m) |-> HasIn(g, t, path)]
  BY <1>7
<1>9. IsContains(m, g, path)
  <2> HIDE DEF g
  <2> QED
    BY <1>8 DEF IsContains
<1> QED
  BY <1>2, <1>9

\* tree_contains_path finds what is at the top or in a directory.
LEMMA ContainsIs ==
  ASSUME NEW path, NEW t \in Trees
  PROVE  /\ ContainsPath(t, path) \in BOOLEAN
         /\ ContainsPath(t, path) <=>
               \E i \in DOMAIN t :
                  IF t[i].kind = "leaf" THEN t[i].path = path ELSE ContainsPath(t[i].children, path)
<1> DEFINE f == CHOOSE f : f = [x \in Trees |-> HasIn(f, x, path)]
<1>1. f = [x \in Trees |-> HasIn(f, x, path)]
  <2>1. Deepest + 1 \in Nat
    BY TreesAssumption
  <2>2. \E h : h = [x \in Trees |-> HasIn(h, x, path)]
    BY <2>1, ContainsExists, AllAreLow DEF IsContains
  <2> QED
    BY <2>2
<1>2. \A x : ContainsPath(x, path) = f[x]
  BY DEF ContainsPath, HasIn
<1> HIDE DEF f
<1>3. f[t] = HasIn(f, t, path)
  BY <1>1
<1>4. HasIn(f, t, path) \in BOOLEAN
  BY DEF HasIn
<1> QED
  BY <1>2, <1>3, <1>4 DEF HasIn

\* The lists that a tree's children and their children are added with.
Calls(n) == [tree : Low(n), depth : Nat]
Inside(f, t, depth) == f[[tree |-> t.children, depth |-> depth + 1]]
AddIn(f, at, src, sel) ==
    FlattenSeq([i \in DOMAIN at.tree |->
        NodesOf(at.tree[i], at.depth, src, sel, Inside(f, at.tree[i], at.depth))])
IsAdd(n, f, src, sel) == f = [at \in Calls(n) |-> AddIn(f, at, src, sel)]

\* What is added depends on what is added for the directories in it.
LEMMA AddInSame ==
  ASSUME NEW src, NEW sel, NEW n \in Nat, NEW at \in Calls(n + 1), NEW f, NEW g,
         \A x \in Calls(n) : f[x] = g[x]
  PROVE  AddIn(f, at, src, sel) = AddIn(g, at, src, sel)
<1>1. at.tree \in Low(n + 1) /\ at.depth \in Nat
  BY DEF Calls
<1>2. ASSUME NEW i \in DOMAIN at.tree
      PROVE  NodesOf(at.tree[i], at.depth, src, sel, Inside(f, at.tree[i], at.depth))
             = NodesOf(at.tree[i], at.depth, src, sel, Inside(g, at.tree[i], at.depth))
  <2> DEFINE t == at.tree[i]
  <2>1. t.kind = "dir" => t.children \in Low(n)
    BY <1>1, LowChildren DEF Low
  <2>2. t.kind = "dir" => [tree |-> t.children, depth |-> at.depth + 1] \in Calls(n)
    BY <1>1, <2>1 DEF Calls
  <2>3. t.kind = "dir" => Inside(f, t, at.depth) = Inside(g, t, at.depth)
    BY <2>2 DEF Inside
  <2> HIDE DEF t
  <2>4. ASSUME NEW x, NEW y, t.kind # "dir"
        PROVE  NodesOf(t, at.depth, src, sel, x) = NodesOf(t, at.depth, src, sel, y)
    BY <2>4 DEF NodesOf
  <2>5. NodesOf(t, at.depth, src, sel, Inside(f, t, at.depth))
        = NodesOf(t, at.depth, src, sel, Inside(g, t, at.depth))
    BY <2>3, <2>4
  <2> QED
    BY <2>5 DEF t
<1>3. [i \in DOMAIN at.tree |-> NodesOf(at.tree[i], at.depth, src, sel, Inside(f, at.tree[i], at.depth))]
      = [i \in DOMAIN at.tree |-> NodesOf(at.tree[i], at.depth, src, sel, Inside(g, at.tree[i], at.depth))]
  BY <1>2
<1> QED
  BY <1>3 DEF AddIn

\* There is a function for add_tree_nodes, by the height of the trees.
LEMMA AddExists ==
  ASSUME NEW src, NEW sel, NEW n \in Nat
  PROVE  \E f : IsAdd(n, f, src, sel)
<1> DEFINE Bad == {m \in Nat : ~\E f : IsAdd(m, f, src, sel)}
<1>1. SUFFICES ASSUME Bad # {} PROVE FALSE
  OBVIOUS
<1>2. PICK m \in Bad : \A k \in Bad : m <= k
  BY <1>1, LeastNat
<1>3. m # 0
  <2> DEFINE f == [at \in Calls(0) |-> FALSE]
  <2>1. \A at \in Calls(0) : FALSE
    BY LowChildren DEF Low, Calls
  <2>2. f = [at \in Calls(0) |-> AddIn(f, at, src, sel)]
    BY <2>1
  <2>3. IsAdd(0, f, src, sel)
    BY <2>2 DEF IsAdd
  <2> QED
    BY <1>2, <2>3
<1>4. m - 1 \in Nat /\ m - 1 \notin Bad /\ (m - 1) + 1 = m
  BY <1>2, <1>3
<1>5. PICK f : f = [at \in Calls(m - 1) |-> AddIn(f, at, src, sel)]
  BY <1>4 DEF IsAdd
<1> DEFINE g == [at \in Calls(m) |-> AddIn(f, at, src, sel)]
<1>6. ASSUME NEW at \in Calls(m - 1)
      PROVE  g[at] = f[at]
  <2>1. f[at] = AddIn(f, at, src, sel)
    BY <1>5
  <2>2. at \in Calls(m)
    BY <1>2, LowChildren DEF Low, Calls
  <2>3. g[at] = AddIn(f, at, src, sel)
    BY <2>2
  <2> HIDE DEF g
  <2> QED
    BY <2>1, <2>3
<1>7. ASSUME NEW at \in Calls(m)
      PROVE  g[at] = AddIn(g, at, src, sel)
  <2>1. g[at] = AddIn(f, at, src, sel)
    OBVIOUS
  <2> HIDE DEF g
  <2>2. AddIn(f, at, src, sel) = AddIn(g, at, src, sel)
    <3>1. at \in Calls((m - 1) + 1) /\ \A x \in Calls(m - 1) : f[x] = g[x]
      BY <1>4, <1>6
    <3> QED
      BY <1>4, <3>1, AddInSame
  <2> QED
    BY <2>1, <2>2
<1>8. g = [at \in Calls(m) |-> AddIn(g, at, src, sel)]
  BY <1>7
<1>9. IsAdd(m, g, src, sel)
  <2> HIDE DEF g
  <2> QED
    BY <1>8 DEF IsAdd
<1> QED
  BY <1>2, <1>9

\* add_tree_nodes adds the nodes of one tree node after another, with what it adds for
\* the children under a directory.
LEMMA AddedIs ==
  ASSUME NEW src, NEW sel, NEW t \in Trees, NEW d \in Nat
  PROVE  AddTreeNodes(t, d, src, sel) =
            FlattenSeq([i \in DOMAIN t |->
                NodesOf(t[i], d, src, sel, AddTreeNodes(t[i].children, d + 1, src, sel))])
<1> DEFINE f == CHOOSE f : f = [at \in [tree : Trees, depth : Nat] |-> AddIn(f, at, src, sel)]
<1>1. f = [at \in [tree : Trees, depth : Nat] |-> AddIn(f, at, src, sel)]
  <2>1. Deepest + 1 \in Nat
    BY TreesAssumption
  <2>2. PICK h : IsAdd(Deepest + 1, h, src, sel)
    BY <2>1, AddExists
  <2>3. Calls(Deepest + 1) = [tree : Trees, depth : Nat]
    BY AllAreLow DEF Calls
  <2>4. h = [at \in [tree : Trees, depth : Nat] |-> AddIn(h, at, src, sel)]
    BY <2>2, <2>3 DEF IsAdd
  <2> QED
    BY <2>4
<1>2. \A x, e : AddTreeNodes(x, e, src, sel) = f[[tree |-> x, depth |-> e]]
  BY DEF AddTreeNodes, AddIn, Inside
<1> HIDE DEF f
<1> DEFINE at == [tree |-> t, depth |-> d]
<1>3. at \in [tree : Trees, depth : Nat] /\ at.tree = t /\ at.depth = d
  OBVIOUS
<1> HIDE DEF at
<1>4. f[at] = AddIn(f, at, src, sel)
  BY <1>1, <1>3
<1>5. AddIn(f, at, src, sel) =
         FlattenSeq([i \in DOMAIN t |-> NodesOf(t[i], d, src, sel, Inside(f, t[i], d))])
  BY <1>3 DEF AddIn
<1>6. \A i \in DOMAIN t : Inside(f, t[i], d) = AddTreeNodes(t[i].children, d + 1, src, sel)
  BY <1>2 DEF Inside
<1>7. [i \in DOMAIN t |-> NodesOf(t[i], d, src, sel, Inside(f, t[i], d))]
      = [i \in DOMAIN t |-> NodesOf(t[i], d, src, sel, AddTreeNodes(t[i].children, d + 1, src, sel))]
  BY <1>6
<1>8. AddTreeNodes(t, d, src, sel) = f[at]
  BY <1>2 DEF at
<1> QED
  BY <1>4, <1>5, <1>7, <1>8

----------------------------------------------------------------------------
(* What add_tree_nodes makes *)

\* No node is a source, and the entries have the number of the source.
EntriesFrom(list, from) ==
    \A i \in DOMAIN list : list[i].kind # "source" /\ (list[i].kind = "entry" => list[i].src = from)

\* A list of one.
LEMMA One ==
  ASSUME NEW x
  PROVE  IsList(<<x>>) /\ Len(<<x>>) = 1 /\ <<x>>[1] = x
<1>1. <<x>> \in Seq({x})
  OBVIOUS
<1> QED
  BY <1>1 DEF IsList

\* What is known of the node of an entry, and of the node of its leaf.
EntryOf(node, d, from, path, sel) ==
    /\ DOMAIN node = Fields /\ node.kind = "entry" /\ node.depth = d /\ node.src = from
    /\ node.expanded = FALSE
    /\ node.default <=> (sel.path = path /\ sel.entry = node.name)

LeafOf(node, d, path, sel) ==
    /\ DOMAIN node = Fields /\ node.kind = "leaf" /\ node.depth = d /\ node.path = path
    /\ node.expanded = (sel.path = path) /\ node.default = FALSE

LEMMA EntryNode ==
  ASSUME NEW t, NEW name, NEW d, NEW from, NEW sel,
         NEW node, node = Node("entry", d, from, "", name, <<>>, FALSE, IsDefault(t, name, sel))
  PROVE  EntryOf(node, d, from, t.path, sel)
<1> DEFINE it == IsDefault(t, name, sel)
<1>1. (it <=> (sel.path = t.path /\ sel.entry = name)) /\ it \in BOOLEAN
  BY DEF IsDefault
<1> HIDE DEF it
<1>2. node = Node("entry", d, from, "", name, <<>>, FALSE, it)
  BY DEF it
<1>3. /\ DOMAIN node = Fields /\ node.kind = "entry" /\ node.depth = d /\ node.src = from
      /\ node.expanded = FALSE /\ node.default = it /\ node.name = name
  BY ONLY <1>1, <1>2 DEF Node, Fields
<1> QED
  BY ONLY <1>1, <1>3 DEF EntryOf

LEMMA EntryIsNode ==
  ASSUME NEW d \in Nat \ {0}, NEW from, NEW path, NEW sel, NEW node, EntryOf(node, d, from, path, sel)
  PROVE  /\ IsNode(node) /\ node.kind = "entry" /\ node.depth = d /\ node.src = from
         /\ ~Wanted(node, sel)
         /\ node.default => sel.path = path /\ sel.entry = node.name
BY DEF EntryOf, IsNode, Toggles, Wanted

LEMMA LeafIsNode ==
  ASSUME NEW d \in Nat \ {0}, NEW path, NEW sel, NEW node, LeafOf(node, d, path, sel)
  PROVE  /\ IsNode(node) /\ node.kind = "leaf" /\ node.depth = d /\ ~node.default
         /\ Wanted(node, sel) <=> path = sel.path
         /\ node.expanded <=> path = sel.path
BY DEF LeafOf, IsNode, Toggles, Wanted

LEMMA EntryFollows ==
  ASSUME NEW d \in Nat, NEW before, NEW node, node.kind = "entry", node.depth = d + 1,
         \/ before.kind = "leaf" /\ before.depth = d
         \/ before.kind = "entry" /\ before.depth = d + 1
  PROVE  Follows(before, node)
BY DEF Follows

\* The entries of a leaf.
LEMMA EntryNodesAre ==
  ASSUME NEW t, DOMAIN t.entries = 1..Len(t.entries), Len(t.entries) \in Nat,
         NEW d \in Nat, NEW from, NEW sel, NEW list, list = EntryNodes(t, d, from, sel)
  PROVE  /\ IsList(list) /\ Len(list) = Len(t.entries)
         /\ \A i \in 1..Len(list) : EntryOf(list[i], d, from, t.path, sel)
<1>1. list = [k \in 1..Len(t.entries) |->
                Node("entry", d, from, "", t.entries[k], <<>>, FALSE, IsDefault(t, t.entries[k], sel))]
  BY DEF EntryNodes
<1> DEFINE S == {list[k] : k \in 1..Len(t.entries)}
<1>2. list \in [1..Len(t.entries) -> S]
  BY <1>1
<1>3. list \in Seq(S) /\ Len(list) = Len(t.entries)
  BY <1>2
<1>4. ASSUME NEW i \in 1..Len(list)
      PROVE  EntryOf(list[i], d, from, t.path, sel)
  <2>1. list[i] = Node("entry", d, from, "", t.entries[i], <<>>, FALSE, IsDefault(t, t.entries[i], sel))
    BY <1>1, <1>3
  <2> QED
    BY <2>1, EntryNode
<1> QED
  BY <1>3, <1>4 DEF IsList

\* A leaf with its entries.
LEMMA LeafNodes ==
  ASSUME NEW t, t.kind # "dir", DOMAIN t.entries = 1..Len(t.entries), Len(t.entries) \in Nat,
         NEW d \in Nat \ {0}, NEW from, NEW sel, NEW inside,
         NEW list, list = NodesOf(t, d, from, sel, inside)
  PROVE  /\ IsForest(list, d, sel) /\ Len(list) > 0 /\ EntriesFrom(list, from)
         /\ Has(list, sel) <=> t.path = sel.path
<1> DEFINE top == Node("leaf", d, 0, "", Last(t.path), t.path, sel.path = t.path, FALSE)
           entries == EntryNodes(t, d + 1, from, sel)
           n == Len(entries)
<1>1. list = <<top>> \o entries
  BY DEF NodesOf
<1>2. LeafOf(top, d, t.path, sel)
  BY DEF Node, Fields, LeafOf
<1>3. IsList(entries) /\ n \in Nat /\ \A i \in 1..n : EntryOf(entries[i], d + 1, from, t.path, sel)
  <2>1. d + 1 \in Nat
    OBVIOUS
  <2> QED
    BY <2>1, EntryNodesAre, ListIs
<1> HIDE DEF top, entries
<1>4. /\ IsList(list) /\ Len(list) = 1 + n /\ list[1] = top
      /\ \A i \in 1..n : list[1 + i] = entries[i]
  <2>1. IsList(<<top>>) /\ Len(<<top>>) = 1 /\ <<top>>[1] = top
    BY One
  <2> QED
    BY <1>1, <1>3, <2>1, Joined
<1>5. DOMAIN list = 1..(1 + n)
  BY <1>4, ListIs
<1> HIDE DEF n
<1>6. ASSUME NEW i \in 2..(1 + n)
      PROVE  /\ IsNode(list[i]) /\ list[i].kind = "entry" /\ list[i].depth = d + 1 /\ list[i].src = from
             /\ ~Wanted(list[i], sel)
             /\ list[i].default => sel.path = t.path /\ sel.entry = list[i].name
  <2> DEFINE k == i - 1
  <2>1. k \in 1..n /\ i = 1 + k /\ d + 1 \in Nat \ {0}
    BY <1>3
  <2> HIDE DEF k
  <2>2. EntryOf(list[i], d + 1, from, t.path, sel)
    BY <1>3, <1>4, <2>1
  <2> QED
    BY <2>1, <2>2, EntryIsNode
<1>7. /\ IsNode(list[1]) /\ list[1].kind = "leaf" /\ list[1].depth = d /\ ~list[1].default
      /\ Wanted(list[1], sel) <=> t.path = sel.path
      /\ list[1].expanded <=> t.path = sel.path
  BY <1>2, <1>4, LeafIsNode
<1>8. \A i \in DOMAIN list : i = 1 \/ i \in 2..(1 + n)
  BY <1>3, <1>5
<1>9. 1 \in DOMAIN list /\ \A i \in 2..(1 + n) : i \in DOMAIN list
  BY <1>3, <1>5
<1>10. ASSUME NEW i \in DOMAIN list
       PROVE  IsNode(list[i]) /\ d <= list[i].depth /\ list[i].kind # "source"
              /\ (list[i].kind = "entry" => list[i].src = from)
  BY <1>6, <1>7, <1>8
<1>11. ASSUME NEW i \in 2..(1 + n)
       PROVE  Follows(list[i - 1], list[i])
  <2>1. i - 1 = 1 \/ i - 1 \in 2..(1 + n)
    BY <1>3
  <2>2. list[i].kind = "entry" /\ list[i].depth = d + 1
    BY <1>6
  <2>3. \/ list[i - 1].kind = "leaf" /\ list[i - 1].depth = d
        \/ list[i - 1].kind = "entry" /\ list[i - 1].depth = d + 1
    BY <1>6, <1>7, <2>1
  <2> QED
    BY <2>2, <2>3, EntryFollows
<1>12. OpensWanted(list, sel)
  <2>1. Above(list, 1) = {}
    BY DEF Above
  <2>2. \A i \in DOMAIN list : Wanted(list[i], sel) => i = 1
    BY <1>6, <1>8
  <2> QED
    BY <1>7, <2>1, <2>2 DEF OpensWanted
<1>13. MarksWanted(list, sel)
  <2>1. ASSUME NEW i \in DOMAIN list, list[i].default
        PROVE  /\ list[i].kind = "entry" /\ list[i].name = sel.entry
               /\ \E j \in 1..(i - 1) :
                     Wanted(list[j], sel) /\ \A k \in (j + 1)..i : list[k].kind = "entry"
    <3>1. i \in 2..(1 + n)
      BY <1>7, <1>8, <2>1
    <3>2. sel.path = t.path /\ list[i].kind = "entry" /\ sel.entry = list[i].name
      BY <1>6, <2>1, <3>1
    <3>3. 1 \in 1..(i - 1) /\ Wanted(list[1], sel)
      BY <1>7, <3>1, <3>2
    <3>4. \A k \in (1 + 1)..i : k \in 2..(1 + n)
      BY <1>3, <3>1
    <3>5. \A k \in (1 + 1)..i : list[k].kind = "entry"
      BY <1>6, <3>4
    <3> QED
      BY <3>2, <3>3, <3>5
  <2> QED
    BY <2>1 DEF MarksWanted
<1>14. IsForest(list, d, sel)
  <2>1. \A i \in 2..Len(list) : Follows(list[i - 1], list[i])
    BY <1>4, <1>11
  <2> QED
    BY <1>4, <1>7, <1>10, <1>12, <1>13, <2>1 DEF IsForest
<1>15. Has(list, sel) <=> t.path = sel.path
  BY <1>6, <1>7, <1>8, <1>9 DEF Has
<1> QED
  BY <1>3, <1>4, <1>10, <1>14, <1>15 DEF EntriesFrom

\* A node that is nothing special, by itself.
LEMMA ForestOfOne ==
  ASSUME NEW d \in Nat, NEW sel, NEW node, IsNode(node), node.depth = d, node.kind # "entry",
         ~Wanted(node, sel), ~node.default
  PROVE  IsForest(<<node>>, d, sel) /\ ~Has(<<node>>, sel)
<1> DEFINE list == <<node>>
<1>1. IsList(list) /\ Len(list) = 1 /\ list[1] = node
  BY One
<1>2. DOMAIN list = 1..1
  BY <1>1, ListIs
<1> HIDE DEF list
<1>3. \A i \in DOMAIN list : list[i] = node
  BY <1>1, <1>2
<1>4. \A i \in 2..Len(list) : FALSE
  BY <1>1
<1>5. OpensWanted(list, sel) /\ MarksWanted(list, sel) /\ ~Has(list, sel)
  BY <1>3 DEF OpensWanted, MarksWanted, Has
<1>6. IsForest(list, d, sel)
  BY <1>1, <1>3, <1>4, <1>5 DEF IsForest
<1> QED
  BY <1>5, <1>6 DEF list

LEMMA EntriesJoined ==
  ASSUME NEW from, NEW a, IsList(a), EntriesFrom(a, from), NEW b, IsList(b), EntriesFrom(b, from)
  PROVE  EntriesFrom(a \o b, from)
<1>1. /\ Len(a) \in Nat /\ DOMAIN a = 1..Len(a) /\ Len(b) \in Nat /\ DOMAIN b = 1..Len(b)
      /\ DOMAIN (a \o b) = 1..(Len(a) + Len(b))
      /\ \A i \in 1..Len(a) : (a \o b)[i] = a[i]
      /\ \A i \in 1..Len(b) : (a \o b)[Len(a) + i] = b[i]
  BY Joined, ListIs
<1>2. \A i \in 1..(Len(a) + Len(b)) : i \in 1..Len(a) \/ \E k \in 1..Len(b) : i = Len(a) + k
  BY <1>1, JoinedPlace
<1> QED
  BY <1>1, <1>2 DEF EntriesFrom

\* A directory with what is in it.
LEMMA DirNodes ==
  ASSUME NEW t, t.kind = "dir", NEW d \in Nat \ {0}, NEW from, NEW sel,
         NEW inside, IsForest(inside, d + 1, sel), EntriesFrom(inside, from),
         ContainsPath(t.children, sel.path) \in BOOLEAN,
         Has(inside, sel) <=> ContainsPath(t.children, sel.path),
         NEW list, list = NodesOf(t, d, from, sel, inside)
  PROVE  /\ IsForest(list, d, sel) /\ Len(list) > 0 /\ EntriesFrom(list, from)
         /\ Has(list, sel) <=> ContainsPath(t.children, sel.path)
<1> DEFINE top == Node("dir", d, 0, "", t.name, <<>>, Leads(t.children, sel), FALSE)
           a == <<top>>
<1>1. list = a \o inside
  BY DEF NodesOf
<1>2. /\ IsNode(top) /\ top.kind = "dir" /\ top.depth = d /\ ~top.default
      /\ ~Wanted(top, sel) /\ (top.expanded <=> ContainsPath(t.children, sel.path))
  <2> DEFINE open == Leads(t.children, sel)
  <2>1. (open <=> ContainsPath(t.children, sel.path)) /\ open \in BOOLEAN
    BY DEF Leads
  <2> HIDE DEF open
  <2>2. top = Node("dir", d, 0, "", t.name, <<>>, open, FALSE)
    BY DEF open
  <2> HIDE DEF top
  <2>3. /\ DOMAIN top = Fields /\ top.kind = "dir" /\ top.depth = d
        /\ top.expanded = open /\ top.default = FALSE
    BY ONLY <2>1, <2>2 DEF Node, Fields
  <2>4. /\ IsNode(top) /\ top.kind = "dir" /\ top.depth = d /\ ~top.default
        /\ ~Wanted(top, sel) /\ (top.expanded <=> open)
    BY ONLY <2>1, <2>3, d \in Nat \ {0} DEF IsNode, Toggles, Wanted
  <2> QED
    BY <2>1, <2>4
<1> HIDE DEF top
<1>3. IsForest(a, d, sel) /\ ~Has(a, sel) /\ IsList(a) /\ Len(a) = 1 /\ a[1] = top
  BY <1>2, ForestOfOne, One
<1> HIDE DEF a
<1>4. IsList(inside) /\ Len(inside) \in Nat /\ DOMAIN inside = 1..Len(inside)
  BY ListIs DEF IsForest
<1>5. Len(inside) > 0 => Follows(a[Len(a)], inside[1])
  <2>1. Len(inside) > 0 => inside[1].depth = d + 1 /\ inside[1].kind # "entry"
    BY DEF IsForest
  <2> QED
    BY <1>2, <1>3, <2>1 DEF Follows
<1>6. \A j \in 1..Len(a) :
         a[j].depth < d + 1 /\ Has(inside, sel) /\ a[j].kind # "source" => a[j].expanded
  <2>1. \A j \in 1..Len(a) : a[j] = top
    BY <1>3
  <2> QED
    BY <1>2, <2>1
<1>7. IsForest(list, d, sel)
  <2>1. d \in Nat /\ d + 1 \in Nat /\ d <= d + 1 /\ Len(a) > 0
    BY <1>3
  <2> QED
    BY <1>1, <1>3, <1>5, <1>6, <2>1, ForestJoined
<1>8. Has(list, sel) <=> Has(inside, sel)
  BY <1>1, <1>3, <1>4, HasJoined
<1>9. EntriesFrom(a, from)
  <2>1. \A j \in DOMAIN a : a[j] = top
    BY <1>3, ListIs
  <2> QED
    BY <1>2, <2>1 DEF EntriesFrom
<1>10. EntriesFrom(list, from)
  BY <1>1, <1>3, <1>4, <1>9, EntriesJoined
<1>11. Len(list) > 0
  <2>1. Len(a \o inside) = Len(a) + Len(inside)
    BY <1>3, <1>4, Joined
  <2> QED
    BY <1>1, <1>3, <1>4, <2>1
<1> QED
  BY <1>7, <1>8, <1>10, <1>11

\* Lists of siblings one after the other.
LEMMA ForestFlattened ==
  ASSUME NEW d \in Nat, NEW sel, NEW seqs, Len(seqs) \in Nat,
         \A i \in 1..Len(seqs) : IsForest(seqs[i], d, sel) /\ Len(seqs[i]) > 0,
         NEW f, f[1] = seqs[1], \A i \in 2..Len(seqs) : f[i] = f[i - 1] \o seqs[i]
  PROVE  \A n \in 1..Len(seqs) :
            /\ IsForest(f[n], d, sel) /\ Len(f[n]) > 0
            /\ Has(f[n], sel) <=> \E i \in 1..n : Has(seqs[i], sel)
<1> DEFINE Good(n) == /\ IsForest(f[n], d, sel) /\ Len(f[n]) > 0
                      /\ Has(f[n], sel) <=> \E i \in 1..n : Has(seqs[i], sel)
           Bad == {n \in 1..Len(seqs) : ~Good(n)}
<1>1. SUFFICES ASSUME Bad # {} PROVE FALSE
  OBVIOUS
<1>2. PICK n \in Bad : \A k \in Bad : n <= k
  <2>1. Bad \in SUBSET Nat
    OBVIOUS
  <2> QED
    BY <1>1, <2>1, LeastNat
<1>3. n \in 1..Len(seqs) /\ ~Good(n)
  BY <1>2
<1>4. n # 1
  <2>1. \E i \in 1..1 : Has(seqs[i], sel) <=> Has(seqs[1], sel)
    OBVIOUS
  <2>2. (\E i \in 1..1 : Has(seqs[i], sel)) <=> Has(seqs[1], sel)
    OBVIOUS
  <2>3. ASSUME n = 1
        PROVE  FALSE
    <3>1. Good(1)
      BY <1>3, <2>2, <2>3
    <3> QED
      BY <1>3, <2>3, <3>1
  <2> QED
    BY <2>3
<1>5. n - 1 \in 1..Len(seqs) /\ n - 1 \notin Bad /\ n \in 2..Len(seqs)
  BY <1>2, <1>3, <1>4
<1>6. Good(n - 1)
  BY <1>5
<1> DEFINE a == f[n - 1]
           b == seqs[n]
<1>7. f[n] = a \o b
  BY <1>5
<1>8. IsForest(a, d, sel) /\ Len(a) > 0 /\ IsForest(b, d, sel) /\ Len(b) > 0
  BY <1>3, <1>6
<1>9. Has(a, sel) <=> \E i \in 1..(n - 1) : Has(seqs[i], sel)
  BY <1>6
<1> HIDE DEF Good, Bad, a
<1>10. IsList(a) /\ IsList(b) /\ Len(a) \in Nat /\ Len(b) \in Nat /\ DOMAIN a = 1..Len(a)
  BY <1>8, ListIs DEF IsForest
<1>11. /\ b[1].depth = d /\ b[1].kind # "entry"
       /\ \A i \in 1..Len(a) : d <= a[i].depth /\ a[i].depth \in Nat
  BY <1>8, <1>10 DEF IsForest, IsNode
<1>12. IsForest(f[n], d, sel)
  <2>1. Len(a) \in 1..Len(a)
    BY <1>8, <1>10
  <2>2. Follows(a[Len(a)], b[1])
    BY <1>11, <2>1 DEF Follows
  <2>3. \A j \in 1..Len(a) : ~(a[j].depth < d)
    BY <1>11
  <2>4. d <= d
    OBVIOUS
  <2> QED
    BY <1>7, <1>8, <2>2, <2>3, <2>4, ForestJoined
<1>13. Len(f[n]) > 0
  BY <1>7, <1>8, <1>10, Joined
<1>14. Has(f[n], sel) <=> \E i \in 1..n : Has(seqs[i], sel)
  <2>1. Has(f[n], sel) <=> Has(a, sel) \/ Has(b, sel)
    BY <1>7, <1>10, HasJoined
  <2>2. \A i \in 1..n : i \in 1..(n - 1) \/ i = n
    BY <1>3
  <2>3. n \in 1..n /\ \A i \in 1..(n - 1) : i \in 1..n
    BY <1>3
  <2> QED
    BY <1>9, <2>1, <2>2, <2>3
<1> QED
  BY <1>3, <1>12, <1>13, <1>14 DEF Good

LEMMA EntriesFlattened ==
  ASSUME NEW from, NEW seqs, Len(seqs) \in Nat,
         \A i \in 1..Len(seqs) : IsList(seqs[i]) /\ EntriesFrom(seqs[i], from),
         NEW f, f[1] = seqs[1], \A i \in 2..Len(seqs) : f[i] = f[i - 1] \o seqs[i]
  PROVE  \A n \in 1..Len(seqs) : IsList(f[n]) /\ EntriesFrom(f[n], from)
<1> DEFINE Bad == {n \in 1..Len(seqs) : ~(IsList(f[n]) /\ EntriesFrom(f[n], from))}
<1>1. SUFFICES ASSUME Bad # {} PROVE FALSE
  OBVIOUS
<1>2. PICK n \in Bad : \A k \in Bad : n <= k
  <2>1. Bad \in SUBSET Nat
    OBVIOUS
  <2> QED
    BY <1>1, <2>1, LeastNat
<1>3. n \in 1..Len(seqs) /\ n # 1
  BY <1>2
<1>4. n - 1 \in 1..Len(seqs) /\ n - 1 \notin Bad /\ n \in 2..Len(seqs)
  BY <1>2, <1>3
<1>5. IsList(f[n - 1]) /\ EntriesFrom(f[n - 1], from) /\ f[n] = f[n - 1] \o seqs[n]
  BY <1>4
<1>6. IsList(f[n]) /\ EntriesFrom(f[n], from)
  BY <1>3, <1>5, EntriesJoined, Joined
<1> QED
  BY <1>2, <1>6

\* A list without nodes.
LEMMA ForestOfNone ==
  ASSUME NEW list, IsList(list), Len(list) = 0, NEW d, NEW sel, NEW from
  PROVE  IsForest(list, d, sel) /\ EntriesFrom(list, from) /\ ~Has(list, sel)
<1>1. DOMAIN list = 1..0
  BY ListIs
<1>2. \A i \in DOMAIN list : FALSE
  BY <1>1
<1>3. \A i \in 2..Len(list) : FALSE
  OBVIOUS
<1>4. OpensWanted(list, sel) /\ MarksWanted(list, sel)
  BY <1>2 DEF OpensWanted, MarksWanted
<1>5. ~(Len(list) > 0)
  OBVIOUS
<1> QED
  BY <1>2, <1>3, <1>4, <1>5 DEF IsForest, EntriesFrom, Has

\* add_tree_nodes makes a list of siblings of a tree, and it has the default's leaf if
\* tree_contains_path says so.
Made(list, tree, d, from, sel) ==
    /\ IsForest(list, d, sel) /\ EntriesFrom(list, from)
    /\ Has(list, sel) <=> ContainsPath(tree, sel.path)

LEMMA TreeNodes ==
  ASSUME NEW from, NEW sel, NEW tree \in Trees, NEW depth \in Nat \ {0}
  PROVE  Made(AddTreeNodes(tree, depth, from, sel), tree, depth, from, sel)
<1> DEFINE Good(t, d) == Made(AddTreeNodes(t, d, from, sel), t, d, from, sel)
           Bad == {h \in Nat : \E t \in Trees : Height[t] = h /\ \E d \in Nat \ {0} : ~Good(t, d)}
<1>1. SUFFICES ASSUME Bad # {} PROVE FALSE
  <2>1. Height[tree] \in Nat
    BY LowChildren
  <2> QED
    BY <2>1
<1>2. PICK h \in Bad : \A k \in Bad : h <= k
  BY <1>1, LeastNat
<1>3. PICK t \in Trees, d \in Nat \ {0} : Height[t] = h /\ ~Good(t, d)
  BY <1>2
<1>4. \A c \in Trees : Height[c] < h => \A e \in Nat \ {0} : Good(c, e)
  <2>1. ASSUME NEW c \in Trees, Height[c] < h, NEW e \in Nat \ {0}, ~Good(c, e)
        PROVE  FALSE
    <3>1. Height[c] \in Nat /\ Height[c] \in Bad
      BY <2>1, LowChildren
    <3> QED
      BY <1>2, <2>1, <3>1
  <2> QED
    BY <2>1
<1> HIDE DEF Bad
<1> DEFINE Leading(x) == IF x.kind = "leaf" THEN x.path = sel.path ELSE ContainsPath(x.children, sel.path)
           inside(x) == AddTreeNodes(x.children, d + 1, from, sel)
           seqs == [i \in DOMAIN t |-> NodesOf(t[i], d, from, sel, inside(t[i]))]
<1>5. /\ DOMAIN t = 1..Len(t) /\ Len(t) \in Nat
      /\ \A i \in DOMAIN t :
            /\ t[i].kind \in {"dir", "leaf"}
            /\ t[i].kind = "dir" => t[i].children \in Trees /\ Height[t[i].children] < h
            /\ t[i].kind = "leaf" =>
                  DOMAIN t[i].entries = 1..Len(t[i].entries) /\ Len(t[i].entries) \in Nat
  BY <1>3, LowChildren
<1>6. ContainsPath(t, sel.path) <=> \E i \in DOMAIN t : Leading(t[i])
  BY ContainsIs
<1>7. AddTreeNodes(t, d, from, sel) = FlattenSeq(seqs)
  BY AddedIs
<1>8. ASSUME NEW i \in DOMAIN t, NEW list, list = NodesOf(t[i], d, from, sel, inside(t[i]))
      PROVE  /\ IsForest(list, d, sel) /\ Len(list) > 0 /\ EntriesFrom(list, from)
             /\ Has(list, sel) <=> Leading(t[i])
  <2> DEFINE x == t[i]
  <2>0. list = NodesOf(x, d, from, sel, inside(x))
    BY <1>8
  <2> HIDE DEF x
  <2>1. CASE x.kind = "leaf"
    <3>1. x.kind # "dir" /\ DOMAIN x.entries = 1..Len(x.entries) /\ Len(x.entries) \in Nat
      BY <1>5, <2>1 DEF x
    <3>2. /\ IsForest(list, d, sel) /\ Len(list) > 0 /\ EntriesFrom(list, from)
          /\ Has(list, sel) <=> x.path = sel.path
      BY <2>0, <3>1, LeafNodes
    <3> QED
      BY <2>1, <3>2 DEF x
  <2>2. CASE x.kind = "dir"
    <3>1. x.children \in Trees /\ Height[x.children] < h /\ d + 1 \in Nat \ {0}
      BY <1>5, <2>2 DEF x
    <3>2. Made(inside(x), x.children, d + 1, from, sel)
      BY <1>4, <3>1
    <3>3. ContainsPath(x.children, sel.path) \in BOOLEAN
      BY <3>1, ContainsIs
    <3> HIDE DEF inside
    <3>4. /\ IsForest(inside(x), d + 1, sel) /\ EntriesFrom(inside(x), from)
          /\ Has(inside(x), sel) <=> ContainsPath(x.children, sel.path)
      BY <3>2 DEF Made
    <3>5. /\ IsForest(list, d, sel) /\ Len(list) > 0 /\ EntriesFrom(list, from)
          /\ Has(list, sel) <=> ContainsPath(x.children, sel.path)
      BY <2>0, <2>2, <3>3, <3>4, DirNodes
    <3> QED
      BY <2>2, <3>5 DEF x
  <2> QED
    BY <1>5, <2>1, <2>2 DEF x
<1>9. DOMAIN seqs = 1..Len(t) /\ Len(seqs) = Len(t)
  BY <1>5
<1>10. \A i \in 1..Len(t) :
          /\ IsForest(seqs[i], d, sel) /\ Len(seqs[i]) > 0 /\ EntriesFrom(seqs[i], from) /\ IsList(seqs[i])
          /\ Has(seqs[i], sel) <=> Leading(t[i])
  BY <1>5, <1>8 DEF IsForest
<1>11. CASE Len(t) = 0
  <2>1. FlattenSeq(seqs) = seqs
    BY <1>9, <1>11 DEF FlattenSeq
  <2>2. IsList(seqs) /\ Len(seqs) = 0
    <3>1. seqs \in [1..Len(t) -> {seqs[i] : i \in 1..Len(t)}]
      BY <1>9
    <3>2. seqs \in Seq({seqs[i] : i \in 1..Len(t)})
      BY <1>5, <3>1
    <3> QED
      BY <1>9, <1>11, <3>2 DEF IsList
  <2> HIDE DEF seqs
  <2>3. IsForest(seqs, d, sel) /\ EntriesFrom(seqs, from) /\ ~Has(seqs, sel)
    BY <2>2, ForestOfNone
  <2>4. ~\E i \in DOMAIN t : Leading(t[i])
    BY <1>5, <1>11
  <2>5. Good(t, d)
    BY <1>6, <1>7, <2>1, <2>3, <2>4 DEF Made
  <2> QED
    BY <1>3, <2>5
<1>12. CASE Len(t) # 0
  <2> HIDE DEF seqs
  <2>1. Len(seqs) \in Nat \ {0}
    BY <1>5, <1>9, <1>12
  <2>2. PICK f : /\ f[1] = seqs[1] /\ \A i \in 2..Len(seqs) : f[i] = f[i - 1] \o seqs[i]
                 /\ FlattenSeq(seqs) = f[Len(seqs)]
    BY <2>1, Flattened
  <2>3. Len(seqs) \in 1..Len(seqs)
    BY <2>1
  <2>4. /\ IsForest(f[Len(seqs)], d, sel)
        /\ Has(f[Len(seqs)], sel) <=> \E i \in 1..Len(seqs) : Has(seqs[i], sel)
    <3>1. \A i \in 1..Len(seqs) : IsForest(seqs[i], d, sel) /\ Len(seqs[i]) > 0
      BY <1>9, <1>10
    <3> QED
      BY <2>1, <2>2, <2>3, <3>1, ForestFlattened
  <2>5. EntriesFrom(f[Len(seqs)], from)
    <3>1. \A i \in 1..Len(seqs) : IsList(seqs[i]) /\ EntriesFrom(seqs[i], from)
      BY <1>9, <1>10
    <3> QED
      BY <2>1, <2>2, <2>3, <3>1, EntriesFlattened
  <2>6. (\E i \in 1..Len(seqs) : Has(seqs[i], sel)) <=> \E i \in DOMAIN t : Leading(t[i])
    BY <1>5, <1>9, <1>10
  <2>7. Good(t, d)
    BY <1>6, <1>7, <2>2, <2>4, <2>5, <2>6 DEF Made
  <2> QED
    BY <1>3, <2>7
<1> QED
  BY <1>5, <1>11, <1>12

----------------------------------------------------------------------------
(* What TreeView::build makes *)

\* A source with its tree.
ChunkOf(found, i, first, sel) ==
    SourceNodes(i, found.trees[i], NodeState(found.states[i], found.trees[i]), first = i, sel)

LEMMA SourceChunk ==
  ASSUME NEW found, IsGiven(found), NEW i \in DOMAIN found.trees, NEW first, NEW sel,
         NEW tree, tree = found.trees[i], NEW list, list = ChunkOf(found, i, first, sel)
  PROVE  /\ IsForest(list, 0, sel) /\ Len(list) > 0
         /\ Has(list, sel) <=> ContainsPath(tree, sel.path)
         /\ list[1].kind = "source" /\ list[1].src = i
         /\ \A k \in 2..Len(list) : list[k].kind # "source" /\ (list[k].kind = "entry" => list[k].src = i)
         /\ first = i /\ ContainsPath(tree, sel.path) => list[1].expanded
<1> DEFINE state == NodeState(found.states[i], tree)
           top == Node("source", 0, i, state, "", <<>>, Expandable(state) /\ first = i, FALSE)
           under == IF Expandable(state) THEN AddTreeNodes(tree, 1, i, sel) ELSE <<>>
           a == <<top>>
<1>1. list = a \o under
  BY DEF SourceNodes, ChunkOf
<1> HIDE DEF state
<1>2. /\ IsNode(top) /\ top.kind = "source" /\ top.depth = 0 /\ top.src = i /\ ~top.default
      /\ ~Wanted(top, sel) /\ (top.expanded <=> (Expandable(state) /\ first = i))
  <2> DEFINE open == Expandable(state) /\ first = i
  <2>1. (open => Expandable(state)) /\ open \in BOOLEAN
    OBVIOUS
  <2> HIDE DEF open
  <2>2. top = Node("source", 0, i, state, "", <<>>, open, FALSE)
    BY DEF open
  <2> HIDE DEF top
  <2>3. /\ DOMAIN top = Fields /\ top.kind = "source" /\ top.depth = 0 /\ top.src = i
        /\ top.state = state /\ top.expanded = open /\ top.default = FALSE
    BY ONLY <2>1, <2>2 DEF Node, Fields
  <2>4. /\ IsNode(top) /\ top.kind = "source" /\ top.depth = 0 /\ top.src = i /\ ~top.default
        /\ ~Wanted(top, sel) /\ (top.expanded <=> open)
    BY ONLY <2>1, <2>3 DEF IsNode, Toggles, Wanted
  <2> QED
    BY <2>4 DEF open
<1> HIDE DEF top
<1>3. tree \in Trees /\ DOMAIN tree = 1..Len(tree) /\ (tree # <<>> => Expandable(found.states[i]))
  BY LowChildren DEF IsGiven
<1>4. tree = <<>> => ~ContainsPath(tree, sel.path)
  <2>1. tree = <<>> => \A k \in DOMAIN tree : FALSE
    OBVIOUS
  <2> QED
    BY <1>3, <2>1, ContainsIs
<1>5. ~Expandable(state) => tree = <<>>
  BY <1>3 DEF NodeState, state
<1>6. /\ IsForest(under, 1, sel) /\ EntriesFrom(under, i)
      /\ Has(under, sel) <=> ContainsPath(tree, sel.path)
  <2>1. CASE Expandable(state)
    <3>1. Made(AddTreeNodes(tree, 1, i, sel), tree, 1, i, sel)
      BY <1>3, TreeNodes
    <3>2. under = AddTreeNodes(tree, 1, i, sel)
      BY <2>1
    <3> QED
      BY <3>1, <3>2 DEF Made
  <2>2. CASE ~Expandable(state)
    <3>1. PICK none : none = <<>>
      OBVIOUS
    <3>2. IsList(none) /\ Len(none) = 0 /\ under = none
      <4>1. none \in Seq({})
        BY <3>1
      <4> QED
        BY <2>2, <3>1, <4>1 DEF IsList
    <3>3. IsForest(none, 1, sel) /\ EntriesFrom(none, i) /\ ~Has(none, sel)
      BY <3>2, ForestOfNone
    <3> QED
      BY <1>4, <1>5, <2>2, <3>2, <3>3
  <2> QED
    BY <2>1, <2>2
<1> HIDE DEF under
<1>7. IsForest(a, 0, sel) /\ ~Has(a, sel) /\ IsList(a) /\ Len(a) = 1 /\ a[1] = top
  BY <1>2, ForestOfOne, One
<1> HIDE DEF a
<1>8. IsList(under) /\ Len(under) \in Nat /\ DOMAIN under = 1..Len(under)
  BY <1>6, ListIs DEF IsForest
<1>9. IsForest(list, 0, sel)
  <2>1. Len(under) > 0 => Follows(a[Len(a)], under[1])
    <3>1. Len(under) > 0 => under[1].depth = 1 /\ under[1].kind # "entry"
      BY <1>6 DEF IsForest
    <3> QED
      BY <1>2, <1>7, <3>1 DEF Follows
  <2>2. \A j \in 1..Len(a) : a[j].kind = "source"
    BY <1>2, <1>7
  <2>3. 0 \in Nat /\ 1 \in Nat /\ 0 <= 1 /\ Len(a) > 0
    BY <1>7
  <2> QED
    BY <1>1, <1>6, <1>7, <2>1, <2>2, <2>3, ForestJoined
<1>10. Has(list, sel) <=> ContainsPath(tree, sel.path)
  BY ONLY <1>1, <1>6, <1>7, <1>8, HasJoined
<1>11. /\ Len(list) = 1 + Len(under) /\ list[1] = top
       /\ \A k \in 1..Len(under) : list[1 + k] = under[k]
  <2>1. /\ Len(a \o under) = Len(a) + Len(under)
        /\ \A k \in 1..Len(a) : (a \o under)[k] = a[k]
        /\ \A k \in 1..Len(under) : (a \o under)[Len(a) + k] = under[k]
    <3>1. IsList(a) /\ IsList(under)
      BY <1>7, <1>8
    <3> QED
      BY ONLY <3>1, Joined
  <2>2. Len(a) = 1 /\ 1 \in 1..Len(a) /\ a[1] = top
    BY ONLY <1>7
  <2>3. list[1] = top
    BY ONLY <1>1, <2>1, <2>2
  <2>4. Len(list) = 1 + Len(under) /\ \A k \in 1..Len(under) : list[1 + k] = under[k]
    BY ONLY <1>1, <2>1, <2>2
  <2> QED
    BY ONLY <2>3, <2>4
<1>12. ASSUME NEW k \in 2..Len(list)
       PROVE  list[k].kind # "source" /\ (list[k].kind = "entry" => list[k].src = i)
  <2> DEFINE x == k - 1
  <2>1. x \in 1..Len(under) /\ k = 1 + x
    BY <1>8, <1>11
  <2> HIDE DEF x
  <2>2. list[k] = under[x]
    BY <1>11, <2>1
  <2> QED
    BY <1>6, <1>8, <2>1, <2>2 DEF EntriesFrom
<1>13. first = i /\ ContainsPath(tree, sel.path) => list[1].expanded
  BY <1>2, <1>4, <1>5, <1>11
<1> QED
  BY <1>2, <1>8, <1>9, <1>10, <1>11, <1>12, <1>13

\* The source of a node is the nearest one before it.
InSource(list, s, i) ==
    s \in 1..i /\ list[s].kind = "source" /\ \A k \in (s + 1)..i : list[k].kind # "source"

LEMMA InSourceIs ==
  ASSUME NEW list, NEW i \in Nat, NEW s, InSource(list, s, i)
  PROVE  SourceAt(list, i) = s
<1> DEFINE S == {j \in 1..i : list[j].kind = "source"}
<1>1. S \in SUBSET (1..i) /\ s \in S /\ s \in 1..i
  BY DEF InSource
<1>2. Highest(S) \in S /\ \A j \in S : j <= Highest(S)
  <2> HIDE DEF S
  <2> QED
    BY <1>1, HighestIs
<1> DEFINE h == Highest(S)
<1>3. h \in 1..i /\ list[h].kind = "source" /\ s <= h
  BY <1>1, <1>2
<1>4. SourceAt(list, i) = h
  BY DEF SourceAt
<1> HIDE DEF h
<1>5. ~(h \in (s + 1)..i)
  BY <1>3 DEF InSource
<1> QED
  BY <1>1, <1>3, <1>4, <1>5

\* Sources with what is under them, numbered, up to the nth.
Counted(list, n) ==
    /\ IsList(list) /\ Len(list) > 0 /\ list[1].kind = "source" /\ list[1].src = 1
    /\ \A i \in 1..Len(list) : list[i].kind = "entry" =>
          \E s : InSource(list, s, i) /\ list[i].src = list[s].src
    /\ \A i \in 2..Len(list) : list[i].kind = "source" =>
          \E s : InSource(list, s, i - 1) /\ list[i].src = list[s].src + 1
    /\ \E s : InSource(list, s, Len(list)) /\ list[s].src = n

\* One of them.
IsChunk(list, n) ==
    /\ IsList(list) /\ Len(list) > 0 /\ list[1].kind = "source" /\ list[1].src = n
    /\ \A k \in 2..Len(list) :
          list[k].kind # "source" /\ (list[k].kind = "entry" => list[k].src = n)

\* The default's leaf is in a source that is expanded.
Opened(list, sel) ==
    \E i \in DOMAIN list :
        Wanted(list[i], sel) /\ \E s : InSource(list, s, i) /\ list[s].expanded

LEMMA InChunk ==
  ASSUME NEW n, NEW list, IsChunk(list, n), NEW i \in 1..Len(list)
  PROVE  InSource(list, 1, i)
<1>1. 1 \in 1..i /\ \A k \in (1 + 1)..i : k \in 2..Len(list)
  BY ListIs DEF IsChunk
<1> QED
  BY <1>1 DEF IsChunk, InSource

LEMMA ChunkCounted ==
  ASSUME NEW list, IsChunk(list, 1)
  PROVE  Counted(list, 1)
<1>1. /\ Len(list) \in Nat /\ Len(list) > 0 /\ Len(list) \in 1..Len(list) /\ IsList(list)
      /\ list[1].kind = "source" /\ list[1].src = 1
  BY ListIs DEF IsChunk
<1>2. ASSUME NEW i \in 1..Len(list), list[i].kind = "entry"
      PROVE  InSource(list, 1, i) /\ list[i].src = list[1].src
  <2>1. i # 1 /\ (i # 1 => i \in 2..Len(list))
    BY <1>1, <1>2
  <2> QED
    BY <1>2, <2>1, InChunk DEF IsChunk
<1>3. \A i \in 2..Len(list) : list[i].kind # "source"
  BY DEF IsChunk
<1>4. InSource(list, 1, Len(list))
  BY <1>1, InChunk
<1> QED
  BY <1>1, <1>2, <1>3, <1>4 DEF Counted

\* Where sources are in two lists that are put together.
LEMMA SourceInFirst ==
  ASSUME NEW a, IsList(a), NEW b, IsList(b), NEW i \in 1..Len(a), NEW s, InSource(a, s, i)
  PROVE  InSource(a \o b, s, i) /\ s \in 1..Len(a) /\ (a \o b)[s] = a[s] /\ (a \o b)[i] = a[i]
<1>1. Len(a) \in Nat /\ \A k \in 1..Len(a) : (a \o b)[k] = a[k]
  BY Joined, ListIs
<1>2. s \in 1..i /\ s \in 1..Len(a) /\ \A k \in (s + 1)..i : k \in 1..Len(a)
  BY <1>1 DEF InSource
<1> QED
  BY <1>1, <1>2 DEF InSource

LEMMA SourceInSecond ==
  ASSUME NEW a, IsList(a), NEW b, IsList(b), NEW i \in 1..Len(b), NEW s, InSource(b, s, i)
  PROVE  /\ InSource(a \o b, Len(a) + s, Len(a) + i) /\ s \in 1..Len(b)
         /\ (a \o b)[Len(a) + s] = b[s] /\ (a \o b)[Len(a) + i] = b[i]
<1> DEFINE m == Len(a)
           c == a \o b
<1>1. m \in Nat /\ Len(b) \in Nat /\ \A k \in 1..Len(b) : c[m + k] = b[k]
  BY Joined, ListIs
<1> HIDE DEF m, c
<1>2. s \in 1..i /\ s \in 1..Len(b) /\ m + s \in 1..(m + i)
  BY <1>1 DEF InSource
<1>3. ASSUME NEW k \in (m + s + 1)..(m + i)
      PROVE  c[k].kind # "source"
  <2> DEFINE x == k - m
  <2>1. x \in (s + 1)..i /\ x \in 1..Len(b) /\ k = m + x
    BY <1>1, <1>2
  <2> HIDE DEF x
  <2> QED
    BY <1>1, <2>1 DEF InSource
<1>4. InSource(c, m + s, m + i)
  BY <1>1, <1>2, <1>3 DEF InSource
<1> QED
  BY <1>1, <1>2, <1>4 DEF m, c

LEMMA CountedJoined ==
  ASSUME NEW n \in Nat, NEW a, Counted(a, n), NEW b, IsChunk(b, n + 1)
  PROVE  Counted(a \o b, n + 1)
<1> DEFINE c == a \o b
           m == Len(a)
<1>1. IsList(a) /\ IsList(b) /\ Len(a) \in Nat /\ Len(b) \in Nat /\ Len(a) > 0 /\ Len(b) > 0
  BY ListIs DEF Counted, IsChunk
<1>2. /\ IsList(c) /\ Len(c) = m + Len(b)
      /\ \A i \in 1..m : c[i] = a[i]
      /\ \A i \in 1..Len(b) : c[m + i] = b[i]
  BY <1>1, Joined
<1>3. \A i \in 1..m : \A s : InSource(a, s, i) => InSource(c, s, i) /\ c[s] = a[s]
  BY <1>1, SourceInFirst
<1>4. \A i \in 1..Len(b) : InSource(c, m + 1, m + i)
  <2>1. ASSUME NEW i \in 1..Len(b)
        PROVE  InSource(c, m + 1, m + i)
    BY <1>1, InChunk, SourceInSecond
  <2> QED
    BY <2>1
<1>5. m \in Nat /\ m > 0
  BY <1>1
<1>6. \E s : InSource(a, s, m) /\ a[s].src = n
  BY DEF Counted
<1> HIDE DEF c, m
<1>7. c[m + 1] = b[1] /\ b[1].src = n + 1 /\ b[1].kind = "source" /\ 1 \in 1..Len(b)
  BY <1>1, <1>2 DEF IsChunk
<1>8. 1 \in 1..m /\ c[1].kind = "source" /\ c[1].src = 1
  BY <1>2, <1>5 DEF Counted
<1>9. \A i \in 1..(m + Len(b)) : i \in 1..m \/ \E k \in 1..Len(b) : i = m + k
  BY <1>1, <1>5, JoinedPlace
<1>10. ASSUME NEW i \in 1..Len(c), c[i].kind = "entry"
       PROVE  \E s : InSource(c, s, i) /\ c[i].src = c[s].src
  <2>1. CASE i \in 1..m
    <3>1. PICK s : InSource(a, s, i) /\ a[i].src = a[s].src
      BY <1>2, <1>10, <2>1 DEF Counted, m
    <3> QED
      BY <1>2, <1>3, <2>1, <3>1
  <2>2. ASSUME NEW k \in 1..Len(b), i = m + k
        PROVE  \E s : InSource(c, s, i) /\ c[i].src = c[s].src
    <3>1. c[i] = b[k]
      BY <1>2, <2>2
    <3>2. k # 1 /\ (k # 1 => k \in 2..Len(b))
      BY <1>1, <1>7, <1>10, <3>1
    <3>3. b[k].src = n + 1
      BY <1>10, <3>1, <3>2 DEF IsChunk
    <3> QED
      BY <1>4, <1>7, <2>2, <3>1, <3>3
  <2> QED
    BY <1>2, <1>9, <2>1, <2>2
<1>11. ASSUME NEW i \in 2..Len(c), c[i].kind = "source"
       PROVE  \E s : InSource(c, s, i - 1) /\ c[i].src = c[s].src + 1
  <2>1. CASE i \in 1..m
    <3>1. i \in 2..m /\ i - 1 \in 1..m
      BY <1>5, <1>11, <2>1
    <3>2. PICK s : InSource(a, s, i - 1) /\ a[i].src = a[s].src + 1
      BY <1>2, <1>11, <2>1, <3>1 DEF Counted, m
    <3> QED
      BY <1>2, <1>3, <2>1, <3>1, <3>2
  <2>2. ASSUME NEW k \in 1..Len(b), i = m + k
        PROVE  \E s : InSource(c, s, i - 1) /\ c[i].src = c[s].src + 1
    <3>1. c[i] = b[k]
      BY <1>2, <2>2
    <3>2. k = 1
      <4>1. k # 1 => k \in 2..Len(b)
        BY <1>1
      <4> QED
        BY <1>11, <3>1, <4>1 DEF IsChunk
    <3>3. PICK s : InSource(a, s, m) /\ a[s].src = n
      BY <1>6
    <3>4. m \in 1..m /\ i - 1 = m
      BY <1>5, <2>2, <3>2
    <3>5. InSource(c, s, i - 1) /\ c[s].src = n
      BY <1>3, <3>3, <3>4
    <3> QED
      BY <1>7, <3>1, <3>2, <3>5
  <2>3. i \in 1..(m + Len(b))
    BY <1>1, <1>2, <1>5
  <2> QED
    BY <1>9, <2>1, <2>2, <2>3
<1>12. InSource(c, m + 1, Len(c)) /\ c[m + 1].src = n + 1
  <2>1. Len(b) \in 1..Len(b)
    BY <1>1
  <2> QED
    BY <1>2, <1>4, <1>7, <2>1
<1>13. Len(c) > 0
  BY <1>1, <1>2, <1>5
<1>14. Counted(c, n + 1)
  BY <1>2, <1>8, <1>10, <1>11, <1>12, <1>13 DEF Counted
<1> QED
  BY <1>14 DEF c

LEMMA OpenedJoined ==
  ASSUME NEW sel, NEW a, IsList(a), NEW b, IsList(b), Opened(a, sel) \/ Opened(b, sel)
  PROVE  Opened(a \o b, sel)
<1>1. DOMAIN a = 1..Len(a) /\ DOMAIN b = 1..Len(b) /\ Len(a) \in Nat /\ Len(b) \in Nat
  BY ListIs
<1>2. DOMAIN (a \o b) = 1..(Len(a) + Len(b))
  BY <1>1, Joined, ListIs
<1>3. ASSUME NEW i \in 1..Len(a), Wanted(a[i], sel), NEW s, InSource(a, s, i), a[s].expanded
      PROVE  Opened(a \o b, sel)
  <2>1. InSource(a \o b, s, i) /\ (a \o b)[s] = a[s] /\ (a \o b)[i] = a[i]
    BY <1>3, SourceInFirst
  <2>2. i \in DOMAIN (a \o b)
    BY <1>1, <1>2
  <2> QED
    BY <1>3, <2>1, <2>2 DEF Opened
<1>4. ASSUME NEW i \in 1..Len(b), Wanted(b[i], sel), NEW s, InSource(b, s, i), b[s].expanded
      PROVE  Opened(a \o b, sel)
  <2> DEFINE k == Len(a) + i
             t == Len(a) + s
  <2>1. InSource(a \o b, t, k) /\ (a \o b)[t] = b[s] /\ (a \o b)[k] = b[i]
    BY <1>4, SourceInSecond
  <2>2. k \in DOMAIN (a \o b)
    BY <1>1, <1>2
  <2> HIDE DEF k, t
  <2> QED
    BY <1>4, <2>1, <2>2 DEF Opened
<1> QED
  BY <1>1, <1>3, <1>4 DEF Opened

LEMMA ChunkOpened ==
  ASSUME NEW n, NEW sel, NEW list, IsChunk(list, n), Has(list, sel), list[1].expanded
  PROVE  Opened(list, sel)
<1>1. PICK i \in DOMAIN list : Wanted(list[i], sel)
  BY DEF Has
<1>2. InSource(list, 1, i)
  BY InChunk, ListIs DEF IsChunk
<1> QED
  BY <1>1, <1>2 DEF Opened

\* All the sources one after the other.
LEMMA SourcesFlattened ==
  ASSUME NEW sel, NEW seqs, Len(seqs) \in Nat, \A i \in 1..Len(seqs) : IsChunk(seqs[i], i),
         NEW f, f[1] = seqs[1], \A i \in 2..Len(seqs) : f[i] = f[i - 1] \o seqs[i]
  PROVE  \A n \in 1..Len(seqs) :
            Counted(f[n], n) /\ ((\E i \in 1..n : Opened(seqs[i], sel)) => Opened(f[n], sel))
<1> DEFINE Good(n) == Counted(f[n], n) /\ ((\E i \in 1..n : Opened(seqs[i], sel)) => Opened(f[n], sel))
           Bad == {n \in 1..Len(seqs) : ~Good(n)}
<1>1. SUFFICES ASSUME Bad # {} PROVE FALSE
  OBVIOUS
<1>2. PICK n \in Bad : \A k \in Bad : n <= k
  <2>1. Bad \in SUBSET Nat
    OBVIOUS
  <2> QED
    BY <1>1, <2>1, LeastNat
<1>3. n \in 1..Len(seqs) /\ ~Good(n)
  BY <1>2
<1>4. n # 1
  <2>1. 1 \in 1..Len(seqs) => Good(1)
    <3>1. ASSUME 1 \in 1..Len(seqs)
          PROVE  Counted(f[1], 1)
      BY <3>1, ChunkCounted
    <3>2. \A i \in 1..1 : i = 1
      OBVIOUS
    <3>3. (\E i \in 1..1 : Opened(seqs[i], sel)) => Opened(f[1], sel)
      BY <3>2
    <3> QED
      BY <3>1, <3>3
  <2> QED
    BY <1>3, <2>1
<1>5. n - 1 \in 1..Len(seqs) /\ n - 1 \notin Bad /\ n \in 2..Len(seqs) /\ (n - 1) + 1 = n
  BY <1>2, <1>3, <1>4
<1>6. Good(n - 1) /\ f[n] = f[n - 1] \o seqs[n] /\ IsChunk(seqs[n], n)
  BY <1>5
<1>7. IsList(f[n - 1]) /\ IsList(seqs[n])
  BY <1>6 DEF Counted, IsChunk
<1>8. Counted(f[n], n)
  <2>1. n - 1 \in Nat
    BY <1>5
  <2> QED
    BY <1>5, <1>6, <2>1, CountedJoined
<1>9. ASSUME NEW i \in 1..n, Opened(seqs[i], sel)
      PROVE  Opened(f[n], sel)
  <2>1. i = n \/ i \in 1..(n - 1)
    BY <1>3
  <2>2. Opened(f[n - 1], sel) \/ Opened(seqs[n], sel)
    BY <1>6, <1>9, <2>1
  <2> QED
    BY <1>6, <1>7, <2>2, OpenedJoined
<1> QED
  BY <1>3, <1>8, <1>9

\* If a source has the default's leaf, then the one that is chosen has it.
LEMMA DefaultSourceHas ==
  ASSUME NEW trees, DOMAIN trees = 1..Len(trees), Len(trees) \in Nat, NEW sel,
         NEW i \in DOMAIN trees, ContainsPath(trees[i], sel.path)
  PROVE  /\ DefaultSource(trees, sel) \in DOMAIN trees
         /\ ContainsPath(trees[DefaultSource(trees, sel)], sel.path)
<1> DEFINE S == {j \in 1..Len(trees) : ContainsPath(trees[j], sel.path)}
<1>1. i \in S /\ S \in SUBSET Nat
  OBVIOUS
<1>2. \E j \in S : \A k \in S : j <= k
  BY <1>1, LeastNat
<1>3. DefaultSource(trees, sel) = Min(S)
  BY <1>1 DEF DefaultSource, SelectInSeq
<1>4. Min(S) \in S
  BY <1>2 DEF Min
<1> QED
  BY <1>3, <1>4

\* The list that the sources and their trees make, before its flags are computed.
Laid(found) ==
    LET sel == found.default
        first == DefaultSource(found.trees, sel)
    IN  FlattenSeq([i \in DOMAIN found.trees |-> ChunkOf(found, i, first, sel)])

LEMMA LaidIs ==
  ASSUME NEW found, IsGiven(found), NEW sel, sel = found.default, NEW list, list = Laid(found)
  PROVE  /\ IsForest(list, 0, sel) /\ Len(list) > 0 /\ \E n : Counted(list, n)
         /\ Has(list, sel) => Opened(list, sel)
<1> DEFINE trees == found.trees
           first == DefaultSource(trees, sel)
           seqs == [i \in DOMAIN trees |-> ChunkOf(found, i, first, sel)]
<1>1. list = FlattenSeq(seqs)
  BY DEF Laid
<1>2. DOMAIN trees = 1..Len(trees) /\ Len(trees) \in Nat \ {0}
  BY DEF IsGiven
<1>3. ASSUME NEW i \in DOMAIN trees, NEW x, x = seqs[i]
      PROVE  /\ IsForest(x, 0, sel) /\ Len(x) > 0
             /\ Has(x, sel) <=> ContainsPath(trees[i], sel.path)
             /\ IsChunk(x, i)
             /\ first = i /\ ContainsPath(trees[i], sel.path) => x[1].expanded
  <2>1. x = ChunkOf(found, i, first, sel)
    BY <1>3
  <2> HIDE DEF first
  <2>2. /\ IsForest(x, 0, sel) /\ Len(x) > 0
        /\ Has(x, sel) <=> ContainsPath(trees[i], sel.path)
        /\ x[1].kind = "source" /\ x[1].src = i
        /\ \A k \in 2..Len(x) : x[k].kind # "source" /\ (x[k].kind = "entry" => x[k].src = i)
        /\ first = i /\ ContainsPath(trees[i], sel.path) => x[1].expanded
    BY <2>1, SourceChunk
  <2> QED
    BY <2>2 DEF IsChunk, IsForest
<1>4. DOMAIN seqs = 1..Len(trees) /\ Len(seqs) = Len(trees)
  BY <1>2
<1>5. \A i \in 1..Len(trees) :
         /\ IsForest(seqs[i], 0, sel) /\ Len(seqs[i]) > 0
         /\ Has(seqs[i], sel) <=> ContainsPath(trees[i], sel.path)
         /\ IsChunk(seqs[i], i)
         /\ first = i /\ ContainsPath(trees[i], sel.path) => seqs[i][1].expanded
  <2> HIDE DEF first, seqs
  <2> QED
    BY <1>2, <1>3
<1> HIDE DEF seqs
<1>6. PICK f : /\ f[1] = seqs[1] /\ \A i \in 2..Len(seqs) : f[i] = f[i - 1] \o seqs[i]
               /\ FlattenSeq(seqs) = f[Len(seqs)]
  BY <1>2, <1>4, Flattened
<1> DEFINE n == Len(seqs)
<1>7. n \in 1..Len(seqs)
  BY <1>2, <1>4
<1>8. /\ IsForest(f[n], 0, sel) /\ Len(f[n]) > 0
      /\ Has(f[n], sel) <=> \E i \in 1..n : Has(seqs[i], sel)
  <2>1. \A i \in 1..Len(seqs) : IsForest(seqs[i], 0, sel) /\ Len(seqs[i]) > 0
    BY <1>4, <1>5
  <2>2. 0 \in Nat /\ Len(seqs) \in Nat
    BY <1>2, <1>4
  <2>3. \A k \in 1..Len(seqs) :
           /\ IsForest(f[k], 0, sel) /\ Len(f[k]) > 0
           /\ Has(f[k], sel) <=> \E i \in 1..k : Has(seqs[i], sel)
    BY ONLY <1>6, <2>1, <2>2, ForestFlattened
  <2> QED
    BY <1>7, <2>3
<1>9. Counted(f[n], n) /\ ((\E i \in 1..n : Opened(seqs[i], sel)) => Opened(f[n], sel))
  <2>1. \A i \in 1..Len(seqs) : IsChunk(seqs[i], i)
    BY <1>4, <1>5
  <2> HIDE DEF n
  <2> QED
    BY <1>2, <1>4, <1>6, <1>7, <2>1, SourcesFlattened
<1>10. ASSUME Has(f[n], sel)
       PROVE  Opened(f[n], sel)
  <2>1. PICK i \in 1..n : Has(seqs[i], sel)
    BY <1>8, <1>10
  <2>2. i \in DOMAIN trees /\ ContainsPath(trees[i], sel.path)
    BY <1>2, <1>4, <1>5, <2>1
  <2>3. first \in DOMAIN trees /\ ContainsPath(trees[first], sel.path)
    BY <1>2, <2>2, DefaultSourceHas
  <2> HIDE DEF first
  <2>4. Has(seqs[first], sel) /\ IsChunk(seqs[first], first) /\ seqs[first][1].expanded
    BY <1>2, <1>5, <2>3
  <2>5. Opened(seqs[first], sel)
    BY <2>4, ChunkOpened
  <2>6. first \in 1..n
    BY <1>2, <1>4, <2>3
  <2> QED
    BY <1>9, <2>5, <2>6
<1>11. list = f[n]
  BY <1>1, <1>6
<1> HIDE DEF n
<1> QED
  BY <1>8, <1>9, <1>10, <1>11

\* Which is as the keys need it.
LEMMA LaidIsView ==
  ASSUME NEW sel, NEW list, IsForest(list, 0, sel), NEW n, Counted(list, n)
  PROVE  IsView(list) /\ IsNumbered(list)
<1>1. Len(list) \in Nat \ {0} /\ DOMAIN list = 1..Len(list)
  BY ListIs DEF IsForest, Counted
<1>2. \A i \in DOMAIN list : IsNode(list[i])
  BY DEF IsForest
<1>3. ASSUME NEW i \in 2..Len(list)
      PROVE  /\ list[i].kind = "entry" =>
                   \/ list[i - 1].kind = "leaf" /\ list[i].depth = list[i - 1].depth + 1
                   \/ list[i - 1].kind = "entry" /\ list[i].depth = list[i - 1].depth
             /\ list[i - 1].kind = "entry" => list[i].depth <= list[i - 1].depth
             /\ list[i].depth <= list[i - 1].depth + 1
  BY <1>3 DEF IsForest, Follows
<1>4. IsView(list)
  BY <1>1, <1>2, <1>3 DEF IsView, IsNode, Counted
<1>5. ASSUME NEW i \in DOMAIN list \ {1}
      PROVE  /\ list[i].depth <= list[i - 1].depth + 1
             /\ list[i].kind = "source" => list[i].src = list[SourceAt(list, i - 1)].src + 1
  <2>1. i \in 2..Len(list) /\ i - 1 \in Nat
    BY <1>1
  <2>2. list[i].kind = "source" => \E s : InSource(list, s, i - 1) /\ list[i].src = list[s].src + 1
    BY <2>1 DEF Counted
  <2> QED
    BY <1>3, <2>1, <2>2, InSourceIs
<1>6. ASSUME NEW i \in DOMAIN list
      PROVE  /\ list[i].kind = "entry" => list[i].src = list[SourceAt(list, i)].src
             /\ list[i].expanded => Toggles(list[i])
  <2>1. i \in 1..Len(list) /\ i \in Nat
    BY <1>1
  <2>2. list[i].kind = "entry" => \E s : InSource(list, s, i) /\ list[i].src = list[s].src
    BY <2>1 DEF Counted
  <2>3. list[i].expanded => Toggles(list[i])
    BY <1>2 DEF IsNode
  <2> QED
    BY <2>1, <2>2, <2>3, InSourceIs
<1>7. list[1].src = 1
  BY DEF Counted
<1> QED
  BY <1>4, <1>5, <1>6, <1>7 DEF IsNumbered

\* One field of every node is computed.
DifferInFlags(list, new) ==
    \E g : new = [i \in DOMAIN list |-> [list[i] EXCEPT !.visible = g[i]]]

LEMMA FlagsOnly ==
  ASSUME NEW list, Len(list) \in Nat, NEW new, new = RecomputeVisibility(list)
  PROVE  DifferInFlags(list, new)
<1>1. PICK f : /\ IsScan(list, f)
               /\ new = [i \in DOMAIN list |->
                            [list[i] EXCEPT !.visible = (HiddenAt(f[i - 1], list[i]) = NotHidden)]]
  BY Recomputed
<1> DEFINE g == [i \in DOMAIN list |-> HiddenAt(f[i - 1], list[i]) = NotHidden]
<1>2. new = [i \in DOMAIN list |-> [list[i] EXCEPT !.visible = g[i]]]
  BY <1>1
<1> HIDE DEF g
<1> QED
  BY <1>2 DEF DifferInFlags

\* To compute the flags again changes nothing.
LEMMA RecomputedTwice ==
  ASSUME NEW list, IsView(list), NEW new, new = RecomputeVisibility(list)
  PROVE  IsView(new) /\ new = RecomputeVisibility(new)
<1>1. /\ Len(list) \in Nat /\ DOMAIN list = 1..Len(list)
      /\ \A i \in DOMAIN list :
            /\ list[i].expanded \in BOOLEAN /\ (list[i].kind = "entry" => ~list[i].expanded)
            /\ DOMAIN list[i] = Fields
  BY DEF IsView
<1>2. /\ DOMAIN new = DOMAIN list /\ Len(new) = Len(list)
      /\ \A i \in DOMAIN list :
            /\ DOMAIN new[i] = Fields
            /\ new[i].kind = list[i].kind /\ new[i].depth = list[i].depth
            /\ new[i].expanded = list[i].expanded /\ new[i].visible \in BOOLEAN
            /\ new[i].visible <=> \A j \in Above(list, i) : list[j].expanded
  BY RecomputedView
<1>3. IsView(new) /\ \A i \in DOMAIN list : Above(new, i) = Above(list, i)
  BY <1>1, <1>2, ViewKept
<1>4. PICK again : again = RecomputeVisibility(new)
  OBVIOUS
<1>5. \A i \in DOMAIN list :
         /\ again[i].visible \in BOOLEAN
         /\ again[i].visible <=> \A j \in Above(new, i) : new[j].expanded
  BY <1>2, <1>3, <1>4, RecomputedView
<1>6. ASSUME NEW i \in DOMAIN list
      PROVE  again[i].visible = new[i].visible
  <2>1. \A j \in Above(list, i) : j \in DOMAIN list
    BY <1>1 DEF Above
  <2>2. again[i].visible <=> new[i].visible
    BY <1>2, <1>3, <1>5, <2>1
  <2> QED
    BY <1>2, <1>5, <2>2
<1>7. PICK g : new = [i \in DOMAIN list |-> [list[i] EXCEPT !.visible = g[i]]]
  <2>1. DifferInFlags(list, new)
    BY <1>1, FlagsOnly
  <2> QED
    BY ONLY <2>1 DEF DifferInFlags
<1>8. PICK h : again = [i \in DOMAIN new |-> [new[i] EXCEPT !.visible = h[i]]]
  <2>1. Len(new) \in Nat
    BY <1>1, <1>2
  <2>2. DifferInFlags(new, again)
    BY <1>4, <2>1, FlagsOnly
  <2> QED
    BY ONLY <2>2 DEF DifferInFlags
<1>9. ASSUME NEW i \in DOMAIN list
      PROVE  again[i] = new[i]
  <2>1. again[i] = [new[i] EXCEPT !.visible = h[i]] /\ new[i] = [list[i] EXCEPT !.visible = g[i]]
    BY <1>2, <1>7, <1>8
  <2>2. DOMAIN new[i] = Fields /\ "visible" \in Fields
    BY <1>2 DEF Fields
  <2>3. again[i].visible = h[i]
    BY <2>1, <2>2
  <2>4. h[i] = new[i].visible
    BY <1>6, <2>3
  <2>5. [new[i] EXCEPT !.visible = new[i].visible] = new[i]
    BY ONLY <2>1, <2>2
  <2> QED
    BY <2>1, <2>4, <2>5
<1>10. again = new
  BY <1>2, <1>7, <1>8, <1>9
<1> QED
  BY <1>3, <1>4, <1>10

\* What TreeView::build makes of what is given.
LEMMA BuildIs ==
  ASSUME NEW found, IsGiven(found), NEW sel, sel = found.default,
         NEW list, list = Laid(found), NEW new, new = BuildNodes(found)
  PROVE  /\ IsView(list) /\ IsNumbered(list) /\ DOMAIN new = DOMAIN list /\ Len(new) = Len(list)
         /\ IsView(new) /\ new = RecomputeVisibility(new)
         /\ \A i \in DOMAIN list :
               /\ Lasting(new[i]) = Lasting(list[i]) /\ new[i].expanded = list[i].expanded
               /\ new[i].visible <=> \A j \in Above(list, i) : list[j].expanded
<1>1. new = RecomputeVisibility(list)
  BY DEF BuildNodes, Laid, ChunkOf
<1>2. IsView(list) /\ IsNumbered(list)
  BY LaidIs, LaidIsView
<1> QED
  BY <1>1, <1>2, RecomputedTwice, RecomputedView

\* The numbers stay with the flags changed.
LEMMA NumberedKept ==
  ASSUME NEW list, IsView(list), IsNumbered(list), NEW new, DOMAIN new = DOMAIN list,
         \A i \in DOMAIN list :
            Lasting(new[i]) = Lasting(list[i]) /\ new[i].expanded = list[i].expanded
  PROVE  IsNumbered(new)
<1>1. Len(list) \in Nat \ {0} /\ DOMAIN list = 1..Len(list)
  BY DEF IsView
<1>2. \A i \in DOMAIN list :
         /\ new[i].kind = list[i].kind /\ new[i].depth = list[i].depth
         /\ new[i].src = list[i].src /\ new[i].state = list[i].state
         /\ new[i].expanded = list[i].expanded
  BY DEF Lasting
<1>3. ASSUME NEW i \in DOMAIN list
      PROVE  SourceAt(new, i) = SourceAt(list, i) /\ new[SourceAt(new, i)].src = list[SourceAt(list, i)].src
  <2> DEFINE S == {j \in 1..i : list[j].kind = "source"}
  <2>1. \A j \in 1..i : j \in DOMAIN list
    BY <1>1
  <2>2. {j \in 1..i : new[j].kind = "source"} = S
    BY <1>2, <2>1
  <2>3. SourceAt(new, i) = Highest(S) /\ SourceAt(list, i) = Highest(S)
    BY <2>2 DEF SourceAt
  <2>4. 1 \in S /\ S \in SUBSET (1..i) /\ i \in Nat
    BY <1>1 DEF IsView
  <2> HIDE DEF S
  <2>5. Highest(S) \in 1..i
    BY <2>4, HighestIs
  <2> QED
    BY <1>2, <2>1, <2>3, <2>5
<1>4. ASSUME NEW i \in DOMAIN list \ {1}
      PROVE  /\ new[i].depth <= new[i - 1].depth + 1
             /\ new[i].kind = "source" => new[i].src = new[SourceAt(new, i - 1)].src + 1
  <2>1. i - 1 \in DOMAIN list
    BY <1>1
  <2> QED
    BY <1>2, <1>3, <2>1 DEF IsNumbered
<1>5. new[1].src = 1
  BY <1>1, <1>2 DEF IsNumbered
<1>6. ASSUME NEW i \in DOMAIN list
      PROVE  /\ new[i].kind = "entry" => new[i].src = new[SourceAt(new, i)].src
             /\ new[i].expanded => Toggles(new[i])
  BY <1>2, <1>3 DEF IsNumbered, Toggles
<1> QED
  BY <1>4, <1>5, <1>6 DEF IsNumbered

\* Everything the theorems about the keys assume of the lists holds of the lists that
\* are built, whatever the boot trees, the states of the sources and the default are:
\* the numbers, depths and flags that TreeView::build gives the nodes are consistent.
THEOREM BuildAssures == AreBuilt(BuildViews)
<1>1. ASSUME NEW l \in DOMAIN BuildViews
      PROVE  /\ IsView(BuildViews[l]) /\ IsNumbered(BuildViews[l])
             /\ BuildViews[l] = RecomputeVisibility(BuildViews[l])
  <2>1. l \in DOMAIN Given /\ BuildViews[l] = BuildNodes(Given[l])
    BY <1>1 DEF BuildViews
  <2>2. IsGiven(Given[l])
    BY <2>1, TreesAssumption
  <2>3. PICK list : list = Laid(Given[l])
    OBVIOUS
  <2>4. PICK new : new = BuildNodes(Given[l])
    OBVIOUS
  <2>5. IsView(new) /\ IsNumbered(new) /\ new = RecomputeVisibility(new)
    BY <2>2, <2>3, <2>4, BuildIs, NumberedKept
  <2> QED
    BY <2>1, <2>4, <2>5
<1> QED
  BY <1>1 DEF AreBuilt

\* A set of places of a list with one member.
LEMMA OnePlace ==
  ASSUME NEW n \in Nat, NEW S \in SUBSET (1..n), Cardinality(S) = 1
  PROVE  \E p \in 1..n : S = {p}
<1>1. IsFiniteSet(1..n)
  BY FS_Interval
<1>2. IsFiniteSet(S)
  BY <1>1, FS_Subset
<1>3. \E x : S = {x}
  BY <1>2, FS_Singleton
<1> QED
  BY <1>3

LEMMA OfOne ==
  ASSUME NEW p \in Nat
  PROVE  Highest({p}) = p /\ Lowest({p}) = p
BY DEF Highest, Lowest

\* TreeView::build shows the default that is passed to it, under the cursor, and what
\* boot_default reads back from the list is that default: whatever there is in the boot
\* trees, if one entry only has its path and name.
THEOREM BuildShowsDefault ==
  ASSUME NEW found, IsGiven(found), Unambiguous(found.default, BuildNodes(found))
  PROVE  ShowsDefault(BuildNodes(found), found.default)
<1>1. PICK sel : sel = found.default
  OBVIOUS
<1>2. PICK list : list = Laid(found)
  OBVIOUS
<1>3. PICK new : new = BuildNodes(found)
  OBVIOUS
<1>4. /\ IsView(list) /\ DOMAIN new = DOMAIN list
      /\ \A i \in DOMAIN list :
            /\ Lasting(new[i]) = Lasting(list[i])
            /\ new[i].visible <=> \A j \in Above(list, i) : list[j].expanded
  BY <1>1, <1>2, <1>3, BuildIs
<1>5. /\ Len(list) \in Nat /\ DOMAIN list = 1..Len(list)
      /\ \A i \in DOMAIN list : list[i].depth \in Nat /\ (list[i].kind = "source" <=> list[i].depth = 0)
  BY <1>4 DEF IsView
<1>6. \A i \in DOMAIN list :
         /\ new[i].kind = list[i].kind /\ new[i].name = list[i].name
         /\ new[i].path = list[i].path /\ new[i].default = list[i].default
  BY <1>4 DEF Lasting
<1>7. IsForest(list, 0, sel) /\ (Has(list, sel) => Opened(list, sel))
  BY <1>1, <1>2, LaidIs
<1>8. Unambiguous(sel, new)
  BY <1>1, <1>3
<1>9. PICK p \in 1..Len(list) : DefaultsOf(new) = {p}
  <2>1. DefaultsOf(new) \in SUBSET (1..Len(list)) /\ Cardinality(DefaultsOf(new)) = 1
    BY <1>4, <1>5, <1>8 DEF DefaultsOf, Unambiguous
  <2> QED
    BY <1>5, <2>1, OnePlace
<1>10. PICK w \in 1..Len(list) : \A i \in DOMAIN list : Wanted(list[i], sel) <=> i = w
  <2> DEFINE S == {i \in DOMAIN new : new[i].kind = "leaf" /\ new[i].path = sel.path}
  <2>1. S \in SUBSET (1..Len(list)) /\ Cardinality(S) = 1
    BY <1>4, <1>5, <1>8 DEF Unambiguous
  <2>2. \A i \in DOMAIN list : i \in S <=> Wanted(list[i], sel)
    BY <1>4, <1>6 DEF Wanted
  <2> HIDE DEF S
  <2>3. PICK w \in 1..Len(list) : S = {w}
    BY <1>5, <2>1, OnePlace
  <2> QED
    BY <2>2, <2>3
<1>11. p \in DOMAIN list /\ list[p].default
  <2>1. p \in DefaultsOf(new)
    BY <1>9
  <2> QED
    BY <1>4, <1>6, <2>1 DEF DefaultsOf
<1>12. /\ list[p].kind = "entry" /\ list[p].name = sel.entry
       /\ w \in 1..(p - 1) /\ Wanted(list[w], sel) /\ \A k \in (w + 1)..p : list[k].kind = "entry"
  <2>1. MarksWanted(list, sel)
    BY <1>7 DEF IsForest
  <2>2. /\ list[p].kind = "entry" /\ list[p].name = sel.entry
        /\ \E j \in 1..(p - 1) : Wanted(list[j], sel) /\ \A k \in (j + 1)..p : list[k].kind = "entry"
    BY <1>11, <2>1 DEF MarksWanted
  <2>3. \A j \in 1..(p - 1) : j \in DOMAIN list
    BY <1>5, <1>9
  <2> QED
    BY <1>10, <2>2, <2>3
<1>13. w \in DOMAIN list /\ w \in Nat /\ p \in Nat
  BY <1>5
<1>14. PICK s : InSource(list, s, w) /\ list[s].expanded
  <2>1. Has(list, sel)
    BY <1>12, <1>13 DEF Has
  <2>2. PICK i \in DOMAIN list : Wanted(list[i], sel) /\ \E s : InSource(list, s, i) /\ list[s].expanded
    BY <1>7, <2>1 DEF Opened
  <2> QED
    BY <1>10, <2>2
<1>15. list[w].expanded /\ \A j \in Above(list, w) : list[j].kind # "source" => list[j].expanded
  <2>1. OpensWanted(list, sel)
    BY <1>7 DEF IsForest
  <2> QED
    BY <1>12, <1>13, <2>1 DEF OpensWanted
<1>16. ASSUME NEW x \in Above(list, p)
       PROVE  list[x].expanded
  <2>1. /\ x \in 1..(p - 1) /\ x \in DOMAIN list /\ list[x].kind # "entry"
        /\ \A k \in (x + 1)..p : list[x].depth < list[k].depth
    BY <1>4, <1>11, <1>16, AboveIsOpen DEF Above
  <2>2. ~(x \in (w + 1)..p)
    BY <1>12, <2>1
  <2>3. x <= w
    BY <1>12, <1>13, <2>1, <2>2
  <2>4. CASE x = w
    BY <1>15, <2>4
  <2>5. CASE x < w
    <3>1. x \in 1..(w - 1) /\ \A k \in (x + 1)..w : k \in (x + 1)..p /\ k \in DOMAIN list
      BY <1>5, <1>12, <1>13, <2>1, <2>5
    <3>2. x \in Above(list, w)
      BY <2>1, <3>1 DEF Above
    <3>3. CASE list[x].kind = "source"
      <4>1. list[x].depth = 0
        BY <1>5, <2>1, <3>3
      <4>2. \A k \in (x + 1)..w : list[k].depth \in Nat /\ 0 < list[k].depth
        BY <1>5, <2>1, <3>1, <4>1
      <4>3. \A k \in (x + 1)..w : list[k].kind # "source"
        BY <1>5, <3>1, <4>2
      <4>4. x \in 1..w
        BY <1>13, <3>1
      <4>5. InSource(list, x, w)
        BY <3>3, <4>3, <4>4 DEF InSource
      <4>6. x = s
        BY <1>13, <1>14, <4>5, InSourceIs
      <4> QED
        BY <1>14, <4>6
    <3> QED
      BY <1>15, <3>2, <3>3
  <2> QED
    BY <1>13, <2>1, <2>3, <2>4, <2>5
<1>17. new[p].visible
  BY <1>4, <1>11, <1>16
<1>18. Lowest(DefaultsOf(new)) = p /\ BuildCursor(new) = p
  <2>1. Highest(DefaultsOf(new)) = p /\ Lowest(DefaultsOf(new)) = p /\ DefaultsOf(new) # {}
    BY <1>9, <1>13, OfOne
  <2> QED
    BY <1>17, <2>1 DEF BuildCursor
<1>19. LeafPathOf(new, p) = sel.path
  <2> DEFINE S == {j \in 1..p : new[j].kind = "leaf"}
  <2>1. S \in SUBSET (1..p) /\ \A j \in S : j \in DOMAIN list /\ list[j].kind = "leaf" /\ j \in Nat
    BY <1>5, <1>6
  <2>2. w \in S /\ new[w].path = sel.path
    BY <1>6, <1>12, <1>13 DEF Wanted
  <2>3. LeafPathOf(new, p) = new[Highest(S)].path
    BY DEF LeafPathOf
  <2> HIDE DEF S
  <2>4. Highest(S) \in S /\ \A j \in S : j <= Highest(S)
    BY <1>13, <2>1, <2>2, HighestIs
  <2> DEFINE h == Highest(S)
  <2>5. h \in S /\ w <= h /\ h \in 1..p /\ h \in Nat /\ list[h].kind = "leaf"
    BY <2>1, <2>2, <2>4
  <2> HIDE DEF h
  <2>6. ~(h \in (w + 1)..p)
    BY <1>12, <2>5
  <2>7. h = w
    BY <1>13, <2>5, <2>6
  <2> QED
    BY <2>2, <2>3, <2>7 DEF h
<1>20. new[p].name = sel.entry
  BY <1>6, <1>11, <1>12
<1>21. ShowsDefault(new, sel)
  BY <1>17, <1>18, <1>19, <1>20 DEF ShowsDefault
<1> QED
  BY <1>1, <1>3, <1>21

\* A view that is built anew shows its default under the cursor, whatever trees are found
\* and whatever keys came before.
THEOREM TreeViewDefault ==
  ASSUME Views = BuildViews
  PROVE  Spec => []DefaultUnderCursor
<1>1. TypeOK => DefaultUnderCursor
  <2>1. ASSUME layout \in Layouts, Unambiguous(DefaultIn[layout], Built[layout])
        PROVE  ShowsDefault(Built[layout], DefaultIn[layout])
    <3>1. layout \in DOMAIN Given /\ Built[layout] = BuildNodes(Given[layout])
      BY <2>1 DEF Layouts, Built, BuildViews
    <3>2. DefaultIn[layout] = Given[layout].default
      BY <2>1 DEF DefaultIn
    <3>3. IsGiven(Given[layout])
      BY <3>1, TreesAssumption
    <3> QED
      BY <2>1, <3>1, <3>2, <3>3, BuildShowsDefault
  <2> QED
    BY <2>1 DEF TypeOK, DefaultUnderCursor
<1> QED
  BY <1>1, NodeListTypeOK, PTL

=============================================================================
