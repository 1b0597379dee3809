-------------------------- MODULE BootSelectProofs --------------------------
(***************************************************************************)
(* What resolve_default selects, for any trees and any EFI variable: an    *)
(* entry that is there, and one that docs/spec.md allows.                  *)
(*                                                                         *)
(* Both of its rules take the newest of some leaves, and of those the last *)
(* or the first.  That there is one is what has to be shown first.         *)
(***************************************************************************)
EXTENDS BootSelect, FiniteSetTheorems, FunctionTheorems, WellFoundedInduction, TLAPS

----------------------------------------------------------------------------
(* Least and greatest numbers *)

\* Numbers of a set go no lower for ever.
LEMMA LeastNat ==
  ASSUME NEW S \in SUBSET Nat, S # {}
  PROVE  \E n \in S : \A m \in S : n <= m
<1>1. PICK n \in S : \A m \in S : ~(<<m, n>> \in OpToRel(<, Nat))
  BY WFMin, NatLessThanWellFounded
<1>2. \A m \in S : ~(m < n)
  BY <1>1 DEF OpToRel
<1> QED
  BY <1>2

\* Nor higher, if there is a bound.
LEMMA GreatestNat ==
  ASSUME NEW S \in SUBSET Nat, S # {}, NEW b \in Nat, \A n \in S : n <= b
  PROVE  \E n \in S : \A m \in S : m <= n
<1> DEFINE T == {k \in Nat : b - k \in S}
<1>1. \A n \in S : b - n \in T
  OBVIOUS
<1>2. PICK k \in T : \A j \in T : k <= j
  BY <1>1, LeastNat
<1> QED
  BY <1>1, <1>2

\* A finite set of numbers that is not empty has a greatest one: with the fewest above
\* it.
LEMMA GreatestInt ==
  ASSUME NEW S \in SUBSET Int, S # {}, IsFiniteSet(S)
  PROVE  \E n \in S : \A m \in S : m <= n
<1> DEFINE Above(n) == {m \in S : m > n}
           C == {c \in Nat : \E n \in S : c = Cardinality(Above(n))}
<1>1. \A n \in S : IsFiniteSet(Above(n)) /\ Cardinality(Above(n)) \in Nat
  <2> TAKE n \in S
  <2>1. Above(n) \in SUBSET S
    OBVIOUS
  <2> QED
    BY <2>1, FS_Subset, FS_CardinalityType
<1>2. C # {}
  BY <1>1
<1>3. PICK c \in C : \A d \in C : c <= d
  BY <1>2, LeastNat
<1>4. PICK n \in S : c = Cardinality(Above(n))
  OBVIOUS
<1>5. ASSUME NEW m \in S, m > n
      PROVE  FALSE
  <2>0. \A x \in Above(m) : x \in S /\ x > n /\ x # m
    BY <1>5
  <2>1. Above(m) \in SUBSET (Above(n) \ {m})
    BY <2>0
  <2>2. m \in Above(n)
    BY <1>5
  <2>3. /\ IsFiniteSet(Above(n) \ {m})
        /\ Cardinality(Above(n) \ {m}) = c - 1
    BY <1>1, <1>4, <2>2, FS_RemoveElement
  <2>4. Cardinality(Above(m)) <= c - 1
    BY <2>1, <2>3, FS_Subset
  <2>5. Cardinality(Above(m)) \in C
    BY <1>1
  <2> QED
    BY <1>3, <2>4, <2>5
<1> QED
  BY <1>5

----------------------------------------------------------------------------
(* Leaves of trees *)

LEMMA PlacesMember ==
  ASSUME NEW trs, NEW p
  PROVE  p \in Places(trs) <=> \E i \in DOMAIN trs : \E j \in DOMAIN trs[i] : p = <<i, j>>
BY DEF Places

LEMMA PlacesNat ==
  ASSUME NEW trs, WellFormed(trs), NEW p \in Places(trs)
  PROVE  /\ p = <<p[1], p[2]>> /\ p[1] \in Nat /\ p[2] \in Nat
         /\ p[1] \in DOMAIN trs /\ p[2] \in DOMAIN trs[p[1]]
         /\ Len(trs) \in Nat /\ Len(trs[p[1]]) \in Nat
         /\ p[1] <= Len(trs) /\ p[2] <= Len(trs[p[1]])
         /\ IsLeaf(LeafAt(trs, p))
<1>1. PICK i \in DOMAIN trs : \E j \in DOMAIN trs[i] : p = <<i, j>>
  BY PlacesMember
<1>2. PICK j \in DOMAIN trs[i] : p = <<i, j>>
  BY <1>1
<1>3. trs \in Seq({trs[k] : k \in DOMAIN trs}) /\ trs[i] \in Seq({trs[i][k] : k \in DOMAIN trs[i]})
  BY DEF WellFormed, IsTree
<1>4. i \in 1..Len(trs) /\ Len(trs) \in Nat
  BY <1>3
<1>5. j \in 1..Len(trs[i]) /\ Len(trs[i]) \in Nat
  BY <1>3
<1>6. IsLeaf(LeafAt(trs, p))
  BY <1>2 DEF WellFormed, IsTree, LeafAt
<1> QED
  BY <1>2, <1>4, <1>5, <1>6

\* There are finitely many leaves.
LEMMA PlacesFinite ==
  ASSUME NEW trs, WellFormed(trs)
  PROVE  IsFiniteSet(Places(trs))
<1> DEFINE Row(i) == {<<i, j>> : j \in DOMAIN trs[i]}
           Rows == {Row(i) : i \in DOMAIN trs}
<1>1. IsFiniteSet(DOMAIN trs)
  <2>1. DOMAIN trs = 1..Len(trs) /\ Len(trs) \in Nat
    BY DEF WellFormed
  <2> QED
    BY <2>1, FS_Interval
<1>2. ASSUME NEW i \in DOMAIN trs
      PROVE  IsFiniteSet(Row(i))
  <2>0. trs[i] \in Seq({trs[i][j] : j \in DOMAIN trs[i]})
    BY DEF WellFormed, IsTree
  <2>1. DOMAIN trs[i] = 1..Len(trs[i]) /\ Len(trs[i]) \in Nat
    BY <2>0
  <2>2. IsFiniteSet(1..Len(trs[i]))
    BY <2>1, FS_Interval
  <2> DEFINE f == [j \in DOMAIN trs[i] |-> <<i, j>>]
  <2>3. f \in Surjection(DOMAIN trs[i], Row(i))
    BY DEF Surjection
  <2> QED
    BY <2>1, <2>2, <2>3, FS_Surjection
<1>3. IsFiniteSet(Rows)
  <2> DEFINE f == [i \in DOMAIN trs |-> Row(i)]
  <2>1. f \in Surjection(DOMAIN trs, Rows)
    BY DEF Surjection
  <2> QED
    BY <1>1, <2>1, FS_Surjection
<1>4. IsFiniteSet(UNION Rows)
  <2>1. \A T \in Rows : IsFiniteSet(T)
    BY <1>2
  <2> QED
    BY <1>3, <2>1, FS_UNION
<1> QED
  BY <1>4 DEF Places

\* Of some leaves there is always a newest one.
LEMMA NewestExists ==
  ASSUME NEW trs, WellFormed(trs), NEW P \in SUBSET Places(trs), P # {}
  PROVE  Newest(trs, P) # {}
<1> DEFINE mtime == [p \in P |-> LeafAt(trs, p).mtime]
           Times == {mtime[p] : p \in P}
<1>1. IsFiniteSet(P)
  BY PlacesFinite, FS_Subset
<1>2. mtime \in Surjection(P, Times)
  BY DEF Surjection
<1>3. IsFiniteSet(Times)
  BY <1>1, <1>2, FS_Surjection
<1>4. Times \in SUBSET Int /\ Times # {}
  BY PlacesNat DEF IsLeaf
<1>5. PICK t \in Times : \A u \in Times : u <= t
  BY <1>3, <1>4, GreatestInt
<1>6. PICK p \in P : t = LeafAt(trs, p).mtime
  OBVIOUS
<1>7. \A q \in P : LeafAt(trs, q).mtime <= LeafAt(trs, p).mtime
  BY <1>5, <1>6
<1> QED
  BY <1>7 DEF Newest

----------------------------------------------------------------------------

\* Some leaves that are not none have a first one in the order of the places ...
LEMMA FirstOfType ==
  ASSUME NEW trs, WellFormed(trs), NEW P \in SUBSET Places(trs), P # {}
  PROVE  FirstOf(P) \in P
<1> DEFINE I == {p[1] : p \in P}
<1>1. \A p \in P : p = <<p[1], p[2]>> /\ p[1] \in Nat /\ p[2] \in Nat
  BY PlacesNat
<1>2. PICK i \in I : \A k \in I : i <= k
  <2>1. I # {} /\ I \in SUBSET Nat
    BY <1>1
  <2> HIDE DEF I
  <2> QED
    BY <2>1, LeastNat
<1> DEFINE J == {j \in Nat : <<i, j>> \in P}
<1>3. J # {}
  BY <1>1
<1>4. PICK j \in J : \A k \in J : j <= k
  BY <1>3, LeastNat
<1>5. \A q \in P \ {<<i, j>>} : Before(<<i, j>>, q)
  <2> TAKE q \in P \ {<<i, j>>}
  <2>1. q = <<q[1], q[2]>> /\ q[1] \in Nat /\ q[2] \in Nat /\ i \in Nat /\ i <= q[1]
    BY <1>1, <1>2
  <2>2. CASE q[1] = i
    <3>1. q[2] \in J /\ q[2] # j
      BY <2>1, <2>2
    <3> QED
      BY <1>4, <2>1, <2>2, <3>1 DEF Before
  <2> QED
    BY <2>1, <2>2 DEF Before
<1> QED
  BY <1>5 DEF FirstOf

\* ... and a last one.
LEMMA LastOfType ==
  ASSUME NEW trs, WellFormed(trs), NEW P \in SUBSET Places(trs), P # {}
  PROVE  LastOf(P) \in P
<1> DEFINE I == {p[1] : p \in P}
<1>1. \A p \in P : /\ p = <<p[1], p[2]>> /\ p[1] \in Nat /\ p[2] \in Nat
                   /\ p[1] <= Len(trs) /\ p[2] <= Len(trs[p[1]]) /\ Len(trs[p[1]]) \in Nat
  BY PlacesNat
<1>2. PICK i \in I : \A k \in I : k <= i
  <2>1. Len(trs) \in Nat /\ I \in SUBSET Nat /\ I # {} /\ \A k \in I : k <= Len(trs)
    BY <1>1 DEF WellFormed
  <2> QED
    BY <2>1, GreatestNat
<1> DEFINE J == {j \in Nat : <<i, j>> \in P}
<1>3. J # {}
  BY <1>1
<1>4. PICK j \in J : \A k \in J : k <= j
  <2>1. Len(trs[i]) \in Nat /\ \A k \in J : k <= Len(trs[i])
    BY <1>1
  <2> QED
    BY <1>3, <2>1, GreatestNat
<1>5. \A q \in P \ {<<i, j>>} : Before(q, <<i, j>>)
  <2> TAKE q \in P \ {<<i, j>>}
  <2>1. q = <<q[1], q[2]>> /\ q[1] \in Nat /\ q[2] \in Nat /\ i \in Nat /\ q[1] <= i
    BY <1>1, <1>2
  <2>2. CASE q[1] = i
    <3>1. q[2] \in J /\ q[2] # j
      BY <2>1, <2>2
    <3> QED
      BY <1>4, <2>1, <2>2, <3>1 DEF Before
  <2> QED
    BY <2>1, <2>2 DEF Before
<1> QED
  BY <1>5 DEF LastOf

\* The leaf that either rule looks at.
LEMMA NewestLeaf ==
  ASSUME NEW trs, WellFormed(trs), NEW P \in SUBSET Places(trs), P # {}
  PROVE  /\ FirstOf(Newest(trs, P)) \in Newest(trs, P)
         /\ LastOf(Newest(trs, P)) \in Newest(trs, P)
<1>1. Newest(trs, P) \in SUBSET Places(trs) /\ Newest(trs, P) # {}
  BY NewestExists DEF Newest
<1> QED
  BY <1>1, FirstOfType, LastOfType

LEMMA SiblingsArePlaces ==
  ASSUME NEW trs, NEW var
  PROVE  Siblings(trs, var) \in SUBSET Places(trs)
BY DEF Siblings

----------------------------------------------------------------------------
(* The two rules *)

LEMMA SomethingSelected ==
  ASSUME NEW path, path # <<>>, NEW entry
  PROVE  Selection(path, entry) # None
<1>1. Selection(path, entry).path # None.path
  BY DEF Selection, None
<1> QED
  BY <1>1

\* The EFI variable's rule selects nothing only where the spec has it fall through.
LEMMA EfiVarAllowed ==
  ASSUME NEW trs, WellFormed(trs), NEW var
  PROVE  IF FromEfiVar(trs, var) = None
         THEN \/ Siblings(trs, var) = {}
              \/ \E p \in Newest(trs, Siblings(trs, var)) : ~HasEntries(trs, p)
         ELSE SpecSibling(trs, var, FromEfiVar(trs, var))
<1> DEFINE p == LastOf(Newest(trs, Siblings(trs, var)))
           leaf == LeafAt(trs, p)
<1>1. CASE Siblings(trs, var) = {}
  BY <1>1 DEF FromEfiVar
<1>2. CASE Siblings(trs, var) # {}
  <2>1. p \in Newest(trs, Siblings(trs, var)) /\ p \in Places(trs)
    BY <1>2, NewestLeaf, SiblingsArePlaces DEF Newest
  <2>2. leaf.path # <<>>
    BY <2>1, PlacesNat DEF IsLeaf
  <2>3. FromEfiVar(trs, var) = IF leaf.entries = <<>> THEN None ELSE PickEntry(leaf, var.entry)
    BY <1>2 DEF FromEfiVar
  <2>4. CASE leaf.entries = <<>>
    BY <2>1, <2>3, <2>4 DEF HasEntries
  <2>5. CASE leaf.entries # <<>>
    <3>1. FromEfiVar(trs, var) # None
      BY <2>2, <2>3, <2>5, SomethingSelected DEF PickEntry
    <3>2. SpecSibling(trs, var, FromEfiVar(trs, var))
      BY <2>1, <2>3, <2>5 DEF SpecSibling, PickEntry, Selection
    <3> QED
      BY <3>1, <3>2
  <2> QED
    BY <2>4, <2>5
<1> QED
  BY <1>1, <1>2

\* The other rule selects nothing only where there is nothing to select.
LEMMA FallbackAllowed ==
  ASSUME NEW trs, WellFormed(trs)
  PROVE  SpecGlobal(trs, GlobalFallback(trs))
<1> DEFINE p == FirstOf(Newest(trs, Places(trs)))
           leaf == LeafAt(trs, p)
<1>1. CASE Places(trs) = {}
  BY <1>1 DEF GlobalFallback, SpecGlobal
<1>2. CASE Places(trs) # {}
  <2>1. p \in Newest(trs, Places(trs)) /\ p \in Places(trs)
    BY <1>2, NewestLeaf DEF Newest
  <2>2. leaf.path # <<>>
    BY <2>1, PlacesNat DEF IsLeaf
  <2>3. GlobalFallback(trs) = IF leaf.entries = <<>> THEN None ELSE Selection(leaf.path, leaf.entries[1])
    BY <1>2 DEF GlobalFallback
  <2>4. CASE leaf.entries = <<>>
    BY <2>1, <2>3, <2>4 DEF SpecGlobal, HasEntries
  <2>5. CASE leaf.entries # <<>>
    <3>1. GlobalFallback(trs) # None
      BY <2>2, <2>3, <2>5, SomethingSelected
    <3> QED
      BY <2>1, <2>3, <2>5, <3>1 DEF SpecGlobal, HasEntries
  <2> QED
    BY <2>4, <2>5
<1> QED
  BY <1>1, <1>2

\* Whatever trees are found and whatever the EFI variable holds, what resolve_default
\* selects is what docs/spec.md:83-88 allows.
THEOREM SelectionAllowed ==
  ASSUME NEW trs, WellFormed(trs), NEW var
  PROVE  SpecAllows(trs, var, ResolveDefault(trs, var))
<1>1. CASE var # None /\ FromEfiVar(trs, var) # None
  <2>1. SpecSibling(trs, var, FromEfiVar(trs, var))
    BY <1>1, EfiVarAllowed
  <2> QED
    BY <1>1, <2>1 DEF ResolveDefault, SpecAllows
<1>2. CASE ~(var # None /\ FromEfiVar(trs, var) # None)
  <2>1. ResolveDefault(trs, var) = GlobalFallback(trs)
    BY <1>2 DEF ResolveDefault
  <2>2. \/ var = None \/ Siblings(trs, var) = {}
        \/ \E p \in Newest(trs, Siblings(trs, var)) : ~HasEntries(trs, p)
    BY <1>2, EfiVarAllowed
  <2> QED
    BY <2>1, <2>2, FallbackAllowed DEF SpecAllows
<1> QED
  BY <1>1, <1>2

----------------------------------------------------------------------------
(* What is selected is there *)

LEMMA EntriesMember ==
  ASSUME NEW trs, NEW sel
  PROVE  sel \in EntriesIn(trs) <=>
            \E p \in Places(trs) : \E k \in DOMAIN LeafAt(trs, p).entries : sel = EntryAt(trs, p, k)
BY DEF EntriesIn

LEMMA FirstEntry ==
  ASSUME NEW leaf, IsLeaf(leaf), leaf.entries # <<>>
  PROVE  1 \in DOMAIN leaf.entries
BY DEF IsLeaf

\* resolve_default selects nothing, or an entry of a leaf that was found.
THEOREM SelectionIsThere ==
  ASSUME NEW trs, WellFormed(trs), NEW var, ResolveDefault(trs, var) # None
  PROVE  ResolveDefault(trs, var) \in EntriesIn(trs)
<1>0. SUFFICES \E p \in Places(trs) : \E k \in DOMAIN LeafAt(trs, p).entries :
                  ResolveDefault(trs, var) = EntryAt(trs, p, k)
  BY EntriesMember
<1>1. CASE var # None /\ FromEfiVar(trs, var) # None
  <2> DEFINE p == LastOf(Newest(trs, Siblings(trs, var)))
             leaf == LeafAt(trs, p)
  <2>1. Siblings(trs, var) # {} /\ leaf.entries # <<>> /\ FromEfiVar(trs, var) = PickEntry(leaf, var.entry)
    BY <1>1 DEF FromEfiVar
  <2>2. p \in Places(trs)
    BY <2>1, NewestLeaf, SiblingsArePlaces DEF Newest
  <2>3. 1 \in DOMAIN leaf.entries
    BY <2>1, <2>2, FirstEntry, PlacesNat
  <2>4. \E k \in DOMAIN leaf.entries : PickEntry(leaf, var.entry) = EntryAt(trs, p, k)
    BY <2>3 DEF PickEntry, HasEntry, EntryAt
  <2> QED
    BY <1>1, <2>1, <2>2, <2>4 DEF ResolveDefault
<1>2. CASE ~(var # None /\ FromEfiVar(trs, var) # None)
  <2> DEFINE p == FirstOf(Newest(trs, Places(trs)))
             leaf == LeafAt(trs, p)
  <2>1. ResolveDefault(trs, var) = GlobalFallback(trs)
    BY <1>2 DEF ResolveDefault
  <2>2. Places(trs) # {} /\ leaf.entries # <<>> /\ GlobalFallback(trs) = EntryAt(trs, p, 1)
    BY <2>1 DEF GlobalFallback, EntryAt
  <2>3. p \in Places(trs)
    BY <2>2, NewestLeaf DEF Newest
  <2>4. 1 \in DOMAIN leaf.entries
    BY <2>2, <2>3, FirstEntry, PlacesNat
  <2> QED
    BY <2>1, <2>2, <2>3, <2>4
<1> QED
  BY <1>1, <1>2

----------------------------------------------------------------------------
(* What was selected is selected again *)

LEMMA NewestIsOne ==
  ASSUME NEW trs, WellFormed(trs), NoTiesIn(trs), NEW P \in SUBSET Places(trs),
         NEW p \in Newest(trs, P), NEW q \in Newest(trs, P)
  PROVE  p = q
<1>1. /\ p \in Places(trs) /\ q \in Places(trs)
      /\ LeafAt(trs, p).mtime <= LeafAt(trs, q).mtime
      /\ LeafAt(trs, q).mtime <= LeafAt(trs, p).mtime
  BY DEF Newest
<1>2. LeafAt(trs, p).mtime \in Int /\ LeafAt(trs, q).mtime \in Int
  BY <1>1, PlacesNat DEF IsLeaf
<1>3. LeafAt(trs, p).mtime = LeafAt(trs, q).mtime
  BY <1>1, <1>2
<1> QED
  BY <1>1, <1>3 DEF NoTiesIn

\* The variable names an entry of the newest of its siblings: that entry it is.
LEMMA EfiVarStays ==
  ASSUME NEW trs, WellFormed(trs), NoTiesIn(trs), NEW sel,
         NEW p \in Newest(trs, Siblings(trs, sel)),
         sel.path = LeafAt(trs, p).path, HasEntry(LeafAt(trs, p), sel.entry),
         sel = Selection(sel.path, sel.entry)
  PROVE  FromEfiVar(trs, sel) = sel
<1> DEFINE q == LastOf(Newest(trs, Siblings(trs, sel)))
           leaf == LeafAt(trs, q)
<1>1. Siblings(trs, sel) # {} /\ p \in Places(trs)
  BY SiblingsArePlaces DEF Newest
<1>2. q = p
  BY <1>1, NewestLeaf, NewestIsOne, SiblingsArePlaces
<1>3. leaf.entries # <<>>
  BY <1>1, <1>2, PlacesNat DEF IsLeaf, HasEntry
<1>4. PickEntry(leaf, sel.entry) = sel
  BY <1>2 DEF PickEntry
<1> QED
  BY <1>1, <1>3, <1>4 DEF FromEfiVar

\* Booting what is selected, and remembering it, selects it again; if no two leaves
\* are equally new.
THEOREM SelectionStays ==
  ASSUME NEW trs, WellFormed(trs), NoTiesIn(trs), NEW var,
         NEW sel, sel = ResolveDefault(trs, var), sel # None
  PROVE  ResolveDefault(trs, sel) = sel
<1>1. SUFFICES FromEfiVar(trs, sel) = sel
  BY <1>1 DEF ResolveDefault
<1>2. CASE var # None /\ FromEfiVar(trs, var) # None
  <2> DEFINE p == LastOf(Newest(trs, Siblings(trs, var)))
             leaf == LeafAt(trs, p)
  <2>1. /\ Siblings(trs, var) # {} /\ leaf.entries # <<>> /\ sel = PickEntry(leaf, var.entry)
    BY <1>2 DEF FromEfiVar, ResolveDefault
  <2>2. p \in Newest(trs, Siblings(trs, var)) /\ p \in Siblings(trs, var) /\ p \in Places(trs)
    BY <2>1, NewestLeaf, SiblingsArePlaces DEF Newest
  <2>3. 1 \in DOMAIN leaf.entries
    BY <2>1, <2>2, FirstEntry, PlacesNat
  <2>4. sel.path = leaf.path /\ HasEntry(leaf, sel.entry) /\ sel = Selection(sel.path, sel.entry)
    BY <2>1, <2>3 DEF PickEntry, Selection, HasEntry
  <2>5. Siblings(trs, sel) = Siblings(trs, var)
    BY <2>2, <2>4 DEF Siblings
  <2> QED
    BY <2>2, <2>4, <2>5, EfiVarStays
<1>3. CASE ~(var # None /\ FromEfiVar(trs, var) # None)
  <2> DEFINE p == FirstOf(Newest(trs, Places(trs)))
             leaf == LeafAt(trs, p)
  <2>1. Places(trs) # {} /\ leaf.entries # <<>> /\ sel = Selection(leaf.path, leaf.entries[1])
    BY <1>3 DEF ResolveDefault, GlobalFallback
  <2>2. p \in Newest(trs, Places(trs)) /\ p \in Places(trs)
    BY <2>1, NewestLeaf DEF Newest
  <2>3. 1 \in DOMAIN leaf.entries
    BY <2>1, <2>2, FirstEntry, PlacesNat
  <2>4. sel.path = leaf.path /\ HasEntry(leaf, sel.entry) /\ sel = Selection(sel.path, sel.entry)
    BY <2>1, <2>3 DEF Selection, HasEntry
  <2>5. p \in Siblings(trs, sel)
    BY <2>2, <2>4 DEF Siblings
  <2>6. p \in Newest(trs, Siblings(trs, sel))
    BY <2>2, <2>5, SiblingsArePlaces DEF Newest
  <2> QED
    BY <2>4, <2>6, EfiVarStays
<1> QED
  BY <1>2, <1>3

=============================================================================
