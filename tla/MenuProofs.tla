----------------------------- MODULE MenuProofs -----------------------------
(***************************************************************************)
(* What holds of a session of the menu for any disks, boot trees, static   *)
(* entries and EFI variables, whatever is pressed and however the disks    *)
(* come and go.                                                            *)
(*                                                                         *)
(* The properties speak of the view, the side screen and the result; they  *)
(* hold because of what is so of every source all along (SourcesOK), and   *)
(* that because of what is so of mounts, mappings and keys (KernelOK).     *)
(***************************************************************************)
EXTENDS Menu, BootSelectProofs, SequenceTheorems

----------------------------------------------------------------------------
(* Ranks *)

LEMMA CountedFinite ==
  ASSUME NEW s, NEW S, NEW i \in Nat
  PROVE  IsFiniteSet({j \in 1..i : s[j] \in S})
<1>1. IsFiniteSet(1..i)
  BY FS_Interval
<1>2. {j \in 1..i : s[j] \in S} \in SUBSET (1..i)
  OBVIOUS
<1> QED
  BY <1>1, <1>2, FS_Subset

LEMMA RankType ==
  ASSUME NEW s, NEW S, NEW i \in Nat
  PROVE  Rank(s, S, i) \in Nat
BY CountedFinite, FS_CardinalityType DEF Rank

LEMMA RankZero ==
  ASSUME NEW s, NEW S
  PROVE  Rank(s, S, 0) = 0
<1>1. {j \in 1..0 : s[j] \in S} = {}
  OBVIOUS
<1> QED
  BY <1>1, FS_EmptySet DEF Rank

\* An element counts if it is in S.
LEMMA RankStep ==
  ASSUME NEW s, NEW S, NEW i \in Nat, i > 0
  PROVE  Rank(s, S, i) = IF s[i] \in S THEN Rank(s, S, i - 1) + 1 ELSE Rank(s, S, i - 1)
<1> DEFINE To(n) == {j \in 1..n : s[j] \in S}
<1>0. IsFiniteSet(To(i - 1)) /\ i \notin To(i - 1)
  <2>1. IsFiniteSet({j \in 1..(i - 1) : s[j] \in S})
    BY CountedFinite, i - 1 \in Nat
  <2> QED
    BY <2>1
<1>1. CASE s[i] \in S
  <2>1. To(i) = To(i - 1) \cup {i}
    BY <1>1
  <2> QED
    BY <1>0, <1>1, <2>1, FS_AddElement DEF Rank
<1>2. CASE s[i] \notin S
  <2>1. To(i) = To(i - 1)
    BY <1>2
  <2> QED
    BY <1>2, <2>1 DEF Rank
<1> QED
  BY <1>1, <1>2

LEMMA RankMonotonic ==
  ASSUME NEW s, NEW S, NEW i \in Nat, NEW j \in Nat, i <= j
  PROVE  Rank(s, S, i) <= Rank(s, S, j)
<1> DEFINE To(n) == {m \in 1..n : s[m] \in S}
<1>1. To(i) \in SUBSET To(j)
  OBVIOUS
<1>2. IsFiniteSet(To(j))
  BY CountedFinite
<1>3. Cardinality(To(i)) <= Cardinality(To(j))
  BY <1>1, <1>2, FS_Subset
<1> QED
  BY <1>3 DEF Rank

----------------------------------------------------------------------------
(* Only *)

\* Every rank up to the last is the rank of an element in S: the first at which it is
\* reached.
LEMMA RankReached ==
  ASSUME NEW s, NEW S, NEW n \in Nat, NEW k \in 1..Rank(s, S, n)
  PROVE  \E i \in 1..n : s[i] \in S /\ Rank(s, S, i) = k
<1> DEFINE T == {i \in 0..n : Rank(s, S, i) >= k}
<1>1. n \in T /\ T \in SUBSET Nat
  BY RankType
<1>2. PICK i \in T : \A j \in T : i <= j
  BY <1>1, LeastNat
<1>3. i \in 1..n
  BY RankZero, RankType
<1>4. i - 1 \notin T /\ i - 1 \in 0..n
  BY <1>2, <1>3
<1>5. Rank(s, S, i - 1) \in Nat /\ Rank(s, S, i) \in Nat /\ Rank(s, S, n) \in Nat
  BY <1>3, RankType
<1>6. Rank(s, S, i - 1) < k /\ Rank(s, S, i) >= k
  BY <1>4, <1>5
<1>7. s[i] \in S /\ Rank(s, S, i) = Rank(s, S, i - 1) + 1
  BY <1>3, <1>5, <1>6, RankStep
<1> QED
  BY <1>3, <1>5, <1>6, <1>7

LEMMA OnlyElement ==
  ASSUME NEW T, NEW s \in Seq(T), NEW S, NEW k \in DOMAIN Only(s, S)
  PROVE  \E i \in DOMAIN s : Only(s, S)[k] = s[i] /\ s[i] \in S /\ Rank(s, S, i) = k
<1>1. DOMAIN s = 1..Len(s) /\ Len(s) \in Nat /\ DOMAIN Only(s, S) = 1..Rank(s, S, Len(s))
  BY DEF Only
<1>2. \E i \in DOMAIN s : s[i] \in S /\ Rank(s, S, i) = k
  BY <1>1, RankReached
<1> DEFINE i == CHOOSE i \in DOMAIN s : s[i] \in S /\ Rank(s, S, i) = k
<1>3. i \in DOMAIN s /\ s[i] \in S /\ Rank(s, S, i) = k
  BY <1>2
<1>4. Only(s, S)[k] = s[i]
  BY <1>1 DEF Only
<1> QED
  BY <1>3, <1>4

\* What Only takes out are elements of s, and elements of S.
LEMMA OnlyType ==
  ASSUME NEW T, NEW s \in Seq(T), NEW S
  PROVE  Only(s, S) \in Seq(T \cap S)
<1> DEFINE n == Rank(s, S, Len(s))
<1>1. n \in Nat
  BY RankType
<1>2. DOMAIN Only(s, S) = 1..n /\ Only(s, S) = [k \in 1..n |-> Only(s, S)[k]]
  BY DEF Only
<1>3. \A k \in 1..n : Only(s, S)[k] \in T \cap S
  <2> TAKE k \in 1..n
  <2>1. PICK i \in DOMAIN s : Only(s, S)[k] = s[i] /\ s[i] \in S
    BY <1>2, OnlyElement
  <2> QED
    BY <2>1
<1> QED
  BY <1>1, <1>2, <1>3

\* It takes none twice.
LEMMA OnlyDistinct ==
  ASSUME NEW T, NEW s \in Seq(T), NEW S, \A i, j \in DOMAIN s : s[i] = s[j] => i = j,
         NEW k \in DOMAIN Only(s, S), NEW l \in DOMAIN Only(s, S), Only(s, S)[k] = Only(s, S)[l]
  PROVE  k = l
BY OnlyElement

\* And it leaves none out.
LEMMA OnlyHasAll ==
  ASSUME NEW T, NEW s \in Seq(T), NEW S, NEW i \in DOMAIN s, s[i] \in S
  PROVE  \E k \in DOMAIN Only(s, S) : Only(s, S)[k] = s[i]
<1>0. DOMAIN s = 1..Len(s) /\ Len(s) \in Nat /\ DOMAIN Only(s, S) = 1..Rank(s, S, Len(s))
  BY DEF Only
<1> DEFINE k == Rank(s, S, i)
<1>1. \A j, l \in DOMAIN s : j < l /\ s[l] \in S => Rank(s, S, j) < Rank(s, S, l)
  <2> TAKE j, l \in DOMAIN s
  <2> HAVE j < l /\ s[l] \in S
  <2>1. j \in Nat /\ l \in Nat /\ l > 0 /\ l - 1 \in Nat /\ j <= l - 1
    BY <1>0
  <2>2. Rank(s, S, l) = Rank(s, S, l - 1) + 1
    BY <2>1, RankStep
  <2>3. Rank(s, S, j) <= Rank(s, S, l - 1) /\ Rank(s, S, j) \in Nat /\ Rank(s, S, l - 1) \in Nat
    BY <2>1, RankMonotonic, RankType
  <2> QED
    BY <2>2, <2>3
<1>2. \A j \in DOMAIN s : Rank(s, S, j) \in Nat
  BY <1>0, RankType
<1>3. k \in DOMAIN Only(s, S)
  <2>1. i \in Nat /\ i > 0 /\ i - 1 \in Nat
    BY <1>0
  <2>2. k = Rank(s, S, i - 1) + 1 /\ Rank(s, S, i - 1) \in Nat
    BY <2>1, RankStep, RankType
  <2>3. k <= Rank(s, S, Len(s)) /\ Rank(s, S, Len(s)) \in Nat
    BY <1>0, <2>1, RankMonotonic, RankType
  <2> QED
    BY <1>0, <2>2, <2>3
<1>4. PICK j \in DOMAIN s : Only(s, S)[k] = s[j] /\ s[j] \in S /\ Rank(s, S, j) = k
  BY <1>3, OnlyElement
<1>5. j = i
  BY <1>0, <1>1, <1>2, <1>4
<1> QED
  BY <1>3, <1>4, <1>5

\* The kernel's side: what is mapped or has a key is a disk of the kind for it, and
\* what is mounted as unlocked was unlocked.
KernelOK ==
    /\ plugged \subseteq Disks /\ keyring \subseteq Disks
    /\ opened \in Seq(Disks) /\ \A k \in DOMAIN opened : Kind[opened[k]] = "luks"
    /\ \A d \in Disks : Mapper(d) \in mounts => IsOpened(d)
    /\ \A d \in Disks : Kind[d] = "bcachefs" /\ Disk(d) \in mounts => d \in keyring

\* A static source goes with one of the leaves of the image.
StaticSource(src, tree) ==
    /\ src.state = "Static" /\ src.mp = NoMount /\ src.pass = FALSE
    /\ \E n \in DOMAIN statics : tree = <<statics[n]>>

\* Any other is of a disk.  It is mounted, and then on a mount point of its disk that is in
\* use; or it is not, and has neither a mount point nor a passphrase.
DiskSource(src, tree) ==
    /\ src.dev[1] \in Disks /\ tree = TreeOf(src)
    /\ \/ /\ src.state = "Mounted" /\ src.mp \in mounts
          /\ src.mp \in {Disk(src.dev[1]), Dm(src.dev[1]), Mapper(src.dev[1])}
          /\ src.pass \in BOOLEAN /\ (src.pass => IsOpened(src.dev[1]) \/ src.dev[1] \in keyring)
       \/ /\ src.state \in {"Encrypted", "Error"} /\ src.mp = NoMount /\ src.pass = FALSE

\* One that is locked can be unlocked, and is not mounted; unless it is a LUKS disk with an
\* open mapping, or damaged.
LockedSource(src) ==
    /\ src.dev = Disk(src.dev[1]) /\ src.dev[1] \in Disks /\ Kind[src.dev[1]] # "plain"
    /\ Kind[src.dev[1]] = "bcachefs" /\ src.dev[1] \notin damaged => Disk(src.dev[1]) \notin mounts

SourceOK(src, tree) ==
    /\ StaticSource(src, tree) \/ DiskSource(src, tree)
    /\ src.state = "Encrypted" => LockedSource(src)

\* No bcachefs disk is there twice.
OncePerDisk ==
    \A i, j \in DOMAIN sources : \A d \in Disks :
        /\ Kind[d] = "bcachefs" /\ sources[i].state # "Static" /\ sources[j].state # "Static"
        /\ sources[i].dev = Disk(d) /\ sources[j].dev = Disk(d)
        => i = j

\* Sources and trees are parallel.
SourcesOK ==
    /\ DOMAIN trees = DOMAIN sources /\ \A i \in DOMAIN sources : SourceOK(sources[i], trees[i])
    /\ OncePerDisk

\* The view shows them, from the start on.
ViewOK ==
    /\ view = EmptyView \/ view = BuildView(sources, trees, view.default)
    /\ phase \in {"countdown", "menu"} => view = BuildView(sources, trees, view.default)

\* The side screen is of a source for which it can be opened.
SideOK ==
    /\ side.depth \in 0..MaxDepth
    /\ \/ side.kind = "none"
       \/ /\ side.kind = "passphrase" /\ phase \in {"menu", "ended"} /\ side.idx \in DOMAIN sources
          /\ sources[side.idx].state = "Encrypted"
       \/ /\ side.kind = "browser" /\ phase \in {"menu", "ended"} /\ side.idx \in DOMAIN sources
          /\ sources[side.idx].mp # NoMount

\* While the countdown runs, the view has the default that was resolved from the trees
\* and the EFI variable.
CountdownOK ==
    phase = "countdown" =>
        /\ WellFormed(trees) /\ side.kind = "none"
        /\ view.default = ResolveDefault(trees, efi) /\ view.default # None

\* How a session may end.
BootResultOK ==
    /\ KeyBelongsToLeaf
    /\ result.path[1] \in mounts \/ \E n \in DOMAIN statics : statics[n].path = result.path
    /\ result.by = "default" => SpecAllows(trees, efi, Selection(result.path, result.entry))

ResultOK ==
    IF phase = "ended"
    THEN \/ result.kind = "Boot" /\ BootResultOK
         \/ result.kind \in {"BootFile", "Shell", "Quit", "Panic", "Error"} /\ result.by = "user"
    ELSE result = NoResult

MInv ==
    /\ phase \in {"start", "countdown", "menu", "ended"}
    /\ damaged \subseteq Disks /\ statics \in StaticLists
    /\ phase = "start" => view = EmptyView /\ side = NoSide
    /\ KernelOK /\ SourcesOK /\ ViewOK /\ SideOK /\ CountdownOK /\ ResultOK

----------------------------------------------------------------------------
(* Devices and sources *)

LEMMA DeviceNames ==
  ASSUME NEW d, NEW e
  PROVE  /\ Disk(d)[1] = d /\ Dm(d)[1] = d /\ Mapper(d)[1] = d
         /\ Disk(d) # Dm(e) /\ Disk(d) # Mapper(e) /\ Dm(d) # Mapper(e)
         /\ (Disk(d) = Disk(e) => d = e) /\ (Mapper(d) = Mapper(e) => d = e)
         /\ Disk(d) # NoMount /\ Dm(d) # NoMount /\ Mapper(d) # NoMount
         /\ Disk(d) # <<>> /\ Dm(d) # <<>> /\ Mapper(d) # <<>>
BY DEF Disk, Dm, Mapper, NoMount

LEMMA SourceFields ==
  ASSUME NEW dev, NEW state, NEW mp, NEW pass
  PROVE  /\ Source(dev, state, mp, pass).dev = dev /\ Source(dev, state, mp, pass).state = state
         /\ Source(dev, state, mp, pass).mp = mp /\ Source(dev, state, mp, pass).pass = pass
         /\ SingleSource(dev).dev = dev /\ LuksSource(dev).dev = Disk(dev)
BY DEF Source, SingleSource, LuksSource

LEMMA DisksFound ==
  /\ LuksDisks \in Seq(Disks) /\ SingleDisks \in Seq(Disks)
  /\ \A k \in DOMAIN LuksDisks : LuksDisks[k] \in Disks /\ IsLuks(LuksDisks[k])
  /\ \A k \in DOMAIN SingleDisks : SingleDisks[k] \in Disks /\ IsSingle(SingleDisks[k])
  /\ \A k, l \in DOMAIN SingleDisks : SingleDisks[k] = SingleDisks[l] => k = l
<1>1. LuksDisks \in Seq(Disks \cap {d \in Disks : IsLuks(d)})
  BY DisksAssumption, OnlyType DEF LuksDisks
<1>2. SingleDisks \in Seq(Disks \cap {d \in Disks : IsSingle(d)})
  BY DisksAssumption, OnlyType DEF SingleDisks
<1>3. \A k, l \in DOMAIN SingleDisks : SingleDisks[k] = SingleDisks[l] => k = l
  BY DisksAssumption, OnlyDistinct DEF SingleDisks
<1>4. /\ LuksDisks \in Seq(Disks)
      /\ \A k \in DOMAIN LuksDisks : LuksDisks[k] \in Disks /\ IsLuks(LuksDisks[k])
  BY <1>1
<1>5. /\ SingleDisks \in Seq(Disks)
      /\ \A k \in DOMAIN SingleDisks : SingleDisks[k] \in Disks /\ IsSingle(SingleDisks[k])
  BY <1>2
<1> QED
  BY <1>3, <1>4, <1>5

\* A sequence made of two, by position.
LEMMA JoinedAt ==
  ASSUME NEW f, NEW m \in Nat, NEW g, NEW n \in Nat, DOMAIN f = 1..m, DOMAIN g = 1..n,
         f = [i \in 1..m |-> f[i]], g = [i \in 1..n |-> g[i]]
  PROVE  /\ f \o g = [i \in 1..(m + n) |-> (f \o g)[i]]
         /\ Len(f \o g) = m + n /\ DOMAIN (f \o g) = 1..(m + n)
         /\ \A i \in 1..m : (f \o g)[i] = f[i]
         /\ \A i \in (m + 1)..(m + n) : (f \o g)[i] = g[i - m]
<1> DEFINE T == {f[i] : i \in 1..m} \cup {g[i] : i \in 1..n}
<1>1. f \in Seq(T) /\ Len(f) = m
  OBVIOUS
<1>2. g \in Seq(T) /\ Len(g) = n
  OBVIOUS
<1> HIDE DEF T
<1>3. /\ f \o g \in Seq(T) /\ Len(f \o g) = m + n
      /\ \A i \in 1..(m + n) : (f \o g)[i] = IF i <= m THEN f[i] ELSE g[i - m]
  BY <1>1, <1>2, ConcatProperties
<1>4. DOMAIN (f \o g) = 1..(m + n) /\ f \o g = [i \in 1..(m + n) |-> (f \o g)[i]]
  BY <1>3
<1>5. \A i \in 1..m : (f \o g)[i] = f[i]
  BY <1>3
<1>6. \A i \in (m + 1)..(m + n) : (f \o g)[i] = g[i - m]
  BY <1>3
<1> QED
  BY <1>3, <1>4, <1>5, <1>6

Locked == Len(LuksDisks)
Mapped == Len(opened)
Single == Len(SingleDisks)

\* The devices that are mounted directly, by position.
LEMMA SinglesAt ==
  ASSUME KernelOK
  PROVE  /\ Mapped \in Nat /\ Single \in Nat
         /\ Len(Singles) = Mapped + Single /\ DOMAIN Singles = 1..(Mapped + Single)
         /\ \A k \in 1..Mapped : opened[k] \in Disks /\ Singles[k] = Dm(opened[k])
         /\ \A k \in (Mapped + 1)..(Mapped + Single) :
               /\ SingleDisks[k - Mapped] \in Disks /\ IsSingle(SingleDisks[k - Mapped])
               /\ Singles[k] = Disk(SingleDisks[k - Mapped])
<1> DEFINE f == [i \in 1..Mapped |-> Dm(opened[i])]
           g == [i \in 1..Single |-> Disk(SingleDisks[i])]
<1>1. opened \in Seq(Disks) /\ SingleDisks \in Seq(Disks)
  BY DisksFound DEF KernelOK
<1>2. Mapped \in Nat /\ Single \in Nat /\ DOMAIN opened = 1..Mapped /\ DOMAIN SingleDisks = 1..Single
  BY <1>1 DEF Mapped, Single
<1>3. DOMAIN f = 1..Mapped /\ DOMAIN g = 1..Single /\ f = [i \in 1..Mapped |-> f[i]] /\ g = [i \in 1..Single |-> g[i]]
  OBVIOUS
<1>4. Singles = f \o g
  BY DEF Singles, Mapped, Single
<1> HIDE DEF f, g
<1>5. /\ Len(Singles) = Mapped + Single /\ DOMAIN Singles = 1..(Mapped + Single)
      /\ \A i \in 1..Mapped : Singles[i] = f[i]
      /\ \A i \in (Mapped + 1)..(Mapped + Single) : Singles[i] = g[i - Mapped]
  BY <1>2, <1>3, <1>4, JoinedAt
<1>6. \A k \in 1..Mapped : opened[k] \in Disks
  BY <1>1, <1>2
<1>7. \A k \in (Mapped + 1)..(Mapped + Single) : k - Mapped \in 1..Single
  BY <1>2
<1>8. \A k \in 1..Single : SingleDisks[k] \in Disks /\ IsSingle(SingleDisks[k])
  BY <1>2, DisksFound
<1> QED
  BY <1>2, <1>5, <1>6, <1>7, <1>8 DEF f, g

\* The sources that are discovered, by position.
LEMMA DiscoveredAt ==
  ASSUME KernelOK
  PROVE  /\ Locked \in Nat /\ Len(Singles) \in Nat
         /\ Len(Discovered) = Locked + Len(Singles) /\ DOMAIN Discovered = 1..(Locked + Len(Singles))
         /\ \A k \in 1..Locked :
               LuksDisks[k] \in Disks /\ IsLuks(LuksDisks[k]) /\ Discovered[k] = LuksSource(LuksDisks[k])
         /\ \A k \in (Locked + 1)..(Locked + Len(Singles)) :
               k - Locked \in DOMAIN Singles /\ Discovered[k] = SingleSource(Singles[k - Locked])
<1> DEFINE n == Len(Singles)
           f == [i \in 1..Locked |-> LuksSource(LuksDisks[i])]
           g == [i \in 1..n |-> SingleSource(Singles[i])]
<1>1. LuksDisks \in Seq(Disks)
  BY DisksFound
<1>2. Locked \in Nat /\ DOMAIN LuksDisks = 1..Locked /\ n \in Nat /\ DOMAIN Singles = 1..n
  BY <1>1, SinglesAt DEF Locked
<1>3. DOMAIN f = 1..Locked /\ DOMAIN g = 1..n /\ f = [i \in 1..Locked |-> f[i]] /\ g = [i \in 1..n |-> g[i]]
  OBVIOUS
<1>4. Discovered = f \o g
  BY DEF Discovered, Locked
<1> HIDE DEF f, g, n
<1>5. /\ Len(Discovered) = Locked + n /\ DOMAIN Discovered = 1..(Locked + n)
      /\ \A i \in 1..Locked : Discovered[i] = f[i]
      /\ \A i \in (Locked + 1)..(Locked + n) : Discovered[i] = g[i - Locked]
  BY <1>2, <1>3, <1>4, JoinedAt
<1>6. \A k \in (Locked + 1)..(Locked + n) : k - Locked \in 1..n
  BY <1>2
<1>7. \A k \in 1..Locked : LuksDisks[k] \in Disks /\ IsLuks(LuksDisks[k])
  BY <1>2, DisksFound
<1> QED
  BY <1>2, <1>5, <1>6, <1>7 DEF f, g, n

\* With the static ones behind them, and the trees beside them.
LEMMA AllAt ==
  ASSUME KernelOK, statics \in StaticLists
  PROVE  LET n == Len(Discovered)
             m == Len(statics)
         IN  /\ n \in Nat /\ m \in Nat /\ DOMAIN statics = 1..m /\ DOMAIN Discovered = 1..n
             /\ DOMAIN AllSources = 1..(n + m) /\ DOMAIN AllTrees = 1..(n + m) /\ Len(AllTrees) = n + m
             /\ \A k \in 1..n : AllSources[k] = Discovered[k] /\ AllTrees[k] = TreeOf(Discovered[k])
             /\ \A k \in (n + 1)..(n + m) :
                   /\ k - n \in DOMAIN statics
                   /\ AllSources[k] = Source(statics[k - n].path, "Static", NoMount, FALSE)
                   /\ AllTrees[k] = <<statics[k - n]>>
             /\ AllTrees \in Seq({AllTrees[k] : k \in DOMAIN AllTrees})
<1> DEFINE n == Len(Discovered)
           m == Len(statics)
           f == [i \in 1..n |-> TreeOf(Discovered[i])]
<1>1. n \in Nat /\ DOMAIN Discovered = 1..n
  BY DiscoveredAt
<1>2. m \in Nat /\ DOMAIN statics = 1..m
  <2>1. statics \in Seq({statics[i] : i \in DOMAIN statics})
    BY StaticAssumption DEF IsTree
  <2> QED
    BY <2>1
<1>3. /\ DOMAIN StaticSources = 1..m /\ StaticSources = [i \in 1..m |-> StaticSources[i]]
      /\ DOMAIN StaticTrees = 1..m /\ StaticTrees = [i \in 1..m |-> StaticTrees[i]]
  BY <1>2 DEF StaticSources, StaticTrees
<1>4. DOMAIN f = 1..n /\ f = [i \in 1..n |-> f[i]] /\ Discovered = [i \in 1..n |-> Discovered[i]]
  BY <1>1 DEF Discovered
<1>5. AllSources = Discovered \o StaticSources /\ AllTrees = f \o StaticTrees
  BY <1>1 DEF AllSources, AllTrees
<1> HIDE DEF f, n, m
<1>6. /\ DOMAIN AllSources = 1..(n + m)
      /\ \A i \in 1..n : AllSources[i] = Discovered[i]
      /\ \A i \in (n + 1)..(n + m) : AllSources[i] = StaticSources[i - n]
  BY <1>1, <1>2, <1>3, <1>4, <1>5, JoinedAt
<1>7. /\ DOMAIN AllTrees = 1..(n + m) /\ Len(AllTrees) = n + m
      /\ \A i \in 1..n : AllTrees[i] = f[i]
      /\ \A i \in (n + 1)..(n + m) : AllTrees[i] = StaticTrees[i - n]
  BY <1>1, <1>2, <1>3, <1>4, <1>5, JoinedAt
<1>8. \A k \in (n + 1)..(n + m) : k - n \in 1..m
  BY <1>1, <1>2
<1>9. \A k \in (n + 1)..(n + m) :
         /\ k - n \in DOMAIN statics
         /\ AllSources[k] = Source(statics[k - n].path, "Static", NoMount, FALSE)
         /\ AllTrees[k] = <<statics[k - n]>>
  BY <1>2, <1>6, <1>7, <1>8 DEF StaticSources, StaticTrees
<1>10. AllTrees \in Seq({AllTrees[k] : k \in DOMAIN AllTrees})
  <2>1. f \o StaticTrees = [i \in 1..(n + m) |-> (f \o StaticTrees)[i]]
    BY <1>1, <1>2, <1>3, <1>4, JoinedAt
  <2>2. AllTrees = [i \in 1..(n + m) |-> AllTrees[i]] /\ n + m \in Nat
    BY <1>1, <1>2, <1>5, <2>1
  <2> QED
    BY <2>2
<1> QED
  BY <1>1, <1>2, <1>6, <1>7, <1>9, <1>10 DEF f, n, m

----------------------------------------------------------------------------
(* Boot trees *)

LEMMA OwnElements ==
  ASSUME NEW s, NEW n \in Nat, DOMAIN s = 1..n, s = [i \in 1..n |-> s[i]]
  PROVE  s \in Seq({s[i] : i \in DOMAIN s})
OBVIOUS

LEMMA EmptyTree == IsTree(<<>>)
<1>1. DOMAIN <<>> = 1..0
  OBVIOUS
<1> QED
  BY <1>1 DEF IsTree

LEMMA WalkTree ==
  ASSUME NEW mp, mp[1] \in Disks
  PROVE  IsTree(Walk(mp))
<1> DEFINE leaves == BootTree[mp[1]]
           n == Len(leaves)
<1>1. leaves \in Seq([dir : STRING, name : STRING, mtime : Int, entries : Seq(STRING)])
  BY BootTreeAssumption
<1>2. n \in Nat /\ DOMAIN leaves = 1..n
  BY <1>1
<1>3. \A j \in 1..n : leaves[j].mtime \in Int /\ leaves[j].entries \in Seq(STRING)
  <2>1. \A j \in 1..n : leaves[j] \in [dir : STRING, name : STRING, mtime : Int, entries : Seq(STRING)]
    BY <1>1, ElementOfSeq
  <2> QED
    BY <2>1
<1> HIDE DEF n
<1>4. DOMAIN Walk(mp) = 1..n /\ Walk(mp) = [j \in 1..n |-> Walk(mp)[j]]
  BY <1>2 DEF Walk
<1>5. \A j \in 1..n : /\ Walk(mp)[j].path = <<mp, leaves[j].dir, leaves[j].name>>
                      /\ Walk(mp)[j].mtime = leaves[j].mtime
                      /\ Walk(mp)[j].entries = leaves[j].entries
  BY <1>2 DEF Walk
<1>6. \A j \in 1..n : IsLeaf(Walk(mp)[j])
  <2> TAKE j \in 1..n
  <2>1. Walk(mp)[j].path # <<>>
    <3>1. <<mp, leaves[j].dir, leaves[j].name>> # <<>>
      OBVIOUS
    <3> QED
      BY <1>5, <3>1
  <2>2. Walk(mp)[j].mtime \in Int /\ Walk(mp)[j].entries \in Seq(STRING)
    BY <1>3, <1>5
  <2> QED
    BY <2>1, <2>2 DEF IsLeaf
<1> QED
  BY <1>2, <1>4, <1>6, OwnElements DEF IsTree

\* Every leaf of it lies under the mount point.
LEMMA WalkPaths ==
  ASSUME NEW mp, NEW j \in DOMAIN Walk(mp)
  PROVE  Walk(mp)[j].path[1] = mp
BY DEF Walk

LEMMA TreeOfTree ==
  ASSUME NEW src, NEW tree, DiskSource(src, tree)
  PROVE  IsTree(tree)
<1>1. CASE src.state = "Mounted" /\ src.mp # NoMount
  <2>1. src.mp[1] \in Disks
    BY <1>1, DeviceNames DEF DiskSource
  <2> QED
    BY <1>1, <2>1, WalkTree DEF DiskSource, TreeOf
<1>2. CASE ~(src.state = "Mounted" /\ src.mp # NoMount)
  <2>1. tree = <<>>
    BY <1>2 DEF DiskSource, TreeOf
  <2> QED
    BY <2>1, EmptyTree
<1> QED
  BY <1>1, <1>2

----------------------------------------------------------------------------
(* Discovering *)

\* A device that is mounted directly is the mapping of a LUKS disk, or a disk without
\* LUKS.
LEMMA SingleDevice ==
  ASSUME KernelOK, NEW k \in DOMAIN Singles
  PROVE  \E d \in Disks : Singles[k] = Dm(d) \/ (Singles[k] = Disk(d) /\ IsSingle(d))
<1>1. k \in 1..Mapped \/ k \in (Mapped + 1)..(Mapped + Single)
  BY SinglesAt
<1> QED
  BY <1>1, SinglesAt

\* What discovering mounts.
LEMMA MountedNow ==
  /\ mounts \subseteq MountsDiscovered
  /\ \A k \in DOMAIN Singles : CanMount(Singles[k]) => Singles[k] \in MountsDiscovered
  /\ \A m \in MountsDiscovered : m \in mounts \/ \E k \in DOMAIN Singles : m = Singles[k] /\ CanMount(m)
BY DEF MountsDiscovered

LEMMA DiscoverKernel ==
  ASSUME KernelOK, mounts' = MountsDiscovered, UNCHANGED <<plugged, opened, keyring>>
  PROVE  KernelOK'
<1>1. IsOpened(Disk(1))' = IsOpened(Disk(1)) /\ \A d \in Disks : IsOpened(d)' = IsOpened(d)
  BY DEF IsOpened
<1>2. ASSUME NEW d \in Disks, Mapper(d) \in mounts'
      PROVE  IsOpened(d)
  <2>1. Mapper(d) \in mounts \/ \E k \in DOMAIN Singles : Mapper(d) = Singles[k]
    BY <1>2, MountedNow
  <2> QED
    BY <2>1, SingleDevice, DeviceNames DEF KernelOK
<1>3. ASSUME NEW d \in Disks, Kind[d] = "bcachefs", Disk(d) \in mounts'
      PROVE  d \in keyring
  <2>1. Disk(d) \in mounts \/ CanMount(Disk(d))
    BY <1>3, MountedNow
  <2>2. CanMount(Disk(d)) => d \in keyring
    BY <1>3 DEF CanMount, NeedsKey, Disk
  <2> QED
    BY <1>3, <2>1, <2>2 DEF KernelOK
<1> QED
  BY <1>1, <1>2, <1>3 DEF KernelOK

\* A LUKS container is locked; any other device is mounted, locked or broken.
LEMMA LuksFound ==
  ASSUME NEW d \in Disks, Kind[d] = "luks"
  PROVE  /\ DiskSource(LuksSource(d), TreeOf(LuksSource(d)))'
         /\ LockedSource(LuksSource(d))'
         /\ LuksSource(d).dev = Disk(d)
BY DeviceNames DEF DiskSource, LockedSource, LuksSource, Source

LEMMA SingleFound ==
  ASSUME KernelOK, KernelOK', mounts' = MountsDiscovered, keyring' = keyring, damaged' = damaged,
         NEW k \in DOMAIN Singles, NEW dev, dev = Singles[k], NEW src, src = SingleSource(dev)
  PROVE  /\ src.dev = dev /\ src.state \in {"Mounted", "Encrypted", "Error"}
         /\ DiskSource(src, TreeOf(src))'
         /\ src.state = "Encrypted" => LockedSource(src)'
<1>1. PICK d \in Disks : dev = Dm(d) \/ (dev = Disk(d) /\ IsSingle(d))
  BY SingleDevice
<1>2. dev[1] = d
  BY <1>1, DeviceNames
<1>3. CASE CanMount(dev)
  <2>1. src = Source(dev, "Mounted", dev, FALSE)
    BY <1>3 DEF SingleSource
  <2>2. dev \in mounts'
    BY <1>3, MountedNow
  <2>3. src.dev = dev /\ src.state = "Mounted" /\ src.mp = dev /\ src.pass = FALSE
    BY <2>1 DEF Source
  <2>4. DiskSource(src, TreeOf(src))'
    BY <1>1, <1>2, <2>2, <2>3 DEF DiskSource
  <2> QED
    BY <2>3, <2>4
<1>4. CASE ~CanMount(dev)
  <2>1. src = Source(dev, IF NeedsKey(dev) THEN "Encrypted" ELSE "Error", NoMount, FALSE)
    BY <1>4 DEF SingleSource
  <2>2. NeedsKey(dev) => dev = Disk(d) /\ Kind[d] = "bcachefs" /\ d \notin keyring
    BY <1>1, <1>2 DEF NeedsKey, Dm
  <2>3. /\ src.dev = dev /\ src.state = (IF NeedsKey(dev) THEN "Encrypted" ELSE "Error")
        /\ src.mp = NoMount /\ src.pass = FALSE
    BY <2>1 DEF Source
  <2>4. DiskSource(src, TreeOf(src))'
    BY <1>2, <2>3 DEF DiskSource
  <2>5. ASSUME src.state = "Encrypted"
        PROVE  LockedSource(src)'
    <3>1. dev = Disk(d) /\ Kind[d] = "bcachefs" /\ d \notin keyring'
      BY <2>2, <2>3, <2>5
    <3>2. Disk(d) \notin mounts'
      BY <3>1 DEF KernelOK
    <3> QED
      BY <1>2, <2>3, <3>1, <3>2 DEF LockedSource
  <2> QED
    BY <2>3, <2>4, <2>5
<1> QED
  BY <1>3, <1>4

\* Each source that is found is as it should be.
LEMMA FoundSource ==
  ASSUME KernelOK, KernelOK', statics \in StaticLists, mounts' = MountsDiscovered,
         UNCHANGED <<damaged, statics, keyring>>,
         NEW i \in DOMAIN AllSources, NEW src, src = AllSources[i], NEW tree, tree = AllTrees[i]
  PROVE  SourceOK(src, tree)' /\ IsTree(tree)
<1> DEFINE n == Len(Discovered)
<1>0. n \in Nat /\ Len(statics) \in Nat /\ Locked \in Nat /\ Len(Singles) \in Nat /\ n = Locked + Len(Singles)
  BY AllAt, DiscoveredAt
<1>1. i \in 1..Locked \/ i \in (Locked + 1)..(Locked + Len(Singles)) \/ i \in (n + 1)..(n + Len(statics))
  <2>1. i \in 1..(n + Len(statics))
    BY AllAt
  <2> QED
    BY <1>0, <2>1
<1>2. CASE i \in 1..Locked
  <2>1. i \in 1..n
    BY <1>0, <1>2
  <2>2. src = Discovered[i] /\ tree = TreeOf(src)
    BY <2>1, AllAt
  <2> DEFINE d == LuksDisks[i]
  <2>3. PICK e \in Disks : Kind[e] = "luks" /\ src = LuksSource(e)
    BY <1>2, <2>2, DiscoveredAt DEF IsLuks
  <2>4. DiskSource(src, tree)' /\ LockedSource(src)'
    BY <2>2, <2>3, LuksFound
  <2>5. DiskSource(src, tree)
    BY <2>2, <2>3, DeviceNames DEF DiskSource, LuksSource, Source
  <2> QED
    BY <2>4, <2>5, TreeOfTree DEF SourceOK
<1>3. CASE i \in (Locked + 1)..(Locked + Len(Singles))
  <2>1. i \in 1..n
    BY <1>0, <1>3
  <2>2. src = Discovered[i] /\ tree = TreeOf(src)
    BY <2>1, AllAt
  <2>3. PICK k \in DOMAIN Singles : src = SingleSource(Singles[k])
    BY <1>3, <2>2, DiscoveredAt
  <2>4. DiskSource(src, TreeOf(src))' /\ (src.state = "Encrypted" => LockedSource(src)')
    BY <2>3, SingleFound
  <2>5. IsTree(TreeOf(src))
    <3>1. PICK d \in Disks : Singles[k] = Dm(d) \/ Singles[k] = Disk(d)
      BY SingleDevice
    <3>2. src.mp = NoMount \/ src.mp = Singles[k]
      BY <2>3 DEF SingleSource, Source
    <3>3. CASE src.mp = NoMount
      <4>1. TreeOf(src) = <<>>
        BY <3>3 DEF TreeOf
      <4> QED
        BY <4>1, EmptyTree
    <3>4. CASE src.mp = Singles[k]
      <4>1. src.mp[1] \in Disks
        BY <3>1, <3>4, DeviceNames
      <4>2. TreeOf(src) = Walk(src.mp) \/ TreeOf(src) = <<>>
        BY DEF TreeOf
      <4> QED
        BY <4>1, <4>2, WalkTree, EmptyTree
    <3> QED
      BY <3>2, <3>3, <3>4
  <2> QED
    BY <2>2, <2>4, <2>5 DEF SourceOK
<1>4. CASE i \in (n + 1)..(n + Len(statics))
  <2>1. PICK k \in DOMAIN statics : /\ src = Source(statics[k].path, "Static", NoMount, FALSE)
                                    /\ tree = <<statics[k]>>
    BY <1>4, AllAt
  <2>2. src.state = "Static" /\ src.mp = NoMount /\ src.pass = FALSE
    BY <2>1 DEF Source
  <2>3. StaticSource(src, tree)'
    BY <2>1, <2>2 DEF StaticSource
  <2>4. IsTree(tree)
    <3>1. IsLeaf(statics[k])
      BY StaticAssumption DEF IsTree
    <3>2. DOMAIN tree = 1..1 /\ tree = [j \in 1..1 |-> tree[j]] /\ \A j \in 1..1 : tree[j] = statics[k]
      BY <2>1
    <3> QED
      BY <3>1, <3>2, OwnElements DEF IsTree
  <2> QED
    BY <2>2, <2>3, <2>4 DEF SourceOK
<1> QED
  BY <1>1, <1>2, <1>3, <1>4

\* A bcachefs disk is found once: at its place among the disks without LUKS.
LEMMA FoundOnce ==
  ASSUME KernelOK, statics \in StaticLists, NEW i \in DOMAIN AllSources, NEW d \in Disks,
         Kind[d] = "bcachefs", AllSources[i].state # "Static", AllSources[i].dev = Disk(d)
  PROVE  \E k \in DOMAIN SingleDisks : i = Locked + Mapped + k /\ SingleDisks[k] = d
<1> DEFINE n == Len(Discovered)
<1>0. /\ n \in Nat /\ Len(statics) \in Nat /\ Locked \in Nat /\ Mapped \in Nat /\ Single \in Nat
      /\ Len(Singles) = Mapped + Single /\ n = Locked + Len(Singles) /\ DOMAIN SingleDisks = 1..Single
  <2>1. DOMAIN SingleDisks = 1..Single
    BY DisksFound DEF Single
  <2> QED
    BY <2>1, AllAt, DiscoveredAt, SinglesAt
<1>1. i \in 1..n
  <2>1. i \in 1..n \/ i \in (n + 1)..(n + Len(statics))
    BY <1>0, AllAt
  <2>2. ASSUME i \in (n + 1)..(n + Len(statics))
        PROVE  FALSE
    <3>1. AllSources[i] = Source(statics[i - n].path, "Static", NoMount, FALSE)
      BY <2>2, AllAt
    <3> QED
      BY <3>1 DEF Source
  <2> QED
    BY <2>1, <2>2
<1>2. AllSources[i] = Discovered[i]
  BY <1>1, AllAt
<1>3. i \notin 1..Locked
  <2>1. ASSUME i \in 1..Locked
        PROVE  FALSE
    <3>1. Discovered[i] = LuksSource(LuksDisks[i]) /\ Kind[LuksDisks[i]] = "luks"
      BY <2>1, DiscoveredAt DEF IsLuks
    <3>2. Disk(LuksDisks[i]) = Disk(d)
      BY <1>2, <3>1, SourceFields
    <3> QED
      BY <3>1, <3>2, DeviceNames
  <2> QED
    BY <2>1
<1>4. i \in (Locked + 1)..(Locked + Len(Singles)) /\ i - Locked \in 1..(Mapped + Single)
  BY <1>0, <1>1, <1>3
<1>5. Singles[i - Locked] = Disk(d)
  <2>1. Discovered[i] = SingleSource(Singles[i - Locked])
    BY <1>4, DiscoveredAt
  <2> QED
    BY <1>2, <2>1, SourceFields
<1>6. i - Locked \notin 1..Mapped
  BY <1>5, SinglesAt, DeviceNames
<1>7. i - Locked \in (Mapped + 1)..(Mapped + Single) /\ i - Locked - Mapped \in 1..Single
  <2>1. Mapped \in Nat /\ Single \in Nat /\ i - Locked \in Int
    BY <1>0, <1>4
  <2> QED
    BY <1>4, <1>6, <2>1
<1>8. SingleDisks[i - Locked - Mapped] = d
  BY <1>5, <1>7, SinglesAt, DeviceNames
<1>9. i \in Nat /\ i = Locked + Mapped + (i - Locked - Mapped)
  BY <1>0, <1>1
<1> QED
  BY <1>0, <1>7, <1>8, <1>9

LEMMA DiscoverSources ==
  ASSUME KernelOK, KernelOK', statics \in StaticLists,
         sources' = AllSources, trees' = AllTrees, mounts' = MountsDiscovered,
         UNCHANGED <<plugged, damaged, statics, opened, keyring>>
  PROVE  SourcesOK' /\ WellFormed(AllTrees)
<1>1. DOMAIN AllTrees = DOMAIN AllSources
  BY AllAt
<1>2. \A i \in DOMAIN AllSources : SourceOK(sources[i], trees[i])' /\ IsTree(AllTrees[i])
  <2> TAKE i \in DOMAIN AllSources
  <2>1. PICK src, tree : src = AllSources[i] /\ tree = AllTrees[i]
    OBVIOUS
  <2> QED
    BY <2>1, FoundSource
<1>3. \A i, j \in DOMAIN AllSources : \A d \in Disks :
         /\ Kind[d] = "bcachefs" /\ AllSources[i].state # "Static" /\ AllSources[j].state # "Static"
         /\ AllSources[i].dev = Disk(d) /\ AllSources[j].dev = Disk(d)
         => i = j
  <2> TAKE i, j \in DOMAIN AllSources
  <2> TAKE d \in Disks
  <2> HAVE /\ Kind[d] = "bcachefs" /\ AllSources[i].state # "Static" /\ AllSources[j].state # "Static"
           /\ AllSources[i].dev = Disk(d) /\ AllSources[j].dev = Disk(d)
  <2>1. PICK k \in DOMAIN SingleDisks : i = Locked + Mapped + k /\ SingleDisks[k] = d
    BY FoundOnce
  <2>2. PICK l \in DOMAIN SingleDisks : j = Locked + Mapped + l /\ SingleDisks[l] = d
    BY FoundOnce
  <2> QED
    BY <2>1, <2>2, DisksFound
<1>4. SourcesOK'
  BY <1>1, <1>2, <1>3 DEF SourcesOK, OncePerDisk
<1>5. WellFormed(AllTrees)
  <2>1. AllTrees \in Seq({AllTrees[k] : k \in DOMAIN AllTrees})
    BY AllAt
  <2> QED
    BY <1>1, <1>2, <2>1 DEF WellFormed
<1> QED
  BY <1>4, <1>5

----------------------------------------------------------------------------
(* Unlocking *)

LEMMA OpenedMore ==
  ASSUME opened \in Seq(Disks), NEW d \in Disks, opened' = Append(opened, d)
  PROVE  /\ opened' \in Seq(Disks) /\ IsOpened(d)' /\ \A e \in Disks : IsOpened(e) => IsOpened(e)'
         /\ \A k \in DOMAIN opened' : opened'[k] = d \/ \E l \in DOMAIN opened : opened'[k] = opened[l]
<1> DEFINE n == Len(opened)
<1>1. n \in Nat /\ DOMAIN opened = 1..n
  OBVIOUS
<1>2. /\ opened' \in Seq(Disks) /\ DOMAIN opened' = 1..(n + 1) /\ opened'[n + 1] = d
      /\ \A k \in 1..n : opened'[k] = opened[k]
  BY AppendProperties
<1> HIDE DEF n
<1> QED
  BY <1>1, <1>2 DEF IsOpened

\* unlock_and_mount: whatever it returns, nothing that was mounted, mapped or unlocked
\* is any less so; a mount point it returns is in use, and its disk is unlocked.
LEMMA UnlockKernel ==
  ASSUME KernelOK, NEW d \in Disks, NEW right, NEW after, after = Unlock(d, right),
         opened' = after.opened, keyring' = after.keyring, mounts' = after.mounts, plugged' = plugged
  PROVE  /\ KernelOK'
         /\ mounts \subseteq mounts' /\ keyring \subseteq keyring' /\ \A e \in Disks : IsOpened(e) => IsOpened(e)'
         /\ IF after.mp = NoMount THEN mounts' = mounts
            ELSE /\ mounts' = mounts \cup {after.mp} /\ after.mp \in {Disk(d), Mapper(d)}
                 /\ IsOpened(d)' \/ d \in keyring'
<1> DEFINE luks == Kind[d] = "luks"
           accepted == Plugged(d) /\ right /\ Kind[d] # "plain" /\ ~(luks /\ IsOpened(d))
           dev == IF luks THEN Mapper(d) ELSE Disk(d)
           mounted == accepted /\ d \notin damaged /\ dev \notin mounts
<1>1. /\ opened' = IF accepted /\ luks THEN Append(opened, d) ELSE opened
      /\ keyring' = IF accepted /\ ~luks THEN keyring \cup {d} ELSE keyring
      /\ mounts' = IF mounted THEN mounts \cup {dev} ELSE mounts
      /\ after.mp = IF mounted THEN dev ELSE NoMount
  BY DEF Unlock
<1>2. opened \in Seq(Disks) /\ keyring \subseteq Disks /\ plugged \subseteq Disks
  BY DEF KernelOK
<1>3. /\ opened' \in Seq(Disks) /\ \A e \in Disks : IsOpened(e) => IsOpened(e)'
      /\ accepted /\ luks => IsOpened(d)'
      /\ \A k \in DOMAIN opened' : Kind[opened'[k]] = "luks"
  <2>1. CASE accepted /\ luks
    <3>1. opened' = Append(opened, d) /\ Kind[d] = "luks"
      BY <1>1, <2>1
    <3> QED
      BY <1>2, <3>1, OpenedMore DEF KernelOK
  <2>2. CASE ~(accepted /\ luks)
    <3>1. opened' = opened
      BY <1>1, <2>2
    <3> QED
      BY <1>2, <2>2, <3>1 DEF IsOpened, KernelOK
  <2> QED
    BY <2>1, <2>2
<1>4. keyring \subseteq keyring' /\ keyring' \subseteq Disks /\ (accepted /\ ~luks => d \in keyring')
  BY <1>1, <1>2
<1>5. IF after.mp = NoMount THEN mounts' = mounts
      ELSE mounts' = mounts \cup {after.mp} /\ after.mp = dev /\ mounted
  <2>1. dev # NoMount
    BY DeviceNames
  <2> HIDE DEF dev, mounted
  <2> QED
    BY <1>1, <2>1
<1>6. ASSUME NEW e \in Disks, Mapper(e) \in mounts'
      PROVE  IsOpened(e)'
  <2>1. CASE Mapper(e) \in mounts
    BY <1>3, <2>1 DEF KernelOK
  <2>2. CASE Mapper(e) \notin mounts
    <3>1. Mapper(e) = dev /\ accepted
      BY <1>5, <1>6, <2>2
    <3>2. luks /\ e = d
      BY <3>1, DeviceNames
    <3> QED
      BY <1>3, <3>1, <3>2
  <2> QED
    BY <2>1, <2>2
<1>7. ASSUME NEW e \in Disks, Kind[e] = "bcachefs", Disk(e) \in mounts'
      PROVE  e \in keyring'
  <2>1. CASE Disk(e) \in mounts
    BY <1>4, <1>7, <2>1 DEF KernelOK
  <2>2. CASE Disk(e) \notin mounts
    <3>1. Disk(e) = dev /\ accepted
      BY <1>5, <1>7, <2>2
    <3>2. ~luks /\ e = d
      BY <3>1, DeviceNames
    <3> QED
      BY <1>4, <3>1, <3>2
  <2> QED
    BY <2>1, <2>2
<1>8. KernelOK'
  BY <1>2, <1>3, <1>4, <1>6, <1>7 DEF KernelOK
<1>9. after.mp # NoMount => after.mp \in {Disk(d), Mapper(d)} /\ (IsOpened(d)' \/ d \in keyring')
  BY <1>3, <1>4, <1>5
<1> QED
  BY <1>3, <1>4, <1>5, <1>8, <1>9

\* What was so of a source stays so.
LEMMA SourceKept ==
  ASSUME mounts \subseteq mounts', keyring \subseteq keyring', \A e \in Disks : IsOpened(e) => IsOpened(e)',
         UNCHANGED statics, NEW src, NEW tree
  PROVE  /\ StaticSource(src, tree) => StaticSource(src, tree)'
         /\ DiskSource(src, tree) => DiskSource(src, tree)'
<1>1. StaticSource(src, tree) => StaticSource(src, tree)'
  BY DEF StaticSource
<1>2. ASSUME DiskSource(src, tree)
      PROVE  DiskSource(src, tree)'
  BY <1>2 DEF DiskSource
<1> QED
  BY <1>1, <1>2

\* A source that stays locked is not the one that was mounted.
LEMMA LockedKept ==
  ASSUME NEW src, LockedSource(src), UNCHANGED damaged,
         Kind[src.dev[1]] = "bcachefs" => Disk(src.dev[1]) \notin mounts' \/ Disk(src.dev[1]) \in mounts
  PROVE  LockedSource(src)'
BY DEF LockedSource

\* Nor does it come to be there twice.
LEMMA OnceKept ==
  ASSUME OncePerDisk, DOMAIN sources' = DOMAIN sources,
         \A j \in DOMAIN sources : /\ sources'[j].dev = sources[j].dev
                                   /\ sources'[j].state = "Static" <=> sources[j].state = "Static"
  PROVE  OncePerDisk'
BY DEF OncePerDisk

\* The source that is unlocked: what it was, and what it becomes.
LEMMA SubmitOpensSources ==
  ASSUME KernelOK, SourcesOK, NEW i \in DOMAIN sources, sources[i].state = "Encrypted",
         NEW right, NEW after, after = Unlock(sources[i].dev[1], right), after.mp # NoMount,
         opened' = after.opened, keyring' = after.keyring, mounts' = after.mounts,
         sources' = [sources EXCEPT ![i] = Source(sources[i].dev, "Mounted", after.mp, TRUE)],
         trees' = [trees EXCEPT ![i] = TreeOf(sources'[i])],
         UNCHANGED <<plugged, damaged, statics>>
  PROVE  KernelOK' /\ SourcesOK'
<1>1. PICK d \in Disks : sources[i].dev = Disk(d) /\ sources[i].dev[1] = d /\ Kind[d] # "plain"
  BY DEF SourcesOK, SourceOK, LockedSource
<1>2. /\ KernelOK'
      /\ mounts \subseteq mounts' /\ keyring \subseteq keyring' /\ \A e \in Disks : IsOpened(e) => IsOpened(e)'
      /\ mounts' = mounts \cup {after.mp} /\ after.mp \in {Disk(d), Mapper(d)}
      /\ IsOpened(d)' \/ d \in keyring'
  BY <1>1, UnlockKernel
<1>3. PICK src : src = Source(Disk(d), "Mounted", after.mp, TRUE)
  OBVIOUS
<1>4. src.dev = Disk(d) /\ src.state = "Mounted" /\ src.mp = after.mp /\ src.pass = TRUE
  BY <1>3 DEF Source
<1>5. /\ DOMAIN sources' = DOMAIN sources /\ DOMAIN trees' = DOMAIN sources
      /\ sources'[i] = src /\ trees'[i] = TreeOf(src)
      /\ \A j \in DOMAIN sources : j # i => sources'[j] = sources[j] /\ trees'[j] = trees[j]
  BY <1>1, <1>3 DEF SourcesOK
<1>6. DiskSource(src, TreeOf(src))'
  <2>1. src.dev[1] = d
    BY <1>4, DeviceNames
  <2> QED
    BY <1>2, <1>4, <2>1 DEF DiskSource
<1>7. \A j \in DOMAIN sources : \A e \in Disks :
         /\ Kind[e] = "bcachefs" /\ sources[j].state # "Static" /\ sources[j].dev = Disk(e) /\ d = e
         => j = i
  <2> TAKE j \in DOMAIN sources
  <2> TAKE e \in Disks
  <2> HAVE Kind[e] = "bcachefs" /\ sources[j].state # "Static" /\ sources[j].dev = Disk(e) /\ d = e
  <2> QED
    BY <1>1 DEF SourcesOK, OncePerDisk
<1>8. ASSUME NEW j \in DOMAIN sources, j # i
      PROVE  SourceOK(sources[j], trees[j])'
  <2>1. PICK s, t : s = sources[j] /\ t = trees[j] /\ s = sources'[j] /\ t = trees'[j]
    BY <1>5, <1>8
  <2>2. (StaticSource(s, t) \/ DiskSource(s, t))'
    <3>1. StaticSource(s, t) \/ DiskSource(s, t)
      BY <2>1 DEF SourcesOK, SourceOK
    <3> QED
      BY <1>2, <3>1, SourceKept
  <2>3. ASSUME s.state = "Encrypted"
        PROVE  LockedSource(s)'
    <3>1. LockedSource(s)
      BY <2>1, <2>3 DEF SourcesOK, SourceOK
    <3>2. PICK e \in Disks : s.dev = Disk(e) /\ s.dev[1] = e
      BY <3>1 DEF LockedSource
    <3>3. Kind[e] = "bcachefs" => e # d
      BY <1>7, <1>8, <2>1, <2>3, <3>2
    <3>4. Kind[e] = "bcachefs" => Disk(e) \notin mounts' \/ Disk(e) \in mounts
      BY <1>2, <3>3, DeviceNames
    <3> QED
      BY <3>1, <3>2, <3>4, LockedKept
  <2> QED
    BY <2>1, <2>2, <2>3 DEF SourceOK
<1>9. \A j \in DOMAIN sources : SourceOK(sources[j], trees[j])'
  <2> TAKE j \in DOMAIN sources
  <2>1. CASE j = i
    BY <1>4, <1>5, <1>6, <2>1 DEF SourceOK
  <2> QED
    BY <1>8, <2>1
<1>10. \A j \in DOMAIN sources : /\ sources'[j].dev = sources[j].dev
                                 /\ sources'[j].state = "Static" <=> sources[j].state = "Static"
  BY <1>1, <1>4, <1>5
<1>11. OncePerDisk'
  BY <1>5, <1>10, OnceKept DEF SourcesOK
<1>12. SourcesOK'
  BY <1>5, <1>9, <1>11 DEF SourcesOK
<1> QED
  BY <1>2, <1>12

LEMMA SubmitFailsSources ==
  ASSUME KernelOK, SourcesOK, NEW i \in DOMAIN sources, sources[i].state = "Encrypted",
         NEW right, NEW after, after = Unlock(sources[i].dev[1], right), after.mp = NoMount,
         opened' = after.opened, keyring' = after.keyring, mounts' = after.mounts,
         UNCHANGED <<plugged, damaged, statics, sources, trees>>
  PROVE  KernelOK' /\ SourcesOK' /\ mounts' = mounts
<1>1. sources[i].dev[1] \in Disks
  BY DEF SourcesOK, SourceOK, LockedSource
<1>2. /\ KernelOK'
      /\ mounts' = mounts /\ keyring \subseteq keyring' /\ \A e \in Disks : IsOpened(e) => IsOpened(e)'
  BY <1>1, UnlockKernel
<1>3. ASSUME NEW j \in DOMAIN sources
      PROVE  SourceOK(sources[j], trees[j])'
  <2>1. PICK s, t : s = sources[j] /\ t = trees[j] /\ s = sources'[j] /\ t = trees'[j]
    OBVIOUS
  <2>2. (StaticSource(s, t) \/ DiskSource(s, t))'
    <3>1. StaticSource(s, t) \/ DiskSource(s, t)
      BY <2>1 DEF SourcesOK, SourceOK
    <3> QED
      BY <1>2, <3>1, SourceKept
  <2>3. s.state = "Encrypted" => LockedSource(s)'
    BY <1>2, <2>1, LockedKept DEF SourcesOK, SourceOK
  <2> QED
    BY <2>1, <2>2, <2>3 DEF SourceOK
<1>4. SourcesOK'
  BY <1>3 DEF SourcesOK, OncePerDisk
<1> QED
  BY <1>2, <1>4

----------------------------------------------------------------------------
(* The view *)

LEMMA EntryNodesMember ==
  ASSUME NEW v, NEW n
  PROVE  n \in EntryNodes(v) <=>
            \E i \in DOMAIN v.state : \E j \in DOMAIN v.trees[i] : \E k \in DOMAIN v.trees[i][j].entries :
               v.state[i] \in {"Mounted", "Static"} /\ n = <<i, j, k>>
BY DEF EntryNodes

\* The nodes of the default have a first one.
LEMMA FirstDefaultIsOne ==
  ASSUME NEW v, WellFormed(v.trees), DOMAIN v.state = DOMAIN v.trees, DefaultNodes(v) # {}
  PROVE  FirstDefault(v) \in DefaultNodes(v)
<1> DEFINE N == DefaultNodes(v)
<1>1. \A n \in N : n = <<n[1], n[2], n[3]>> /\ n[1] \in Nat /\ n[2] \in Nat /\ n[3] \in Nat
  <2> TAKE n \in N
  <2>1. n \in EntryNodes(v)
    BY DEF DefaultNodes
  <2>2. PICK i \in DOMAIN v.trees :
           \E j \in DOMAIN v.trees[i] : \E k \in DOMAIN v.trees[i][j].entries : n = <<i, j, k>>
    BY <2>1, EntryNodesMember
  <2>3. PICK j \in DOMAIN v.trees[i] : \E k \in DOMAIN v.trees[i][j].entries : n = <<i, j, k>>
    BY <2>2
  <2>4. PICK k \in DOMAIN v.trees[i][j].entries : n = <<i, j, k>>
    BY <2>3
  <2>5. /\ v.trees \in Seq({v.trees[l] : l \in DOMAIN v.trees})
        /\ v.trees[i] \in Seq({v.trees[i][l] : l \in DOMAIN v.trees[i]})
        /\ v.trees[i][j].entries \in Seq(STRING)
    BY DEF WellFormed, IsTree, IsLeaf
  <2>6. i \in Nat
    BY <2>5
  <2>7. j \in Nat
    BY <2>5
  <2>8. k \in Nat
    <3>1. v.trees[i][j].entries \in Seq(STRING)
      BY <2>5
    <3> QED
      BY <3>1
  <2> QED
    BY <2>4, <2>6, <2>7, <2>8
<1> HIDE DEF N
<1> DEFINE I == {n[1] : n \in N}
<1>2. PICK i \in I : \A l \in I : i <= l
  <2>1. N # {}
    BY DEF N
  <2>2. I # {} /\ I \in SUBSET Nat
    BY <1>1, <2>1
  <2> QED
    BY <2>2, LeastNat
<1> DEFINE J == {j \in Nat : \E k \in Nat : <<i, j, k>> \in N}
<1>3. J # {}
  BY <1>1
<1>4. PICK j \in J : \A l \in J : j <= l
  BY <1>3, LeastNat
<1> DEFINE K == {k \in Nat : <<i, j, k>> \in N}
<1>5. PICK k \in K : \A l \in K : k <= l
  BY LeastNat
<1> DEFINE f == <<i, j, k>>
<1>6. f \in N /\ i \in Nat /\ j \in Nat /\ k \in Nat
  BY <1>1
<1>7. ASSUME NEW n \in N, n # f
      PROVE  NodeBefore(f, n)
  <2>1. n = <<n[1], n[2], n[3]>> /\ n[1] \in Nat /\ n[2] \in Nat /\ n[3] \in Nat /\ i <= n[1]
    BY <1>1, <1>2
  <2>2. n[1] = i => j <= n[2]
    BY <1>4, <2>1
  <2>3. n[1] = i /\ n[2] = j => k <= n[3] /\ k # n[3]
    BY <1>5, <1>7, <2>1
  <2> QED
    BY <1>6, <2>1, <2>2, <2>3 DEF NodeBefore
<1> HIDE DEF f
<1> QED
  BY <1>6, <1>7 DEF FirstDefault, N

\* A leaf in the tree of a source is on a filesystem that is mounted, or of the image.
LEMMA LeafPlace ==
  ASSUME NEW src, NEW tree, SourceOK(src, tree), NEW j \in DOMAIN tree
  PROVE  \/ src.state = "Static" /\ \E n \in DOMAIN statics : statics[n].path = tree[j].path
         \/ /\ src.state = "Mounted" /\ DiskSource(src, tree)
            /\ tree[j].path[1] = src.mp /\ src.mp \in mounts /\ src.mp[1] = src.dev[1]
<1>1. CASE StaticSource(src, tree)
  <2>1. PICK n \in DOMAIN statics : tree = <<statics[n]>>
    BY <1>1 DEF StaticSource
  <2>2. tree[j] = statics[n]
    BY <2>1
  <2> QED
    BY <1>1, <2>2 DEF StaticSource
<1>2. CASE DiskSource(src, tree)
  <2>1. src.state = "Mounted" /\ src.mp # NoMount
    <3>1. CASE ~(src.state = "Mounted" /\ src.mp # NoMount)
      <4>1. tree = <<>>
        BY <1>2, <3>1 DEF DiskSource, TreeOf
      <4> QED
        BY <4>1
    <3> QED
      BY <3>1
  <2>2. src.mp \in mounts /\ src.mp[1] = src.dev[1] /\ tree = Walk(src.mp)
    BY <1>2, <2>1, DeviceNames DEF DiskSource, TreeOf
  <2> QED
    BY <1>2, <2>1, <2>2, WalkPaths
<1> QED
  BY <1>1, <1>2 DEF SourceOK

\* A node of the view is a node of the source at its index.
LEMMA NodePlace ==
  ASSUME SourcesOK, view = BuildView(sources, trees, view.default), NEW n \in EntryNodes(view)
  PROVE  /\ n[1] \in DOMAIN sources /\ SourceOK(sources[n[1]], trees[n[1]])
         /\ n[2] \in DOMAIN trees[n[1]] /\ view.trees[n[1]][n[2]] = trees[n[1]][n[2]]
         /\ NodeSelection(view, n).path = trees[n[1]][n[2]].path
         /\ NodeSelection(view, n) = Selection(NodeSelection(view, n).path, NodeSelection(view, n).entry)
<1>1. view.trees = trees /\ DOMAIN view.state = DOMAIN sources
  BY DEF BuildView
<1>2. \E i \in DOMAIN view.state : \E j \in DOMAIN view.trees[i] :
         n[1] = i /\ n[2] = j
  BY EntryNodesMember
<1>3. n[1] \in DOMAIN sources /\ n[2] \in DOMAIN trees[n[1]]
  BY <1>1, <1>2
<1>4. SourceOK(sources[n[1]], trees[n[1]])
  BY <1>3 DEF SourcesOK
<1>5. /\ NodeSelection(view, n).path = view.trees[n[1]][n[2]].path
      /\ NodeSelection(view, n) = Selection(NodeSelection(view, n).path, NodeSelection(view, n).entry)
  BY DEF NodeSelection, Selection
<1> QED
  BY <1>1, <1>3, <1>4, <1>5

\* The same of the next state.
LEMMA LeafPlaceNext ==
  ASSUME NEW src, NEW tree, SourceOK(src, tree)', NEW j \in DOMAIN tree
  PROVE  tree[j].path[1] \in mounts' \/ \E n \in DOMAIN statics' : statics'[n].path = tree[j].path
<1>1. CASE StaticSource(src, tree)'
  <2>1. PICK n \in DOMAIN statics' : tree = <<statics'[n]>>
    BY <1>1 DEF StaticSource
  <2>2. tree[j] = statics'[n]
    BY <2>1
  <2> QED
    BY <2>2
<1>2. CASE DiskSource(src, tree)'
  <2>1. src.state = "Mounted" /\ src.mp # NoMount
    <3>1. CASE ~(src.state = "Mounted" /\ src.mp # NoMount)
      <4>1. tree = <<>>
        BY <1>2, <3>1 DEF DiskSource, TreeOf
      <4> QED
        BY <4>1
    <3> QED
      BY <3>1
  <2>2. src.mp \in mounts' /\ tree = Walk(src.mp)
    BY <1>2, <2>1, DeviceNames DEF DiskSource, TreeOf
  <2> QED
    BY <2>2, WalkPaths
<1> QED
  BY <1>1, <1>2 DEF SourceOK

----------------------------------------------------------------------------
(* The invariant at each step *)

LEMMA MenuInitial == Init => MInv
<1> SUFFICES ASSUME Init PROVE MInv
  OBVIOUS
<1> USE DEF Init
<1>1. KernelOK
  BY DEF KernelOK
<1>2. SourcesOK
  BY DEF SourcesOK, OncePerDisk
<1>3. ViewOK /\ CountdownOK /\ ResultOK
  BY DEF ViewOK, CountdownOK, ResultOK
<1>4. SideOK
  BY DepthAssumption DEF SideOK, NoSide
<1> QED
  BY <1>1, <1>2, <1>3, <1>4 DEF MInv

\* Only disks come and go, or only the view, the side screen and the result change.
LEMMA CoreKept ==
  ASSUME KernelOK, SourcesOK, plugged' \subseteq Disks,
         UNCHANGED <<damaged, statics, kernel, sources, trees>>
  PROVE  KernelOK' /\ SourcesOK'
<1>1. KernelOK'
  BY DEF kernel, KernelOK, IsOpened
<1>2. ASSUME NEW j \in DOMAIN sources
      PROVE  SourceOK(sources[j], trees[j])'
  <2>1. PICK s, t : s = sources[j] /\ t = trees[j] /\ s = sources'[j] /\ t = trees'[j]
    OBVIOUS
  <2>2. (StaticSource(s, t) \/ DiskSource(s, t))'
    <3>1. StaticSource(s, t) \/ DiskSource(s, t)
      BY <2>1 DEF SourcesOK, SourceOK
    <3> QED
      BY <3>1, SourceKept DEF kernel, IsOpened
  <2>3. s.state = "Encrypted" => LockedSource(s)'
    BY <2>1, LockedKept DEF SourcesOK, SourceOK, kernel
  <2> QED
    BY <2>1, <2>2, <2>3 DEF SourceOK
<1>3. SourcesOK'
  BY <1>2 DEF SourcesOK, OncePerDisk
<1> QED
  BY <1>1, <1>3

\* What stays of the rest of the invariant when nothing of it changes.
LEMMA PlugKept ==
  ASSUME MInv, NEW d \in Disks, Plug(d) \/ Unplug(d)
  PROVE  MInv'
<1>1. plugged' \subseteq Disks /\ UNCHANGED <<damaged, statics, efi, kernel, session>>
  BY DEF Plug, Unplug, MInv, KernelOK
<1>2. KernelOK' /\ SourcesOK'
  BY <1>1, CoreKept DEF MInv, session
<1>3. ViewOK' /\ SideOK' /\ CountdownOK'
  BY <1>1 DEF MInv, session, ViewOK, SideOK, CountdownOK
<1>4. phase # "ended"
  BY DEF Plug, Unplug
<1>5. ResultOK'
  BY <1>1, <1>4 DEF MInv, session, ResultOK
<1> QED
  BY <1>1, <1>2, <1>3, <1>5 DEF MInv, session

\* Start, once it has discovered.
LEMMA StartDiscovers ==
  ASSUME MInv, Refresh \/ StartAutoDefault \/ \E timeout \in BOOLEAN : Start(timeout)
  PROVE  /\ sources' = AllSources /\ trees' = AllTrees
         /\ KernelOK' /\ SourcesOK' /\ WellFormed(AllTrees)
         /\ damaged' \subseteq Disks /\ statics' \in StaticLists
<1>1. /\ sources' = AllSources /\ trees' = AllTrees /\ mounts' = MountsDiscovered
      /\ UNCHANGED <<env, opened, keyring>>
  BY DEF Refresh, StartAutoDefault, Start
<1>2. KernelOK'
  BY <1>1, DiscoverKernel DEF MInv, env
<1>3. SourcesOK' /\ WellFormed(AllTrees)
  BY <1>1, <1>2, DiscoverSources DEF MInv, env
<1> QED
  BY <1>1, <1>2, <1>3 DEF MInv, env

\* A view that was just built shows the sources.
LEMMA StartPreserves ==
  ASSUME MInv, NEW timeout \in BOOLEAN, Start(timeout)
  PROVE  MInv'
<1>1. /\ sources' = AllSources /\ trees' = AllTrees /\ KernelOK' /\ SourcesOK' /\ WellFormed(AllTrees)
      /\ damaged' \subseteq Disks /\ statics' \in StaticLists
  BY StartDiscovers
<1>2. phase = "start" /\ view = EmptyView /\ side' = side /\ side = NoSide /\ result = NoResult /\ efi' = efi
  BY DEF MInv, Start, ResultOK, env
<1>3. SideOK' /\ side'.kind = "none"
  BY <1>2, DepthAssumption DEF SideOK, NoSide
<1>4. CASE AllSources = <<>>
  <2>1. phase' = "ended" /\ result' = Plain("Error", <<>>) /\ view' = view
    BY <1>4 DEF Start, End
  <2>2. ViewOK' /\ CountdownOK'
    BY <1>2, <2>1 DEF ViewOK, CountdownOK
  <2>3. ResultOK'
    BY <2>1 DEF ResultOK, Plain
  <2> QED
    BY <1>1, <1>3, <2>1, <2>2, <2>3 DEF MInv
<1>5. CASE AllSources # <<>>
  <2>1. /\ view' = BuildView(AllSources, AllTrees, ResolveDefault(AllTrees, efi))
        /\ phase' \in {"countdown", "menu"} /\ result' = result
        /\ phase' = "countdown" => ResolveDefault(AllTrees, efi) # None
    BY <1>5 DEF Start
  <2>2. view'.default = ResolveDefault(AllTrees, efi)
    BY <2>1 DEF BuildView
  <2>3. ViewOK' /\ CountdownOK'
    BY <1>1, <1>2, <1>3, <2>1, <2>2 DEF ViewOK, CountdownOK
  <2>4. ResultOK'
    BY <1>2, <2>1 DEF ResultOK
  <2> QED
    BY <1>1, <1>3, <2>1, <2>3, <2>4 DEF MInv
<1> QED
  BY <1>4, <1>5

LEMMA AutoDefaultPreserves ==
  ASSUME MInv, StartAutoDefault
  PROVE  MInv'
<1>1. /\ sources' = AllSources /\ trees' = AllTrees /\ KernelOK' /\ SourcesOK' /\ WellFormed(AllTrees)
      /\ damaged' \subseteq Disks /\ statics' \in StaticLists
  BY StartDiscovers
<1>2. /\ phase = "start" /\ view = EmptyView /\ view' = view /\ side' = side /\ side = NoSide
      /\ efi' = efi /\ phase' = "ended"
  BY DEF MInv, StartAutoDefault, env, End
<1>3. ViewOK' /\ CountdownOK' /\ SideOK'
  BY <1>2, DepthAssumption DEF ViewOK, CountdownOK, SideOK, NoSide
<1>4. PICK sel : sel = ResolveDefault(AllTrees, efi)
  OBVIOUS
<1>5. CASE sel = None
  <2>1. result' = Plain("Error", <<>>)
    BY <1>4, <1>5 DEF StartAutoDefault, End
  <2> QED
    BY <1>1, <1>2, <1>3, <2>1 DEF MInv, ResultOK, Plain
<1>6. CASE sel # None
  <2>1. result' = Booted(sel, NoKey, "default")
    BY <1>4, <1>6 DEF StartAutoDefault, End
  <2>2. /\ result'.kind = "Boot" /\ result'.path = sel.path /\ result'.entry = sel.entry
        /\ result'.key = NoKey /\ result'.by = "default"
    BY <2>1 DEF Booted
  <2>3. PICK p \in Places(AllTrees) : \E k \in DOMAIN LeafAt(AllTrees, p).entries : sel = EntryAt(AllTrees, p, k)
    BY <1>1, <1>4, <1>6, SelectionIsThere DEF EntriesIn
  <2>4. PICK i, j, tree : i \in DOMAIN AllTrees /\ tree = AllTrees[i] /\ j \in DOMAIN tree /\ sel.path = tree[j].path
    BY <2>3 DEF Places, LeafAt, EntryAt, Selection
  <2>5. PICK src : src = AllSources[i] /\ SourceOK(src, tree)'
    BY <1>1, <2>4 DEF SourcesOK
  <2>6. sel.path[1] \in mounts' \/ \E n \in DOMAIN statics' : statics'[n].path = sel.path
    BY <2>4, <2>5, LeafPlaceNext
  <2>7. SpecAllows(AllTrees, efi, sel)
    BY <1>1, <1>4, SelectionAllowed
  <2>8. Selection(sel.path, sel.entry) = sel
    BY <2>3 DEF EntryAt, Selection
  <2>9. KeyBelongsToLeaf'
    BY <2>2 DEF KeyBelongsToLeaf
  <2>10. BootResultOK'
    BY <1>1, <1>2, <2>2, <2>6, <2>7, <2>8, <2>9 DEF BootResultOK
  <2> QED
    BY <1>1, <1>2, <1>3, <2>2, <2>10 DEF MInv, ResultOK
<1> QED
  BY <1>5, <1>6

LEMMA RefreshPreserves ==
  ASSUME MInv, Refresh
  PROVE  MInv'
<1>1. /\ sources' = AllSources /\ trees' = AllTrees /\ KernelOK' /\ SourcesOK'
      /\ damaged' \subseteq Disks /\ statics' \in StaticLists
  BY StartDiscovers
<1>2. /\ phase = "menu" /\ side.kind = "none"
      /\ view' = BuildView(AllSources, AllTrees, ResolveDefault(AllTrees, None))
      /\ UNCHANGED <<phase, side, result>>
  BY DEF Refresh, InMenu
<1>3. view'.default = ResolveDefault(AllTrees, None)
  BY <1>2 DEF BuildView
<1>4. ViewOK' /\ CountdownOK'
  BY <1>1, <1>2, <1>3 DEF ViewOK, CountdownOK
<1>5. SideOK' /\ ResultOK'
  BY <1>2 DEF MInv, SideOK, ResultOK
<1> QED
  BY <1>1, <1>2, <1>4, <1>5 DEF MInv

\* An entry node that is booted: its leaf is where the source at its index is, and so is
\* the disk of the key.
LEMMA BootNodeResult ==
  ASSUME MInv, phase \in {"countdown", "menu"}, NEW n \in EntryNodes(view), NEW by, BootNode(n, by),
         by = "default" => SpecAllows(trees, efi, NodeSelection(view, n)),
         UNCHANGED <<env, kernel, sources, trees, default, view, side>>
  PROVE  MInv'
<1>1. /\ SourcesOK /\ KernelOK /\ view = BuildView(sources, trees, view.default)
  BY DEF MInv, ViewOK
<1>2. PICK src, tree, j : /\ n[1] \in DOMAIN sources /\ src = sources[n[1]] /\ tree = trees[n[1]] /\ j = n[2]
                          /\ SourceOK(src, tree) /\ j \in DOMAIN tree
                          /\ NodeSelection(view, n).path = tree[j].path
  BY <1>1, NodePlace
<1>3. PICK sel : /\ sel = NodeSelection(view, n) /\ sel = Selection(sel.path, sel.entry)
                 /\ sel.path = tree[j].path
  BY <1>1, <1>2, NodePlace
<1>4. PICK key : key \in KeyData(n[1]) /\ result' = Booted(sel, key, by) /\ phase' = "ended"
  BY <1>3 DEF BootNode
<1>5. /\ result'.kind = "Boot" /\ result'.path = sel.path /\ result'.entry = sel.entry
      /\ result'.key = key /\ result'.by = by
  BY <1>4 DEF Booted
<1>6. sel.path[1] \in mounts \/ \E m \in DOMAIN statics : statics[m].path = sel.path
  BY <1>2, <1>3, LeafPlace
<1>7. ASSUME key # NoKey
      PROVE  sel.path[1][1] = key[1] /\ (IsOpened(key[1]) \/ key[1] \in keyring)
  <2>1. src.pass /\ key = src.dev
    BY <1>2, <1>4, <1>7 DEF KeyData
  <2>2. src.state # "Static"
    BY <1>2, <2>1 DEF SourceOK, StaticSource, DiskSource
  <2>3. DiskSource(src, tree) /\ sel.path[1] = src.mp /\ src.mp[1] = src.dev[1]
    BY <1>2, <1>3, <2>2, LeafPlace
  <2>4. IsOpened(src.dev[1]) \/ src.dev[1] \in keyring
    BY <2>1, <2>3 DEF DiskSource
  <2> QED
    BY <2>1, <2>3, <2>4
<1>8. KeyBelongsToLeaf'
  <2>1. keyring' = keyring /\ \A d : IsOpened(d)' <=> IsOpened(d)
    BY DEF kernel, IsOpened
  <2> QED
    BY <1>5, <1>7, <2>1 DEF KeyBelongsToLeaf
<1>9. BootResultOK'
  <2>1. UNCHANGED <<mounts, statics, trees, efi>>
    BY DEF env, kernel
  <2> QED
    BY <1>3, <1>5, <1>6, <1>8, <2>1 DEF BootResultOK
<1>10. KernelOK' /\ SourcesOK'
  <2>1. plugged' \subseteq Disks /\ UNCHANGED <<damaged, statics>>
    BY <1>1 DEF env, KernelOK
  <2> QED
    BY <1>1, <2>1, CoreKept
<1>11. ViewOK' /\ CountdownOK' /\ ResultOK'
  BY <1>4, <1>5, <1>9 DEF MInv, ViewOK, CountdownOK, ResultOK
<1>12. SideOK'
  <2>1. side.kind # "none" => phase \in {"menu", "ended"}
    BY DEF MInv, SideOK
  <2> QED
    BY <1>4 DEF MInv, SideOK
<1> QED
  BY <1>4, <1>10, <1>11, <1>12 DEF MInv, env

\* The default node, if there is one, is what was resolved; boot_default takes it.
LEMMA ExpiresPreserves ==
  ASSUME MInv, CountdownExpires
  PROVE  MInv'
<1>1. /\ phase = "countdown" /\ WellFormed(trees) /\ side.kind = "none"
      /\ view.default = ResolveDefault(trees, efi)
      /\ view = BuildView(sources, trees, view.default) /\ DOMAIN trees = DOMAIN sources
  BY DEF MInv, CountdownExpires, CountdownOK, ViewOK, SourcesOK
<1>2. UNCHANGED <<env, kernel, sources, trees, default, view, side>>
  BY DEF CountdownExpires
<1>3. CASE DefaultNodes(view) = {}
  <2>1. phase' = "menu" /\ result' = result
    BY <1>3 DEF CountdownExpires
  <2>2. KernelOK' /\ SourcesOK'
    <3>1. plugged' \subseteq Disks /\ UNCHANGED <<damaged, statics>>
      BY <1>2 DEF MInv, env, KernelOK
    <3> QED
      BY <1>2, <3>1, CoreKept DEF MInv
  <2>3. ViewOK' /\ CountdownOK' /\ ResultOK' /\ SideOK'
    BY <1>1, <1>2, <2>1 DEF MInv, ViewOK, CountdownOK, ResultOK, SideOK
  <2> QED
    BY <1>2, <2>1, <2>2, <2>3 DEF MInv, env
<1>4. CASE DefaultNodes(view) # {}
  <2>1. PICK n : n = FirstDefault(view)
    OBVIOUS
  <2>2. view.trees = trees /\ DOMAIN view.state = DOMAIN view.trees
    BY <1>1 DEF BuildView
  <2>3. n \in EntryNodes(view) /\ NodeSelection(view, n) = view.default
    BY <1>1, <1>4, <2>1, <2>2, FirstDefaultIsOne DEF DefaultNodes
  <2>4. SpecAllows(trees, efi, NodeSelection(view, n))
    BY <1>1, <2>3, SelectionAllowed
  <2>5. BootNode(n, "default")
    BY <1>4, <2>1 DEF CountdownExpires
  <2> QED
    BY <1>1, <1>2, <2>3, <2>4, <2>5, BootNodeResult
<1> QED
  BY <1>3, <1>4

LEMMA BootEntryPreserves ==
  ASSUME MInv, NEW n \in EntryNodes(view), BootEntry(n)
  PROVE  MInv'
<1>1. phase = "menu" /\ BootNode(n, "user") /\ UNCHANGED <<env, kernel, sources, trees, default, view, side>>
  BY DEF BootEntry, InMenu
<1> QED
  BY <1>1, BootNodeResult

\* A step that ends in the menu and may change only the side screen.
LEMMA SidePreserves ==
  ASSUME MInv, phase \in {"countdown", "menu"}, phase' = "menu", SideOK',
         UNCHANGED <<env, kernel, sources, trees, default, view, result>>
  PROVE  MInv'
<1>1. KernelOK' /\ SourcesOK'
  <2>1. plugged' \subseteq Disks /\ UNCHANGED <<damaged, statics>>
    BY DEF MInv, env, KernelOK
  <2> QED
    BY <2>1, CoreKept DEF MInv
<1>2. ViewOK' /\ CountdownOK' /\ ResultOK'
  BY DEF MInv, ViewOK, CountdownOK, ResultOK
<1> QED
  BY <1>1, <1>2 DEF MInv, env

\* A step that ends the session without an entry.
LEMMA EndPreserves ==
  ASSUME MInv, phase = "menu", NEW kind \in {"BootFile", "Shell", "Quit", "Panic", "Error"}, NEW path,
         End(Plain(kind, path)), UNCHANGED <<env, kernel, sources, trees, default, view, side>>
  PROVE  MInv'
<1>1. phase' = "ended" /\ result'.kind = kind /\ result'.by = "user"
  BY DEF End, Plain
<1>2. KernelOK' /\ SourcesOK'
  <2>1. plugged' \subseteq Disks /\ UNCHANGED <<damaged, statics>>
    BY DEF MInv, env, KernelOK
  <2> QED
    BY <2>1, CoreKept DEF MInv
<1>3. ViewOK' /\ CountdownOK' /\ ResultOK' /\ SideOK'
  BY <1>1 DEF MInv, ViewOK, CountdownOK, ResultOK, SideOK
<1> QED
  BY <1>1, <1>2, <1>3 DEF MInv, env

\* A locked source is unlocked, or stays locked with the side screen.
LEMMA SubmitPreserves ==
  ASSUME MInv, NEW right \in BOOLEAN, SubmitOpens(right) \/ SubmitFails(right)
  PROVE  MInv'
<1>1. PICK i \in DOMAIN sources : i = side.idx /\ sources[i].state = "Encrypted" /\ phase = "menu"
  BY DEF MInv, SideOK, SubmitOpens, SubmitFails, Prompting
<1>2. PICK after : after = Unlock(sources[i].dev[1], right)
  OBVIOUS
<1>3. UNCHANGED <<env, phase, default, result>>
  BY DEF SubmitOpens, SubmitFails
<1>4. opened' = after.opened /\ keyring' = after.keyring /\ mounts' = after.mounts
  BY <1>1, <1>2 DEF SubmitOpens, SubmitFails
<1>5. CASE SubmitOpens(right)
  <2>1. /\ after.mp # NoMount
        /\ sources' = [sources EXCEPT ![i] = Source(sources[i].dev, "Mounted", after.mp, TRUE)]
        /\ trees' = [trees EXCEPT ![i] = TreeOf(sources'[i])]
        /\ view' = BuildView(sources', trees', default) /\ side' = NoSide
    BY <1>1, <1>2, <1>5 DEF SubmitOpens
  <2>2. KernelOK' /\ SourcesOK'
    BY <1>1, <1>2, <1>3, <1>4, <2>1, SubmitOpensSources DEF MInv, env
  <2>3. view'.default = default
    BY <2>1 DEF BuildView
  <2>4. ViewOK' /\ CountdownOK' /\ ResultOK'
    BY <1>1, <1>3, <2>1, <2>3 DEF MInv, ViewOK, CountdownOK, ResultOK
  <2>5. SideOK'
    BY <2>1, DepthAssumption DEF SideOK, NoSide
  <2> QED
    BY <1>1, <1>3, <2>2, <2>4, <2>5 DEF MInv, env
<1>6. CASE SubmitFails(right)
  <2>1. after.mp = NoMount /\ side' = Prompt(i, TRUE) /\ UNCHANGED <<sources, trees, view>>
    BY <1>1, <1>2, <1>6 DEF SubmitFails
  <2>2. KernelOK' /\ SourcesOK'
    BY <1>1, <1>2, <1>3, <1>4, <2>1, SubmitFailsSources DEF MInv, env
  <2>3. ViewOK' /\ CountdownOK' /\ ResultOK'
    BY <1>1, <1>3, <2>1 DEF MInv, ViewOK, CountdownOK, ResultOK
  <2>4. SideOK'
    BY <1>1, <1>3, <2>1, DepthAssumption DEF SideOK, Prompt
  <2> QED
    BY <1>1, <1>3, <2>1, <2>2, <2>3, <2>4 DEF MInv, env
<1> QED
  BY <1>5, <1>6

LEMMA ScreenPreserves ==
  ASSUME MInv,
         \/ CountdownCancelled \/ ClosePrompt \/ CloseBrowser
         \/ \E i \in DOMAIN view.state : OpenPrompt(i) \/ OpenBrowser(i)
         \/ \E depth \in 0..MaxDepth : BrowseTo(depth)
  PROVE  MInv'
<1>0. phase \in {"countdown", "menu"} => view = BuildView(sources, trees, view.default)
  BY DEF MInv, ViewOK
<1>1. CASE CountdownCancelled
  <2>1. /\ phase = "countdown" /\ phase' = "menu" /\ side' = side /\ sources' = sources
        /\ UNCHANGED <<env, kernel, sources, trees, default, view, result>>
    BY <1>1 DEF CountdownCancelled
  <2>2. SideOK'
    BY <2>1 DEF MInv, SideOK
  <2> QED
    BY <2>1, <2>2, SidePreserves
<1>2. CASE ClosePrompt \/ CloseBrowser
  <2>1. /\ phase = "menu" /\ phase' = "menu" /\ side' = NoSide
        /\ UNCHANGED <<env, kernel, sources, trees, default, view, result>>
    BY <1>2 DEF ClosePrompt, CloseBrowser, Prompting, Browsing
  <2>2. SideOK'
    BY <2>1, DepthAssumption DEF SideOK, NoSide
  <2> QED
    BY <2>1, <2>2, SidePreserves
<1>3. ASSUME NEW i \in DOMAIN view.state, OpenPrompt(i)
      PROVE  MInv'
  <2>1. /\ phase = "menu" /\ phase' = "menu" /\ side' = Prompt(i, FALSE) /\ view.state[i] = "Encrypted"
        /\ UNCHANGED <<env, kernel, sources, trees, default, view, result>>
    BY <1>3 DEF OpenPrompt, InMenu
  <2>2. i \in DOMAIN sources /\ sources[i].state = "Encrypted"
    BY <1>0, <2>1 DEF BuildView, NodeState
  <2>3. SideOK'
    BY <2>1, <2>2, DepthAssumption DEF SideOK, Prompt
  <2> QED
    BY <2>1, <2>3, SidePreserves
<1>4. ASSUME NEW i \in DOMAIN view.state, OpenBrowser(i)
      PROVE  MInv'
  <2>1. /\ phase = "menu" /\ phase' = "menu" /\ side' = Browser(i, 0) /\ sources[i].mp # NoMount
        /\ UNCHANGED <<env, kernel, sources, trees, default, view, result>>
    BY <1>4 DEF OpenBrowser, InMenu
  <2>2. i \in DOMAIN sources
    BY <1>0, <2>1 DEF BuildView
  <2>3. SideOK'
    BY <2>1, <2>2, DepthAssumption DEF SideOK, Browser
  <2> QED
    BY <2>1, <2>3, SidePreserves
<1>5. ASSUME NEW depth \in 0..MaxDepth, BrowseTo(depth)
      PROVE  MInv'
  <2>1. /\ phase = "menu" /\ phase' = "menu" /\ side.kind = "browser" /\ side' = Browser(side.idx, depth)
        /\ UNCHANGED <<env, kernel, sources, trees, default, view, result>>
    BY <1>5 DEF BrowseTo, Browsing
  <2>2. SideOK'
    BY <2>1 DEF MInv, SideOK, Browser
  <2> QED
    BY <2>1, <2>2, SidePreserves
<1> QED
  BY <1>1, <1>2, <1>3, <1>4, <1>5

LEMMA LeavePreserves ==
  ASSUME MInv, BrowseNothing \/ BootFile \/ \E how \in {"Shell", "Quit"} : Leave(how)
  PROVE  MInv'
<1>1. CASE BrowseNothing
  BY <1>1, EndPreserves DEF BrowseNothing, InMenu
<1>2. CASE BootFile
  BY <1>2, EndPreserves DEF BootFile, Browsing
<1>3. ASSUME NEW how \in {"Shell", "Quit"}, Leave(how)
      PROVE  MInv'
  BY <1>3, EndPreserves DEF Leave, InMenu
<1> QED
  BY <1>1, <1>2, <1>3

LEMMA IdlePreserves ==
  ASSUME MInv, UNCHANGED vars
  PROVE  MInv'
<1>1. UNCHANGED <<env, kernel, session>>
  BY DEF vars
<1>2. KernelOK' /\ SourcesOK'
  <2>1. plugged' \subseteq Disks /\ UNCHANGED <<damaged, statics, sources, trees>>
    BY <1>1 DEF MInv, env, KernelOK, session
  <2> QED
    BY <1>1, <2>1, CoreKept DEF MInv
<1>3. ViewOK' /\ SideOK' /\ CountdownOK'
  BY <1>1 DEF MInv, env, session, ViewOK, SideOK, CountdownOK
<1>4. ResultOK'
  BY <1>1 DEF MInv, env, kernel, session, ResultOK, BootResultOK, KeyBelongsToLeaf, IsOpened
<1> QED
  BY <1>1, <1>2, <1>3, <1>4 DEF MInv, env, session

\* Whatever is done, the invariant stays.
LEMMA StepPreserves ==
  ASSUME MInv, [Next]_vars
  PROVE  MInv'
<1>1. CASE \E timeout \in BOOLEAN : Start(timeout)
  BY <1>1, StartPreserves
<1>2. CASE StartAutoDefault
  BY <1>2, AutoDefaultPreserves
<1>3. CASE CountdownExpires
  BY <1>3, ExpiresPreserves
<1>4. CASE \E n \in EntryNodes(view) : BootEntry(n)
  BY <1>4, BootEntryPreserves
<1>5. CASE Refresh
  BY <1>5, RefreshPreserves
<1>6. CASE \E right \in BOOLEAN : SubmitOpens(right) \/ SubmitFails(right)
  BY <1>6, SubmitPreserves
<1>7. CASE \E d \in Disks : Plug(d) \/ Unplug(d)
  BY <1>7, PlugKept
<1>8. CASE \/ CountdownCancelled \/ ClosePrompt \/ CloseBrowser
           \/ \E i \in DOMAIN view.state : OpenPrompt(i) \/ OpenBrowser(i)
           \/ \E depth \in 0..MaxDepth : BrowseTo(depth)
  BY <1>8, ScreenPreserves
<1>9. CASE BrowseNothing \/ BootFile \/ \E how \in {"Shell", "Quit"} : Leave(how)
  BY <1>9, LeavePreserves
<1>10. CASE UNCHANGED vars
  BY <1>10, IdlePreserves
<1> QED
  BY <1>1, <1>2, <1>3, <1>4, <1>5, <1>6, <1>7, <1>8, <1>9, <1>10 DEF Next

----------------------------------------------------------------------------
(* What follows *)

\* Sources, trees, view, screens and kernel agree in all that MInv says, in every state of
\* a session.
THEOREM MenuInvariant == Spec => []MInv
<1>1. MInv /\ [Next]_vars => MInv'
  BY StepPreserves
<1> QED
  BY <1>1, MenuInitial, PTL DEF Spec

\* There is a result just when the session has ended.
LEMMA ResultKinds ==
  ASSUME phase \in {"start", "countdown", "menu", "ended"}, ResultOK
  PROVE  /\ result.kind \in {"none", "Boot", "BootFile", "Shell", "Quit", "Panic", "Error"}
         /\ result.kind = "none" <=> phase # "ended"
         /\ result.by = "default" => result.kind = "Boot"
         /\ result.kind = "Boot" => BootResultOK
<1>1. NoResult.kind = "none" /\ NoResult.by = "user"
  BY DEF NoResult, Plain
<1>2. CASE phase = "ended"
  <2>1. CASE result.kind = "Boot" /\ BootResultOK
    BY <1>2, <2>1
  <2>2. CASE result.kind \in {"BootFile", "Shell", "Quit", "Panic", "Error"} /\ result.by = "user"
    BY <1>2, <2>2
  <2> QED
    BY <1>2, <2>1, <2>2 DEF ResultOK
<1>3. CASE phase # "ended"
  <2>1. result.kind = "none" /\ result.by = "user"
    BY <1>1, <1>3 DEF ResultOK
  <2> QED
    BY <1>3, <2>1
<1> QED
  BY <1>2, <1>3

\* The variables have their types, and there is a result just when the session has ended.
THEOREM MenuTypeOK == Spec => []TypeOK
<1>1. ASSUME MInv
      PROVE  TypeOK
  <2>1. \A i \in DOMAIN sources :
           /\ sources[i].state \in {"Mounted", "Encrypted", "Error", "Static"}
           /\ sources[i].pass \in BOOLEAN
    BY <1>1 DEF MInv, SourcesOK, SourceOK, StaticSource, DiskSource
  <2>2. \A i \in DOMAIN opened : opened[i] \in Disks /\ Kind[opened[i]] = "luks"
    BY <1>1 DEF MInv, KernelOK
  <2>3. side.kind \in {"none", "passphrase", "browser"} /\ side.depth \in 0..MaxDepth
    BY <1>1 DEF MInv, SideOK
  <2>4. /\ result.kind \in {"none", "Boot", "BootFile", "Shell", "Quit", "Panic", "Error"}
        /\ result.kind = "none" <=> phase # "ended"
    BY <1>1, ResultKinds DEF MInv
  <2> QED
    BY <1>1, <2>1, <2>2, <2>3, <2>4 DEF TypeOK, MInv, KernelOK
<1> QED
  BY <1>1, MenuInvariant, PTL

\* The trees are the trees of the sources and the view shows both, after any rescan or
\* unlocking: run_tui replaces all three together.
THEOREM MenuViewMirrorsSources == Spec => []ViewMirrorsSources
<1>1. ASSUME MInv
      PROVE  ViewMirrorsSources
  <2>1. \A i \in DOMAIN sources : sources[i].state # "Static" => trees[i] = TreeOf(sources[i])
    BY <1>1 DEF MInv, SourcesOK, SourceOK, StaticSource, DiskSource
  <2> QED
    BY <1>1, <2>1 DEF ViewMirrorsSources, MInv, SourcesOK, ViewOK
<1> QED
  BY <1>1, MenuInvariant, PTL

\* The index the passphrase screen or the browser holds names a locked, or a mounted,
\* source for as long as the screen is open.
THEOREM MenuSideNamesItsSource == Spec => []SideNamesItsSource
<1>1. ASSUME MInv
      PROVE  SideNamesItsSource
  <2>1. \A i \in DOMAIN sources : SourceOK(sources[i], trees[i])
    BY <1>1 DEF MInv, SourcesOK
  <2>2. \A i \in DOMAIN sources : sources[i].state = "Encrypted" => ~sources[i].pass
    BY <2>1 DEF SourceOK, StaticSource, DiskSource
  <2>3. \A i \in DOMAIN sources : sources[i].mp # NoMount => sources[i].mp \in mounts
    BY <2>1 DEF SourceOK, StaticSource, DiskSource
  <2> QED
    BY <1>1, <2>2, <2>3 DEF SideNamesItsSource, MInv, SideOK
<1> QED
  BY <1>1, MenuInvariant, PTL

\* The passphrase source_key_data hands over is the one of the disk the entry is on.
THEOREM MenuKeyBelongsToLeaf == Spec => []KeyBelongsToLeaf
<1>1. ASSUME MInv
      PROVE  KeyBelongsToLeaf
  BY <1>1, ResultKinds DEF MInv, BootResultOK, KeyBelongsToLeaf
<1> QED
  BY <1>1, MenuInvariant, PTL

\* What is shown or booted is mounted, or comes from the image.
THEOREM MenuShownIsMounted == Spec => []ShownIsMounted
<1>1. ASSUME MInv
      PROVE  ShownIsMounted
  <2>1. ASSUME NEW n \in EntryNodes(view)
        PROVE  sources[n[1]].state = "Static" \/ view.trees[n[1]][n[2]].path[1] \in mounts
    <3>1. CASE view = EmptyView
      <4>1. DOMAIN view.state = {}
        BY <3>1 DEF EmptyView
      <4> QED
        BY <2>1, <4>1, EntryNodesMember
    <3>2. CASE view = BuildView(sources, trees, view.default)
      <4>1. /\ SourceOK(sources[n[1]], trees[n[1]]) /\ n[2] \in DOMAIN trees[n[1]]
            /\ view.trees[n[1]][n[2]] = trees[n[1]][n[2]]
        BY <1>1, <3>2, NodePlace DEF MInv
      <4> QED
        BY <4>1, LeafPlace
    <3> QED
      BY <1>1, <3>1, <3>2 DEF MInv, ViewOK
  <2>2. result.kind = "Boot" =>
           result.path[1] \in mounts \/ \E n \in DOMAIN statics : statics[n].path = result.path
    BY <1>1, ResultKinds DEF MInv, BootResultOK
  <2> QED
    BY <2>1, <2>2 DEF ShownIsMounted
<1> QED
  BY <1>1, MenuInvariant, PTL

\* A locked source whose disk is there and sound, and has no open mapping, opens with the
\* right passphrase: nothing done before has left a mount point or a key in the way.
THEOREM MenuLockedOpens == Spec => []LockedOpens
<1>1. ASSUME MInv
      PROVE  LockedOpens
  <2>1. ASSUME NEW i \in DOMAIN sources, NEW d, d = sources[i].dev[1],
               sources[i].state = "Encrypted", d \in plugged \ damaged, ~IsOpened(d)
        PROVE  Unlock(d, TRUE).mp # NoMount
    <3>1. LockedSource(sources[i])
      BY <1>1, <2>1 DEF MInv, SourcesOK, SourceOK
    <3>2. d \in Disks /\ Kind[d] # "plain" /\ (Kind[d] = "bcachefs" => Disk(d) \notin mounts)
      BY <2>1, <3>1 DEF LockedSource
    <3>3. Kind[d] \in {"luks", "bcachefs"}
      BY <3>2, DisksAssumption
    <3>4. Mapper(d) \notin mounts
      BY <1>1, <2>1, <3>2 DEF MInv, KernelOK
    <3>5. Unlock(d, TRUE).mp = (IF Kind[d] = "luks" THEN Mapper(d) ELSE Disk(d))
      BY <2>1, <3>2, <3>3, <3>4 DEF Unlock, Plugged
    <3> QED
      BY <3>5, DeviceNames
  <2> QED
    BY <2>1 DEF LockedOpens
<1> QED
  BY <1>1, MenuInvariant, PTL

\* What the countdown and --auto-default boot is what the rules of docs/spec.md select from
\* the trees that were found and the EFI variable.
THEOREM MenuUnattendedFollowsSpec == Spec => []UnattendedFollowsSpec
<1>1. ASSUME MInv
      PROVE  UnattendedFollowsSpec
  BY <1>1, ResultKinds DEF MInv, BootResultOK, UnattendedFollowsSpec
<1> QED
  BY <1>1, MenuInvariant, PTL

=============================================================================
