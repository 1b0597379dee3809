--------------------------- MODULE InstallerProofs ---------------------------
(***************************************************************************)
(* What holds of the installer script for every set of systems, number of  *)
(* entries, retention count and number of runs, whenever it stops.         *)
(*                                                                         *)
(* The properties are not inductive: that the leaf of a finished run is    *)
(* the newest one rests on the order of times at every place of the        *)
(* script, and that a listed leaf is bootable rests on how far the copy    *)
(* of the current leaf has come.  IInv adds both.                          *)
(***************************************************************************)
EXTENDS Installer, FiniteSetTheorems, TLAPS

\* No directory was stamped in the future, no two at the same time, and none in an
\* earlier second than one that was stamped before it.
TimesOrdered ==
    /\ \A s \in Systems : mtime[s] <= clock /\ second[s] <= now
    /\ \A s, t \in dir : s # t => mtime[s] # mtime[t]
    /\ \A s, t \in Systems : mtime[s] <= mtime[t] => second[s] <= second[t]

\* The leaf being installed exists and is never among the leaves to remove.
TargetStands ==
    /\ victims \subseteq dir
    /\ pc # "idle" => target \in dir \ victims
    /\ pc # "remove" => victims = {}

\* A leaf that does not exist has no files.
NothingOutside ==
    \A s \in Systems \ dir : json[s] = "absent" /\ \A b \in Blobs : blob[s][b] = "absent"

\* The blobs before the next one are on disk.
CopiedSoFar ==
    /\ pc \in {"copy", "copying"} => \A b \in Blobs : b < next => blob[target][b] = "whole"
    /\ pc = "copying" => next <= NumBlobs /\ blob[target][next] = "partial"

\* From the place the script writes entries.json on, every blob is.
WrittenIsWhole ==
    /\ pc \in Written \cup {"entries"} => BlobsWhole(target)
    /\ pc \in Written => json[target] = "whole"

\* From the touch on, only leaves that are to be removed may be newer.
NewestOfKept ==
    pc \in Touched => \A s \in dir \ victims : s # target => mtime[s] < mtime[target]

IInv ==
    /\ TypeOK
    /\ TimesOrdered
    /\ NothingOutside
    /\ TargetStands
    /\ CopiedSoFar
    /\ WrittenIsWhole
    /\ NewestOfKept
    /\ ListedIsBootable
    /\ PruneTakesOldest

----------------------------------------------------------------------------
(* Arithmetic of the constants, and of the prune list *)

LEMMA BlobsNat == NumBlobs \in Nat /\ NumBlobs > 0 /\ Blobs \subseteq Nat
  BY ConstantsAssumption DEF NumBlobs, Blobs

\* The leaf that nothing is newer than is not on the prune list: retention is
\* positive.
LEMMA NewestNotExpendable ==
  ASSUME NEW s \in dir, {t \in dir : mtime[t] > mtime[s]} = {}
  PROVE  s \notin Expendable
  BY ConstantsAssumption, FS_EmptySet DEF Expendable

\* The prune list takes the old end: what is on it is older than what is not.
LEMMA ExpendableIsOldest ==
  ASSUME TypeOK, TimesOrdered, NEW v \in Expendable, NEW k \in dir \ Expendable
  PROVE  mtime[v] < mtime[k]
<1> DEFINE Newer(s) == {t \in dir : mtime[t] > mtime[s]}
<1>1. v \in dir /\ v # k /\ mtime[v] \in Nat /\ mtime[k] \in Nat
  BY DEF Expendable, TypeOK
<1>2. mtime[v] # mtime[k]
  BY <1>1 DEF TimesOrdered
<1>3. SUFFICES ASSUME mtime[k] < mtime[v] PROVE FALSE
  BY <1>1, <1>2
<1>4. IsFiniteSet(Systems) /\ Newer(k) \subseteq Systems
  BY ConstantsAssumption DEF TypeOK
<1>5. IsFiniteSet(Newer(k))
  BY <1>4, FS_Subset
<1>6. \A t \in dir : mtime[t] \in Nat
  BY DEF TypeOK
<1>7. Newer(v) \subseteq Newer(k)
  BY <1>1, <1>3, <1>6
<1>8. /\ Cardinality(Newer(v)) \in Nat /\ Cardinality(Newer(k)) \in Nat
      /\ Cardinality(Newer(v)) <= Cardinality(Newer(k))
  BY <1>5, <1>7, FS_Subset, FS_CardinalityType
<1>9. Cardinality(Newer(v)) >= Retention /\ ~(Cardinality(Newer(k)) >= Retention)
  BY DEF Expendable
<1> QED
  BY <1>8, <1>9, ConstantsAssumption

\* A stamp is of the last second there is, or of a new one.
LEMMA StampedLater ==
  ASSUME TypeOK, TimesOrdered, NEW v \in Systems, Stamp(v)
  PROVE  /\ now' \in 0..MaxSeconds /\ second' \in [Systems -> 0..MaxSeconds]
         /\ clock' \in Nat /\ mtime' \in [Systems -> Nat]
         /\ \A s \in Systems : mtime'[s] <= clock' /\ second'[s] <= now'
         /\ \A s, t \in Systems : s # t /\ mtime[s] # mtime[t] => mtime'[s] # mtime'[t]
         /\ \A s, t \in Systems : mtime'[s] <= mtime'[t] => second'[s] <= second'[t]
<1> USE ConstantsAssumption
<1>1. now' \in 0..MaxSeconds /\ now <= now'
  BY DEF Stamp, TypeOK
<1>2. second' \in [Systems -> 0..MaxSeconds] /\ clock' \in Nat /\ mtime' \in [Systems -> Nat]
  BY <1>1 DEF Stamp, TypeOK
<1>3. \A s \in Systems : mtime'[s] = (IF s = v THEN clock + 1 ELSE mtime[s])
                     /\ second'[s] = (IF s = v THEN now' ELSE second[s])
  BY DEF Stamp, TypeOK
<1>4. \A s \in Systems : /\ mtime[s] \in Nat /\ mtime[s] <= clock
                       /\ second[s] \in 0..MaxSeconds /\ second[s] <= now
  BY DEF TypeOK, TimesOrdered
<1>5. clock \in Nat /\ clock' = clock + 1
  BY DEF TypeOK, Stamp
<1>6. \A s \in Systems : mtime'[s] <= clock' /\ second'[s] <= now'
  BY <1>1, <1>3, <1>4, <1>5 DEF TypeOK
<1>7. \A s, t \in Systems : s # t /\ mtime[s] # mtime[t] => mtime'[s] # mtime'[t]
  BY <1>3, <1>4, <1>5
<1>8. ASSUME NEW s \in Systems, NEW t \in Systems, mtime'[s] <= mtime'[t]
      PROVE  second'[s] <= second'[t]
  <2>1. CASE t = v
    BY <1>1, <1>3, <1>4, <2>1 DEF TypeOK
  <2>2. CASE t # v
    <3>1. s # v /\ mtime[s] <= mtime[t]
      BY <1>3, <1>4, <1>5, <1>8, <2>2
    <3> QED
      BY <1>3, <2>2, <3>1 DEF TimesOrdered
  <2> QED
    BY <2>1, <2>2
<1> QED
  BY <1>1, <1>2, <1>6, <1>7, <1>8

----------------------------------------------------------------------------
(* Every step keeps the invariant: one lemma per action *)

LEMMA InitInv == Init => IInv
<1> SUFFICES ASSUME Init PROVE IInv
  OBVIOUS
<1> USE BlobsNat
<1>1. blob \in [Systems -> [Blobs -> FileState]] /\ json \in [Systems -> FileState]
  <2>1. [b \in Blobs |-> "absent"] \in [Blobs -> FileState]
    BY DEF FileState
  <2> QED
    BY <2>1 DEF Init, FileState
<1>2. /\ mtime \in [Systems -> Nat] /\ clock \in Nat /\ next \in 1..NumBlobs + 1
      /\ second \in [Systems -> 0..MaxSeconds] /\ now \in 0..MaxSeconds /\ runs \in 0..MaxInstalls
  BY ConstantsAssumption DEF Init
<1>3. TypeOK
  BY <1>1, <1>2 DEF Init, TypeOK, FileState, Places
<1>4. \A s \in Systems : json[s] = "absent" /\ \A b \in Blobs : blob[s][b] = "absent"
  BY DEF Init
<1> QED
  BY <1>3, <1>4 DEF Init, IInv, TimesOrdered, NothingOutside, TargetStands, CopiedSoFar, WrittenIsWhole,
     NewestOfKept, ListedIsBootable, PruneTakesOldest, Written, Touched, Listed

LEMMA BeginInv ==
  ASSUME IInv, NEW s \in Systems, NEW how \in Strategies, Begin(s, how)
  PROVE  IInv'
<1> USE BlobsNat DEF IInv, Begin
<1>1. TypeOK'
  BY ConstantsAssumption DEF TypeOK, Places, Stamp, KeepTimes, times
<1>2. TimesOrdered'
  BY DEF TypeOK, TimesOrdered, Stamp, KeepTimes, times
<1>3. ListedIsBootable'
  <2>1. ASSUME NEW t \in Systems PROVE Listed(t)' => Listed(t)
    BY DEF Listed, NothingOutside
  <2> QED
    BY <2>1 DEF ListedIsBootable, Bootable, BlobsWhole
<1>4. NothingOutside' /\ TargetStands'
  BY DEF NothingOutside, TargetStands
<1>5. CopiedSoFar'
  BY DEF CopiedSoFar, Blobs
<1>6. WrittenIsWhole' /\ NewestOfKept' /\ PruneTakesOldest'
  BY DEF WrittenIsWhole, NewestOfKept, PruneTakesOldest, Written, Touched
<1> QED
  BY <1>1, <1>2, <1>3, <1>4, <1>5, <1>6

LEMMA SkipBlobInv == ASSUME IInv, SkipBlob PROVE IInv'
<1> USE BlobsNat DEF IInv, SkipBlob, disk, times, ghosts
<1>1. TypeOK'
  BY DEF TypeOK
<1>2. TimesOrdered' /\ NothingOutside' /\ ListedIsBootable'
  BY DEF TimesOrdered, NothingOutside, ListedIsBootable, Listed, Bootable, BlobsWhole
<1>3. CopiedSoFar'
  BY DEF TypeOK, CopiedSoFar, Blobs
<1>4. TargetStands' /\ WrittenIsWhole' /\ NewestOfKept' /\ PruneTakesOldest'
  BY DEF TargetStands, WrittenIsWhole, NewestOfKept, PruneTakesOldest, Written, Touched
<1> QED
  BY <1>1, <1>2, <1>3, <1>4

LEMMA OpenBlobInv == ASSUME IInv, OpenBlob PROVE IInv'
<1> USE BlobsNat DEF IInv, OpenBlob, StampIfNew, KeepTimes, times
<1>1. next \in Blobs
  BY DEF TypeOK, Blobs
<1>2. TypeOK'
  <2>1. /\ mtime' \in [Systems -> Nat] /\ clock' \in Nat
        /\ second' \in [Systems -> 0..MaxSeconds] /\ now' \in 0..MaxSeconds
    <3>1. target \in Systems /\ (Stamp(target) \/ UNCHANGED times)
      BY DEF TypeOK
    <3> QED
      BY <3>1, StampedLater DEF TypeOK
  <2> QED
    BY <1>1, <2>1 DEF TypeOK, Places, FileState
<1>3. TimesOrdered'
  <2>1. CASE Stamp(target)
    BY <2>1, StampedLater DEF TypeOK, TimesOrdered, TargetStands
  <2>2. CASE UNCHANGED times
    BY <2>2 DEF TimesOrdered
  <2> QED
    BY <2>1, <2>2
<1>4. \A s \in Systems, b \in Blobs :
        blob'[s][b] = IF s = target /\ b = next THEN "partial" ELSE blob[s][b]
  BY <1>1 DEF TypeOK
<1>5. ListedIsBootable'
  <2>1. ASSUME NEW s \in Systems, Listed(s)' PROVE BlobsWhole(s)' \/ s \in exposed'
    <3>1. Listed(s)
      BY <2>1 DEF Listed
    <3>2. CASE s = target
      BY <1>1, <3>1, <3>2 DEF ListedIsBootable, Bootable, BlobsWhole
    <3>3. CASE s # target
      BY <1>4, <3>1, <3>3 DEF ListedIsBootable, Bootable, BlobsWhole
    <3> QED
      BY <3>2, <3>3
  <2> QED
    BY <2>1 DEF ListedIsBootable, Bootable
<1>6. NothingOutside' /\ TargetStands'
  BY <1>4 DEF NothingOutside, TargetStands
<1>7. CopiedSoFar'
  BY <1>1, <1>4 DEF TypeOK, CopiedSoFar, Blobs
<1>8. WrittenIsWhole' /\ NewestOfKept' /\ PruneTakesOldest'
  BY DEF WrittenIsWhole, NewestOfKept, PruneTakesOldest, Written, Touched
<1> QED
  BY <1>2, <1>3, <1>5, <1>6, <1>7, <1>8

LEMMA FillBlobInv == ASSUME IInv, FillBlob PROVE IInv'
<1> USE BlobsNat DEF IInv, FillBlob, ghosts, times
<1>1. next \in Blobs
  BY DEF TypeOK, Blobs, CopiedSoFar
<1>2. TypeOK'
  BY <1>1 DEF TypeOK, Places, FileState, Blobs
<1>3. \A s \in Systems, b \in Blobs :
        blob'[s][b] = IF s = target /\ b = next THEN "whole" ELSE blob[s][b]
  BY <1>1 DEF TypeOK
<1>4. ListedIsBootable'
  BY <1>3 DEF ListedIsBootable, Listed, Bootable, BlobsWhole
<1>5. TimesOrdered' /\ NothingOutside' /\ TargetStands'
  BY <1>3 DEF TimesOrdered, NothingOutside, TargetStands
<1>6. CopiedSoFar'
  BY <1>1, <1>3 DEF TypeOK, CopiedSoFar, Blobs
<1>7. WrittenIsWhole' /\ NewestOfKept' /\ PruneTakesOldest'
  BY DEF WrittenIsWhole, NewestOfKept, PruneTakesOldest, Written, Touched
<1> QED
  BY <1>2, <1>4, <1>5, <1>6, <1>7

LEMMA OpenEntriesInv == ASSUME IInv, OpenEntries PROVE IInv'
<1> USE BlobsNat DEF IInv, OpenEntries, StampIfNew, KeepTimes, times, ghosts
<1>1. TypeOK'
  BY DEF TypeOK, Places, FileState, Stamp
<1>2. TimesOrdered'
  BY DEF TypeOK, TimesOrdered, Stamp
<1>3. \A s \in Systems : json'[s] = IF s = target THEN "partial" ELSE json[s]
  BY DEF TypeOK
<1>4. ListedIsBootable'
  BY <1>3 DEF ListedIsBootable, Listed, Bootable, BlobsWhole
<1>5. NothingOutside' /\ TargetStands'
  BY <1>3 DEF NothingOutside, TargetStands
<1>6. CopiedSoFar' /\ WrittenIsWhole'
  BY DEF TypeOK, CopiedSoFar, WrittenIsWhole, Written, BlobsWhole, Blobs
<1>7. NewestOfKept' /\ PruneTakesOldest'
  BY DEF NewestOfKept, PruneTakesOldest, Written, Touched
<1> QED
  BY <1>1, <1>2, <1>4, <1>5, <1>6, <1>7

LEMMA FillEntriesInv == ASSUME IInv, FillEntries PROVE IInv'
<1> USE BlobsNat DEF IInv, FillEntries, times
<1>1. TypeOK'
  BY DEF TypeOK, Places, FileState
<1>2. \A s \in Systems : json'[s] = IF s = target THEN "whole" ELSE json[s]
  BY DEF TypeOK
<1>3. BlobsWhole(target)'
  BY DEF WrittenIsWhole, BlobsWhole
<1>4. ListedIsBootable'
  BY <1>2, <1>3 DEF ListedIsBootable, Listed, Bootable, BlobsWhole
<1>5. TimesOrdered' /\ NothingOutside' /\ TargetStands' /\ CopiedSoFar'
  BY <1>2 DEF TimesOrdered, NothingOutside, TargetStands, CopiedSoFar
<1>6. WrittenIsWhole'
  BY <1>2, <1>3 DEF TypeOK, WrittenIsWhole, Written
<1>7. NewestOfKept' /\ PruneTakesOldest'
  BY DEF NewestOfKept, PruneTakesOldest, Written, Touched
<1> QED
  BY <1>1, <1>4, <1>5, <1>6, <1>7

LEMMA TouchInv == ASSUME IInv, Touch PROVE IInv'
<1> USE BlobsNat DEF IInv, Touch, Stamp, ghosts
<1>1. TypeOK'
  BY DEF TypeOK, Places
<1>2. TimesOrdered'
  BY DEF TypeOK, TimesOrdered
<1>3. ListedIsBootable' /\ NothingOutside' /\ TargetStands' /\ CopiedSoFar'
  BY DEF ListedIsBootable, Listed, Bootable, BlobsWhole, NothingOutside, TargetStands, CopiedSoFar
<1>4. WrittenIsWhole'
  BY DEF WrittenIsWhole, Written, BlobsWhole
<1>5. NewestOfKept'
  BY DEF TypeOK, TimesOrdered, TargetStands, NewestOfKept
<1>6. PruneTakesOldest'
  BY DEF PruneTakesOldest
<1> QED
  BY <1>1, <1>2, <1>3, <1>4, <1>5, <1>6

\* The target is the newest directory, so the list of what to remove misses it.
LEMMA ListLeavesInv == ASSUME IInv, ListLeaves PROVE IInv'
<1> USE BlobsNat DEF IInv, ListLeaves, disk, times, ghosts
<1>1. Expendable \subseteq dir
  BY DEF Expendable
<1>2. TypeOK'
  BY <1>1 DEF TypeOK, Places
<1>3. target \in dir /\ victims = {} /\ \A s \in dir : s # target => mtime[s] < mtime[target]
  BY DEF TargetStands, NewestOfKept, Written, Touched
<1>4. \A s \in dir : ~(mtime[s] > mtime[target])
  BY <1>3 DEF TypeOK
<1>5. target \notin Expendable
  BY <1>3, <1>4, NewestNotExpendable
<1>6. \A v \in Expendable, k \in dir \ Expendable : mtime[v] < mtime[k]
  BY ExpendableIsOldest
<1>7. TimesOrdered' /\ ListedIsBootable' /\ NothingOutside' /\ CopiedSoFar'
  BY DEF TimesOrdered, ListedIsBootable, Listed, Bootable, BlobsWhole, NothingOutside, CopiedSoFar
<1>8. TargetStands'
  BY <1>1, <1>3, <1>5 DEF TargetStands
<1>9. WrittenIsWhole'
  BY DEF WrittenIsWhole, Written, BlobsWhole
<1>10. NewestOfKept'
  BY <1>3 DEF NewestOfKept
<1>11. PruneTakesOldest'
  BY <1>3, <1>5, <1>6 DEF PruneTakesOldest
<1> QED
  BY <1>2, <1>7, <1>8, <1>9, <1>10, <1>11

\* Stamping the leaf that is being removed keeps it the one that is, and keeps
\* every other victim older than what stays.
LEMMA StampCurrent ==
  ASSUME IInv, pc = "remove", NEW v \in Systems, IsCurrent(v), Stamp(v),
         UNCHANGED <<dir, pc, target, victims>>
  PROVE  TimesOrdered' /\ NewestOfKept' /\ PruneTakesOldest'
<1> USE DEF IInv, Stamp
<1>1. v \in victims /\ v # target /\ target \in dir \ victims
  BY DEF IsCurrent, TargetStands
<1>2. \A s \in Systems : mtime'[s] = IF s = v THEN clock + 1 ELSE mtime[s]
  BY DEF TypeOK
<1>3. clock + 1 \in Nat /\ \A s \in Systems : mtime[s] \in Nat /\ mtime[s] < clock + 1
  BY DEF TypeOK, TimesOrdered
<1>4. TimesOrdered'
  <2>1. \A s \in Systems : mtime'[s] <= clock'
    BY <1>2, <1>3 DEF TypeOK
  <2>2. \A s, t \in dir : s # t => mtime'[s] # mtime'[t]
    BY <1>2, <1>3 DEF TypeOK, TimesOrdered
  <2>3. /\ \A s \in Systems : second'[s] <= now'
        /\ \A s, t \in Systems : mtime'[s] <= mtime'[t] => second'[s] <= second'[t]
    BY StampedLater DEF TimesOrdered
  <2> QED
    BY <2>1, <2>2, <2>3 DEF TimesOrdered
<1>5. NewestOfKept'
  BY <1>1, <1>2 DEF TypeOK, NewestOfKept, Written, Touched
<1>6. IsCurrent(v)'
  BY <1>1, <1>2, <1>3 DEF TypeOK, IsCurrent
<1>7. PruneTakesOldest'
  <2>1. ASSUME NEW w \in victims, NEW k \in dir \ victims, w # v PROVE mtime'[w] < mtime'[k]
    <3>1. w \in Systems /\ k \in Systems /\ k # v
      BY <1>1, <2>1 DEF TypeOK
    <3>2. ~IsCurrent(w)
      <4>1. mtime[w] <= mtime[v] /\ mtime[w] # mtime[v] /\ mtime[w] \in Nat /\ mtime[v] \in Nat
        BY <1>1, <1>3, <2>1, <3>1 DEF IsCurrent, TimesOrdered, TargetStands
      <4> QED
        BY <1>1, <4>1 DEF IsCurrent
    <3>3. mtime[w] < mtime[k]
      BY <2>1, <3>2 DEF PruneTakesOldest
    <3> QED
      BY <1>2, <2>1, <3>1, <3>3
  <2> QED
    BY <1>1, <1>6, <2>1 DEF PruneTakesOldest
<1> QED
  BY <1>4, <1>5, <1>7

LEMMA RemoveBlobInv ==
  ASSUME IInv, NEW v \in dir, NEW c \in Blobs, RemoveBlob(v, c)
  PROVE  IInv'
<1> USE BlobsNat DEF IInv, RemoveBlob, script
<1>1. v \in Systems /\ v \in victims /\ v # target
  BY DEF TypeOK, IsCurrent, TargetStands
<1>2. TypeOK'
  BY <1>1 DEF TypeOK, FileState, Stamp
<1>3. TimesOrdered' /\ NewestOfKept' /\ PruneTakesOldest'
  BY <1>1, StampCurrent
<1>4. \A s \in Systems, b \in Blobs :
        blob'[s][b] = IF s = v /\ b = c THEN "absent" ELSE blob[s][b]
  BY <1>1 DEF TypeOK
<1>5. ListedIsBootable'
  BY <1>1, <1>4 DEF ListedIsBootable, Listed, Bootable, BlobsWhole
<1>6. NothingOutside' /\ TargetStands' /\ CopiedSoFar'
  BY <1>4 DEF NothingOutside, TargetStands, CopiedSoFar
<1>7. WrittenIsWhole'
  BY <1>1, <1>4 DEF TypeOK, WrittenIsWhole, Written, BlobsWhole
<1> QED
  BY <1>2, <1>3, <1>5, <1>6, <1>7

LEMMA RemoveEntriesInv ==
  ASSUME IInv, NEW v \in dir, RemoveEntries(v)
  PROVE  IInv'
<1> USE BlobsNat DEF IInv, RemoveEntries, script
<1>1. v \in Systems /\ v \in victims /\ v # target
  BY DEF TypeOK, IsCurrent, TargetStands
<1>2. TypeOK'
  BY <1>1 DEF TypeOK, FileState, Stamp
<1>3. TimesOrdered' /\ NewestOfKept' /\ PruneTakesOldest'
  BY <1>1, StampCurrent
<1>4. \A s \in Systems : json'[s] = IF s = v THEN "absent" ELSE json[s]
  BY <1>1 DEF TypeOK
<1>5. ListedIsBootable'
  BY <1>1, <1>4 DEF ListedIsBootable, Listed, Bootable, BlobsWhole
<1>6. NothingOutside' /\ TargetStands' /\ CopiedSoFar'
  BY <1>4 DEF NothingOutside, TargetStands, CopiedSoFar
<1>7. WrittenIsWhole'
  BY <1>1, <1>4 DEF TypeOK, WrittenIsWhole, Written, BlobsWhole
<1> QED
  BY <1>2, <1>3, <1>5, <1>6, <1>7

LEMMA RemoveDirInv ==
  ASSUME IInv, NEW v \in dir, RemoveDir(v)
  PROVE  IInv'
<1> USE BlobsNat DEF IInv, RemoveDir, times, ghosts
<1>1. v \in Systems /\ v \in victims /\ v # target
  BY DEF TypeOK, IsCurrent, TargetStands
<1>2. TypeOK'
  BY <1>1 DEF TypeOK
<1>3. TimesOrdered' /\ ListedIsBootable' /\ NothingOutside'
  BY DEF TimesOrdered, ListedIsBootable, Listed, Bootable, BlobsWhole, NothingOutside
<1>4. TargetStands' /\ CopiedSoFar' /\ WrittenIsWhole'
  BY <1>1 DEF TargetStands, CopiedSoFar, WrittenIsWhole, Written, BlobsWhole
<1>5. dir' \ victims' = dir \ victims
  BY <1>1
<1>6. NewestOfKept'
  BY <1>5 DEF NewestOfKept
<1>7. PruneTakesOldest'
  <2>1. ASSUME NEW w \in victims, NEW k \in dir \ victims, w # v PROVE mtime[w] < mtime[k]
    <3>1. mtime[w] <= mtime[v] /\ mtime[w] # mtime[v] /\ mtime[w] \in Nat /\ mtime[v] \in Nat
      BY <1>1, <2>1 DEF IsCurrent, TimesOrdered, TargetStands, TypeOK
    <3>2. ~IsCurrent(w)
      BY <1>1, <3>1 DEF IsCurrent
    <3> QED
      BY <2>1, <3>2 DEF PruneTakesOldest
  <2> QED
    BY <1>1, <1>5, <2>1 DEF PruneTakesOldest
<1> QED
  BY <1>2, <1>3, <1>4, <1>6, <1>7

\* The steps that change nothing of the leaves.
LEMMA OtherStepsInv ==
  ASSUME IInv, EndPrune \/ OpenUki \/ FillUki \/ Stop \/ UNCHANGED vars
  PROVE  IInv'
<1> USE BlobsNat DEF IInv
<1>1. UNCHANGED <<dir, blob, json, mtime, clock, second, now, target, strategy, next, victims, runs, exposed>>
  BY DEF EndPrune, OpenUki, FillUki, Stop, vars, disk, times, ghosts, script
<1>2. running' \in BOOLEAN /\ uki' \in FileState
  BY DEF TypeOK, FileState, EndPrune, OpenUki, FillUki, Stop, vars, disk, ghosts, script
<1>3. \/ pc' = pc
      \/ pc = "remove" /\ victims = {} /\ pc' \in {"uki", "done"}
      \/ pc \in {"uki", "ukiCopy"} /\ pc' \in {"ukiCopy", "done"}
  BY DEF EndPrune, OpenUki, FillUki, Stop, vars, disk, times, ghosts, script
<1>4. TypeOK'
  BY <1>1, <1>2, <1>3 DEF TypeOK, Places
<1>5. TimesOrdered' /\ NothingOutside' /\ ListedIsBootable'
  BY <1>1 DEF TimesOrdered, NothingOutside, ListedIsBootable, Listed, Bootable, BlobsWhole
<1>6. TargetStands' /\ CopiedSoFar'
  BY <1>1, <1>3 DEF TargetStands, CopiedSoFar
<1>7. WrittenIsWhole' /\ NewestOfKept'
  BY <1>1, <1>3 DEF WrittenIsWhole, NewestOfKept, Written, Touched, BlobsWhole
<1>8. PruneTakesOldest'
  BY <1>1, <1>3 DEF PruneTakesOldest, IsCurrent
<1> QED
  BY <1>4, <1>5, <1>6, <1>7, <1>8

LEMMA StepInv == IInv /\ [Next]_vars => IInv'
<1> SUFFICES ASSUME IInv, [Next]_vars PROVE IInv'
  OBVIOUS
<1>1. CASE \E s \in Systems, how \in Strategies : Begin(s, how)
  BY <1>1, BeginInv
<1>2. CASE Write
  BY <1>2, SkipBlobInv, OpenBlobInv, FillBlobInv, OpenEntriesInv, FillEntriesInv, TouchInv DEF Write
<1>3. CASE \E v \in dir : Remove(v)
  BY <1>3, RemoveBlobInv, RemoveEntriesInv, RemoveDirInv DEF Remove
<1>4. CASE ListLeaves
  BY <1>4, ListLeavesInv
<1>5. CASE EndPrune \/ InstallUki \/ Stop \/ UNCHANGED vars
  BY <1>5, OtherStepsInv DEF InstallUki
<1> QED
  BY <1>1, <1>2, <1>3, <1>4, <1>5 DEF Next, Prune

----------------------------------------------------------------------------
(* The theorems *)

\* The strengthened invariant holds in every state the installer can leave
\* behind, finished or interrupted.
THEOREM InstallerInvariant == Spec => []IInv
  BY InitInv, StepInv, PTL DEF Spec

\* Every variable keeps its type.
THEOREM InstallerTypeCorrect == Spec => []TypeOK
  BY InstallerInvariant, PTL DEF IInv

\* A leaf the menu lists can be booted unless a prune or a reflink run stopped
\* inside it (copy_blob before entries.json, nixos.nix:48-82).
THEOREM InstallerListedIsBootable == Spec => []ListedIsBootable
  BY InstallerInvariant, PTL DEF IInv

\* The prune keeps the leaf just installed and takes the oldest ones
\* (nixos.nix:88-96).
THEOREM InstallerPruneTakesOldest == Spec => []PruneTakesOldest
  BY InstallerInvariant, PTL DEF IInv

\* A finished run leaves its own leaf bootable and the one the menu picks
\* (nixos.nix:84-85, tree.rs:221-228, select.rs:46-47).
THEOREM InstallerFinishedIsPicked == Spec => []FinishedIsPicked
<1>1. IInv => FinishedIsPicked
  <2> SUFFICES ASSUME IInv, pc = "done" PROVE FinishedIsPicked
    BY DEF FinishedIsPicked
  <2>1. target \in dir /\ Bootable(target)
    BY DEF IInv, TypeOK, TargetStands, WrittenIsWhole, Written, Bootable, Listed
  <2>2. \A t \in dir \ {target} : mtime[t] < mtime[target]
    BY DEF IInv, TargetStands, NewestOfKept, Written, Touched
  <2>3. \A t \in dir : second[t] <= second[target]
    BY <2>1, <2>2 DEF IInv, TypeOK, TimesOrdered
  <2> QED
    BY <2>1, <2>2, <2>3 DEF FinishedIsPicked, Newest, Bootable, Listed
<1> QED
  BY <1>1, InstallerInvariant, PTL

----------------------------------------------------------------------------
(* How a leaf stops being bootable *)

\* Either it is copied over, before its entries.json is written again, or it is
\* a victim of the prune.
LEMMA LosesLeaf ==
  ASSUME IInv, [Next]_vars, NEW s \in Systems, Bootable(s), ~Bootable(s)'
  PROVE  (pc = "copy" /\ s = target) \/ (pc = "remove" /\ s \in victims)
<1> USE BlobsNat DEF IInv, Bootable, Listed, BlobsWhole
<1>1. CASE UNCHANGED <<dir, blob, json>>
  BY <1>1
<1>2. CASE \E t \in Systems, how \in Strategies : Begin(t, how)
  BY <1>2 DEF Begin
<1>3. CASE SkipBlob \/ Touch \/ ListLeaves \/ EndPrune \/ InstallUki \/ Stop \/ UNCHANGED vars
  BY <1>1, <1>3 DEF SkipBlob, Touch, ListLeaves, EndPrune, InstallUki, OpenUki, FillUki, Stop,
     vars, disk
<1>4. CASE OpenBlob
  <2>1. s # target => blob'[s] = blob[s]
    BY <1>4 DEF OpenBlob, TypeOK
  <2> QED
    BY <1>4, <2>1 DEF OpenBlob
<1>5. CASE FillBlob
  <2>1. \A b \in Blobs : blob'[s][b] = "whole"
    <3>1. next \in Blobs
      BY <1>5 DEF FillBlob, TypeOK, CopiedSoFar, Blobs
    <3> QED
      BY <1>5, <3>1 DEF FillBlob, TypeOK
  <2> QED
    BY <1>5, <2>1 DEF FillBlob
<1>6. CASE OpenEntries
  BY <1>6 DEF OpenEntries, TypeOK
<1>7. CASE FillEntries
  <2>1. json'[s] = "whole"
    BY <1>7 DEF FillEntries, TypeOK
  <2> QED
    BY <1>7, <2>1 DEF FillEntries
<1>8. CASE \E v \in dir : Remove(v)
  <2>1. PICK v \in dir : Remove(v)
    BY <1>8
  <2>2. pc = "remove" /\ v \in victims
    BY <2>1 DEF Remove, RemoveBlob, RemoveEntries, RemoveDir, IsCurrent
  <2>3. s # v => blob'[s] = blob[s] /\ json'[s] = json[s] /\ s \in dir'
    BY <2>1 DEF Remove, RemoveBlob, RemoveEntries, RemoveDir, TypeOK
  <2> QED
    BY <2>2, <2>3
<1> QED
  BY <1>2, <1>3, <1>4, <1>5, <1>6, <1>7, <1>8 DEF Next, Write, Prune

\* Installing never harms a leaf that is neither installed again nor pruned.
THEOREM InstallerBystandersUnharmed == Spec => BystandersUnharmed
<1>1. IInv /\ [Next]_vars =>
        [\A s \in Systems : Bootable(s) /\ ~Bootable(s)' => s \in {target} \cup victims]_vars
  BY LosesLeaf
<1> QED
  BY <1>1, InstallerInvariant, PTL DEF Spec, BystandersUnharmed

\* The prune never takes the last bootable leaf: the leaf just installed stays.
THEOREM InstallerLastLeaf == Spec => LastLeafLostOnlyByReinstall
<1> DEFINE Some == \E s \in Systems : Bootable(s)
           OnlyByReinstall == Some /\ ~Some' => pc = "copy" /\ Bootable(target)
<1>1. IInv /\ [Next]_vars => OnlyByReinstall
  <2> SUFFICES ASSUME IInv, [Next]_vars, Some, ~Some' PROVE pc = "copy" /\ Bootable(target)
    OBVIOUS
  <2>1. PICK s \in Systems : Bootable(s) /\ ~Bootable(s)'
    OBVIOUS
  <2>2. CASE pc = "copy" /\ s = target
    BY <2>1, <2>2
  <2>3. CASE pc = "remove" /\ s \in victims
    <3>1. PICK t \in Systems : t = target
      BY DEF IInv, TypeOK
    <3>2. Bootable(t) /\ t \notin victims
      BY <2>3, <3>1 DEF IInv, TargetStands, WrittenIsWhole, Written, Bootable, Listed
    <3>3. Bootable(t)'
      BY <2>3, <3>2, LosesLeaf
    <3> QED
      BY <3>3
  <2> QED
    BY <2>1, <2>2, <2>3, LosesLeaf
<1>2. IInv /\ [Next]_vars => [OnlyByReinstall]_vars
  BY <1>1
<1> QED
  BY <1>2, InstallerInvariant, PTL DEF Spec, LastLeafLostOnlyByReinstall

============================================================================
