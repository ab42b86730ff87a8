---------------------------- MODULE FsFileProofs ----------------------------
(***************************************************************************)
(* Proofs about FsFile: what each of the two files keeps, whatever file    *)
(* system begin() has found, for every size of the volume and of its parts *)
(* and every point at which the device fails.                              *)
(*                                                                         *)
(* The FAT file: P is FatFileProofs for the parameters and the variables   *)
(* of FsFile, and F the specification FsFile is made of.  F and P stand    *)
(* for the same definitions, which the prover does not know: the first     *)
(* part of the module shows it.                                            *)
(*                                                                         *)
(* The exFAT file: XIInv is the inductive invariant of X.  To the          *)
(* properties it adds where the cursor is between two transfers (CursorOK: *)
(* in the cluster of the byte before the position), how the lengths, the   *)
(* clusters and the position are ordered in each step of a call            *)
(* (LengthsOK), that a contiguous file counts as many clusters as it has   *)
(* (CountOK: what truncate, remove and write count with), and that what    *)
(* the entry says was stored (EntryOK, EntryStored), so that the file is   *)
(* in place when it is opened again.  The search of the bitmap and the     *)
(* freeing of a chain are minima over sets, and FollowIs goes along a      *)
(* chain without induction: a least link that differs has none before it   *)
(* that does.                                                              *)
(*                                                                         *)
(* The inductive invariant of FsFile is the one of the file that the       *)
(* volume has.                                                             *)
(***************************************************************************)
EXTENDS FsFile, TLAPS, FiniteSetTheorems

P == INSTANCE FatFileProofs
(* The arithmetic of positions is the same for both files. *)
L == INSTANCE FatFileProofs
       WITH SectorsPerCluster <- XSectorsPerCluster, Word <- XWord, Followed <- XFollowed,
            MaxTransfer <- XMaxTransfer, IoFails <- FALSE, EarlySetPos <- FALSE,
            m_fileSize <- m_dataLength, dirFirst <- 0, dirSize <- 0

-----------------------------------------------------------------------------
(* F and P: the FAT file. *)

LEMMA FatNextSame == F!Next <=> P!Next
BY DEF
   F!cursor, P!cursor, F!entry, P!entry, F!data, P!data, F!vars, P!vars,
   F!Flags, P!Flags, F!Cluster, P!Cluster, F!BytesPerCluster,
   P!BytesPerCluster, F!Offset, P!Offset, F!Owned, P!Owned, F!Clear, P!Clear,
   F!Contiguous, P!Contiguous, F!Usable, P!Usable, F!AfterFailure,
   P!AfterFailure, F!After, P!After, F!FatValue, P!FatValue, F!Follow,
   P!Follow, F!IndexOfNext, P!IndexOfNext, F!Index, P!Index, F!SeekFlags,
   P!SeekFlags, F!AddFlags, P!AddFlags, F!Sought, P!Sought, F!NotSought,
   P!NotSought, F!SeekCluster, P!SeekCluster, F!seekOutcomes, P!seekOutcomes,
   F!Synced, P!Synced, F!SyncOutcomes, P!SyncOutcomes, F!CursorOffset,
   P!CursorOffset, F!AtCursor, P!AtCursor, F!Stored, P!Stored, F!CutTo,
   P!CutTo, F!Fail, P!Fail, F!Intact, P!Intact, F!Opened, P!Opened, F!openFile,
   P!openFile, F!openTruncate, P!openTruncate, F!create, P!create, F!sync,
   P!sync, F!close, P!close, F!seekSet, P!seekSet, F!fsetpos, P!fsetpos,
   F!Consecutive, P!Consecutive, F!contiguousRange, P!contiguousRange,
   F!preAllocate, P!preAllocate, F!CutAt, P!CutAt, F!TruncateFails,
   P!TruncateFails, F!TruncateEnds, P!TruncateEnds, F!truncate, P!truncate,
   F!AtCluster, P!AtCluster, F!SectorOffset, P!SectorOffset, F!Smaller,
   P!Smaller, F!PartOfSector, P!PartOfSector, F!Partial, P!Partial, F!Chunk,
   P!Chunk, F!ToRead, P!ToRead, F!readCall, P!readCall, F!ReadCluster,
   P!ReadCluster, F!ReadTransfer, P!ReadTransfer, F!ReadEnds, P!ReadEnds,
   F!TooLong, P!TooLong, F!writeCall, P!writeCall, F!addCluster, P!addCluster,
   F!NextNumber, P!NextNumber, F!WriteMoves, P!WriteMoves, F!NeedsCluster,
   P!NeedsCluster, F!WriteAdds, P!WriteAdds, F!WriteStops, P!WriteStops,
   F!WriteCluster, P!WriteCluster, F!Reserve, P!Reserve, F!InCache, P!InCache,
   F!InTransfer, P!InTransfer, F!WriteTransfer, P!WriteTransfer, F!GrownFlags,
   P!GrownFlags, F!WriteEnds, P!WriteEnds, F!Next, P!Next

LEMMA FatStatesSame ==
  /\ F!FileAssumption <=> P!FileAssumption
  /\ F!Init <=> P!Init
  /\ F!vars = P!vars
  /\ F!TypeOK <=> P!TypeOK
  /\ F!RightCluster <=> P!RightCluster
  /\ F!WrittenInPlace <=> P!WrittenInPlace
  /\ F!ContiguousHolds <=> P!ContiguousHolds
  /\ F!InsideFile <=> P!InsideFile
  /\ F!EntryAgrees <=> P!EntryAgrees
<1>1. F!FileAssumption <=> P!FileAssumption
  BY DEF F!FileAssumption, P!FileAssumption
<1>2. F!Init <=> P!Init
  BY DEF F!Init, P!Init
<1>3. F!vars = P!vars
  BY DEF
     F!vars, P!vars, F!cursor, P!cursor, F!entry, P!entry, F!data, P!data
<1> USE DEF
     F!cursor, P!cursor, F!entry, P!entry, F!data, P!data, F!Flags, P!Flags,
     F!Cluster, P!Cluster, F!BytesPerCluster, P!BytesPerCluster, F!Offset,
     P!Offset, F!Contiguous, P!Contiguous, F!Position, P!Position
<1>4. F!TypeOK <=> P!TypeOK
  BY DEF F!TypeOK, P!TypeOK
<1>5. F!RightCluster <=> P!RightCluster
  BY DEF F!RightCluster, P!RightCluster
<1>6. F!WrittenInPlace <=> P!WrittenInPlace
  BY DEF F!WrittenInPlace, P!WrittenInPlace
<1>7. F!ContiguousHolds <=> P!ContiguousHolds
  BY DEF F!ContiguousHolds, P!ContiguousHolds
<1>8. F!InsideFile <=> P!InsideFile
  BY DEF F!InsideFile, P!InsideFile
<1>9. F!EntryAgrees <=> P!EntryAgrees
  BY DEF F!EntryAgrees, P!EntryAgrees
<1> QED BY ONLY <1>1, <1>2, <1>3, <1>4, <1>5, <1>6, <1>7, <1>8, <1>9

-----------------------------------------------------------------------------
(* The exFAT file.  *)

-----------------------------------------------------------------------------
(* Positions, and least and greatest numbers. *)

LEMMA Cluster0 ==
  ASSUME X!FileAssumption
  PROVE  /\ X!BytesPerCluster \in Nat \ {0} /\ BytesPerSector \in Nat \ {0}
         /\ m_lastCluster \in Nat /\ X!m_clusterCount \in Nat \ {0}
         /\ XWord \in Nat /\ XWord > 2 * m_lastCluster
         /\ 0 \notin X!Cluster /\ 1 \notin X!Cluster /\ EOC \notin X!Cluster /\ EOC # 0
         /\ EOC \in Nat /\ X!Cluster \subseteq Nat
BY DEF X!FileAssumption, X!BytesPerCluster, X!Cluster, X!m_clusterCount

LEMMA PositionIndex ==
  ASSUME X!FileAssumption, NEW pos \in Nat
  PROVE  /\ pos # 0 => X!Index(pos) \in Nat
         /\ \A n \in Nat : pos # 0 /\ pos <= n * X!BytesPerCluster => X!Index(pos) < n
         /\ \A n \in Nat : pos # 0 /\ X!Index(pos) < n => pos <= n * X!BytesPerCluster
         /\ pos % X!BytesPerCluster # 0 => pos # 0 /\ X!Index(pos) = pos \div X!BytesPerCluster
         /\ pos % X!BytesPerCluster = 0 /\ pos # 0 => X!Index(pos) + 1 = pos \div X!BytesPerCluster
         /\ \A k \in Nat \ {0} : (pos % X!BytesPerCluster) + k <= X!BytesPerCluster =>
              X!Index(pos + k) = pos \div X!BytesPerCluster
<1> DEFINE B == X!BytesPerCluster
<1>1. B \in Nat \ {0}
  BY Cluster0
<1> HIDE DEF B
<1>2. \A k \in Nat \ {0} : X!Index(pos + k) = (pos + k - 1) \div B
  BY DEF B, X!Index
<1>3. X!Index(pos) = (pos - 1) \div B
  BY DEF B, X!Index
<1> SUFFICES /\ pos # 0 => (pos - 1) \div B \in Nat
             /\ \A n \in Nat : pos # 0 /\ pos <= n * B => (pos - 1) \div B < n
             /\ \A n \in Nat : pos # 0 /\ (pos - 1) \div B < n => pos <= n * B
             /\ pos % B # 0 => pos # 0 /\ (pos - 1) \div B = pos \div B
             /\ pos % B = 0 /\ pos # 0 => (pos - 1) \div B + 1 = pos \div B
             /\ \A k \in Nat \ {0} : (pos % B) + k <= B =>
                  (pos + k - 1) \div B = pos \div B
  BY <1>2, <1>3, Zenon DEF B
<1> QED BY <1>1, L!BlockBefore

LEMMA MinIs ==
  ASSUME NEW S, S \subseteq Nat, S # {}
  PROVE  X!Min(S) \in S /\ \A x \in S : X!Min(S) <= x
<1>1. \E x \in S : \A y \in S : x <= y
  BY L!LeastNat
<1> QED BY <1>1 DEF X!Min

LEMMA MaxIs ==
  ASSUME NEW n \in Nat, NEW S, S \subseteq 0 .. n, S # {}
  PROVE  X!Max(S) \in S /\ \A x \in S : x <= X!Max(S)
<1> DEFINE T == {n - x : x \in S}
<1>1. \E i \in T : \A m \in T : i <= m
  <2>1. T \subseteq Nat
    OBVIOUS
  <2>2. T # {}
    OBVIOUS
  <2> HIDE DEF T
  <2> QED BY <2>1, <2>2, L!LeastNat
<1>2. \E x \in S : \A y \in S : x >= y
  <2>1. PICK x \in S : \A m \in T : n - x <= m
    BY <1>1
  <2>2. \A y \in S : n - x <= n - y
    BY <2>1
  <2>3. \A y \in S : x >= y
    BY <2>2
  <2> QED BY <2>3
<1>3. X!Max(S) \in S /\ \A y \in S : X!Max(S) >= y
  BY <1>2, Zenon DEF X!Max
<1> QED BY <1>3

-----------------------------------------------------------------------------
(* The clusters of the file and the FAT. *)

Distinct == \A i, j \in DOMAIN chain : chain[i] = chain[j] => i = j
FirstOf(c) == IF c = <<>> THEN 0 ELSE c[1]

(* There are no more clusters in a chain than on the volume. *)
LEMMA ChainLength ==
  ASSUME X!FileAssumption, chain \in Seq(X!Cluster), Distinct
  PROVE  Len(chain) <= X!m_clusterCount
<1>1. Len(chain) \in Nat /\ DOMAIN chain = 1 .. Len(chain)
  OBVIOUS
<1>2. chain \in Injection(1 .. Len(chain), X!Cluster)
  BY <1>1 DEF Injection, IsInjective, Distinct
<1>3. IsFiniteSet(X!Cluster) /\ Cardinality(X!Cluster) = X!m_clusterCount
  <2>1. m_lastCluster \in Int /\ 2 \in Int /\ m_lastCluster >= 2
    BY DEF X!FileAssumption
  <2>2. IsFiniteSet(2 .. m_lastCluster)
        /\ Cardinality(2 .. m_lastCluster) = IF 2 > m_lastCluster THEN 0 ELSE m_lastCluster - 2 + 1
    BY <2>1, FS_Interval
  <2> QED BY <2>1, <2>2 DEF X!Cluster, X!m_clusterCount
<1>4. Cardinality(1 .. Len(chain)) <= Cardinality(X!Cluster)
  BY <1>2, <1>3, FS_Injection
<1>5. Cardinality(1 .. Len(chain)) = Len(chain)
  <2>1. Cardinality(1 .. Len(chain)) = IF 1 > Len(chain) THEN 0 ELSE Len(chain) - 1 + 1
    BY <1>1, FS_Interval
  <2> QED BY <1>1, <2>1
<1> QED BY <1>3, <1>4, <1>5

LEMMA FatValuesAre ==
  ASSUME X!Linked, NEW j \in DOMAIN chain
  PROVE  X!FatValues(chain[j]) = {IF j = Len(chain) THEN EOC ELSE chain[j + 1]}
BY DEF X!Linked, X!FatValues

LEMMA FollowIs ==
  ASSUME X!FileAssumption, chain \in Seq(X!Cluster), X!Linked,
         NEW j \in DOMAIN chain, NEW k \in Nat, j + k <= Len(chain)
  PROVE  X!Follow(chain[j], k) = {chain[j + k]}
<1> DEFINE c == chain[j]
           step(S) == UNION {X!FatValues(x) : x \in S \cap X!Cluster}
           Eq(f) == f = [i \in 0 .. k |-> IF i = 0 THEN {c} ELSE step(f[i - 1])]
           h == [i \in 0 .. k |-> {chain[j + i]}]
           at[i \in 0 .. k] == IF i = 0 THEN {c} ELSE step(at[i - 1])
<1>1. j \in 1 .. Len(chain) /\ Len(chain) \in Nat
  OBVIOUS
<1>2. \A i \in 0 .. k : i # 0 => step({chain[j + (i - 1)]}) = {chain[j + i]}
  <2> SUFFICES ASSUME NEW i \in 0 .. k, i # 0 PROVE step({chain[j + (i - 1)]}) = {chain[j + i]}
    OBVIOUS
  <2> DEFINE m == j + (i - 1)
  <2>1. m \in DOMAIN chain /\ m # Len(chain) /\ m + 1 = j + i
    BY <1>1
  <2> HIDE DEF m
  <2>2. chain[m] \in X!Cluster
    BY <2>1
  <2>3. X!FatValues(chain[m]) = {chain[m + 1]}
    BY <2>1, FatValuesAre
  <2>4. {chain[m]} \cap X!Cluster = {chain[m]}
    BY <2>2
  <2>5. step({chain[m]}) = X!FatValues(chain[m])
    BY <2>4
  <2> QED BY <2>1, <2>3, <2>5 DEF m
<1> HIDE DEF step
<1>3. Eq(h)
  <2> DEFINE rhs == [i \in 0 .. k |-> IF i = 0 THEN {c} ELSE step(h[i - 1])]
  <2>1. \A i \in 0 .. k : h[i] = rhs[i]
    <3> SUFFICES ASSUME NEW i \in 0 .. k PROVE h[i] = rhs[i]
      OBVIOUS
    <3>1. CASE i = 0
      BY <1>1, <3>1
    <3>2. CASE i # 0
      <4>1. i - 1 \in 0 .. k
        BY <3>2
      <4>2. h[i - 1] = {chain[j + (i - 1)]}
        BY <4>1
      <4>3. rhs[i] = step(h[i - 1])
        BY <3>2
      <4>4. h[i] = {chain[j + i]}
        OBVIOUS
      <4> QED BY ONLY <1>2, <3>2, <4>2, <4>3, <4>4, i \in 0 .. k
    <3> QED BY <3>1, <3>2
  <2> QED BY <2>1
<1>4. at = CHOOSE f : Eq(f)
  OBVIOUS
<1> HIDE DEF at
<1>5. Eq(at)
  <2> HIDE DEF Eq, h
  <2> QED BY <1>3, <1>4
<1>6. at[0] = h[0] /\ \A i \in 0 .. k : i # 0 => at[i] = step(at[i - 1]) /\ h[i] = step(h[i - 1])
  <2> HIDE DEF h
  <2>1. \A f : Eq(f) => f[0] = {c} /\ \A i \in 0 .. k : i # 0 => f[i] = step(f[i - 1])
    <3> SUFFICES ASSUME NEW f, Eq(f)
                 PROVE  f[0] = {c} /\ \A i \in 0 .. k : i # 0 => f[i] = step(f[i - 1])
      BY Zenon
    <3> DEFINE g == [i \in 0 .. k |-> IF i = 0 THEN {c} ELSE step(f[i - 1])]
    <3>1. f = g
      OBVIOUS
    <3>2. g[0] = {c}
      OBVIOUS
    <3>3. \A i \in 0 .. k : i # 0 => g[i] = step(f[i - 1])
      OBVIOUS
    <3> HIDE DEF g
    <3> QED BY ONLY <3>1, <3>2, <3>3
  <2> HIDE DEF Eq
  <2> QED BY <1>3, <1>5, <2>1
<1>7. at[k] = h[k]
  <2> HIDE DEF h, Eq
  <2> DEFINE T == {i \in 0 .. k : at[i] # h[i]}
  <2>1. SUFFICES ASSUME T # {} PROVE FALSE
    OBVIOUS
  <2>2. PICK i \in T : \A m \in T : i <= m
    <3> T \subseteq Nat
      OBVIOUS
    <3> HIDE DEF T
    <3> QED BY <2>1, L!LeastNat
  <2>3. i \in 0 .. k /\ i # 0 /\ at[i] # h[i]
    BY <1>6
  <2>4. i - 1 \in 0 .. k /\ i - 1 \notin T
    <3>1. i - 1 \in Nat /\ ~(i <= i - 1)
      BY <2>3
    <3> HIDE DEF T
    <3> QED BY <2>2, <2>3, <3>1
  <2>5. at[i - 1] = h[i - 1]
    BY <2>4
  <2> QED BY <1>6, <2>3, <2>5
<1> QED BY <1>7 DEF X!Follow, at, step

-----------------------------------------------------------------------------
(* The bitmap.  A search that returns a cluster has found a free group, and *)
(* one for a single cluster from m_bitmapStart the first that is free.      *)

BitmapOK == allocated \subseteq X!Cluster /\ m_bitmapStart \in 0 .. X!m_clusterCount - 1
NoneFreeBelow(start, bits) == \A c \in X!Cluster : c - 2 < start => c \in bits

LEMMA BitmapFindIs ==
  ASSUME X!FileAssumption, BitmapOK, NEW cluster \in Nat \ {1}, NEW count \in Nat \ {0},
         X!bitmapFind(cluster, count) \in X!Cluster
  PROVE  LET find == X!bitmapFind(cluster, count) IN
         /\ find + count - 1 <= m_lastCluster
         /\ find .. find + count - 1 \subseteq X!Cluster \ allocated
         /\ cluster = 0 /\ count = 1 /\ NoneFreeBelow(m_bitmapStart, allocated) =>
              \A c \in X!Cluster : c < find => c \in allocated
<1> DEFINE find == X!bitmapFind(cluster, count)
           start == X!FindStart(cluster)
           behind == {b \in start .. X!m_clusterCount - 1 : X!FreeGroup(b, count)}
           before == {b \in 0 .. start - count : X!FreeGroup(b, count)}
<1>1. /\ start \in 0 .. X!m_clusterCount - 1 /\ (cluster = 0 => start = m_bitmapStart)
      /\ X!m_clusterCount \in Nat \ {0} /\ m_lastCluster = X!m_clusterCount + 1
  BY Cluster0 DEF X!FindStart, BitmapOK, X!m_clusterCount
<1>2. find \in {X!Min(behind) + 2, X!Min(before) + 2, X!Never, 1}
      /\ (behind # {} => find = X!Min(behind) + 2)
      /\ (behind = {} /\ before # {} => find = X!Min(before) + 2)
      /\ (behind = {} /\ before = {} => find \in {X!Never, 1})
  BY DEF X!bitmapFind
<1>3. behind \subseteq Nat /\ before \subseteq Nat /\ X!Never \notin X!Cluster /\ 1 \notin X!Cluster
  BY <1>1 DEF X!Never, X!Cluster
<1>4. PICK b \in behind \cup before :
        /\ find = b + 2
        /\ behind # {} => b \in behind /\ \A x \in behind : b <= x
  <2> HIDE DEF behind, before, find
  <2>1. CASE behind # {}
    <3>1. X!Min(behind) \in behind /\ \A x \in behind : X!Min(behind) <= x
      BY <1>3, <2>1, MinIs
    <3> QED BY <1>2, <2>1, <3>1
  <2>2. CASE behind = {} /\ before # {}
    <3>1. X!Min(before) \in before
      BY <1>3, <2>2, MinIs
    <3> QED BY <1>2, <2>2, <3>1
  <2>3. CASE behind = {} /\ before = {}
    <3>1. find \in X!Cluster
      BY DEF find
    <3> QED BY <1>2, <1>3, <2>3, <3>1
  <2> QED BY <2>1, <2>2, <2>3
<1>5. b \in Nat /\ b < X!m_clusterCount /\ X!FreeGroup(b, count)
  BY <1>1, <1>4
<1> HIDE DEF find
<1>6. find + count - 1 <= m_lastCluster
  BY <1>1, <1>4, <1>5 DEF X!FreeGroup
<1>7. find .. find + count - 1 \subseteq X!Cluster \ allocated
  <2>1. b + 2 = find /\ b + count + 1 = find + count - 1
    BY <1>4, <1>5
  <2>2. (find .. find + count - 1) \cap allocated = {}
    BY <1>5, <2>1 DEF X!FreeGroup
  <2>3. find .. find + count - 1 \subseteq X!Cluster
    BY <1>4, <1>5, <1>6, Cluster0 DEF X!Cluster
  <2> QED BY <2>2, <2>3
<1>8. ASSUME cluster = 0, count = 1, NoneFreeBelow(m_bitmapStart, allocated),
             NEW c \in X!Cluster, c < find
      PROVE  c \in allocated
  <2> SUFFICES ASSUME ~(c - 2 < start) PROVE c \in allocated
    BY <1>1, <1>8 DEF NoneFreeBelow
  <2>1. c - 2 \in start .. X!m_clusterCount - 1 /\ c - 2 < b
    BY <1>1, <1>4, <1>5, <1>8 DEF X!Cluster
  <2>2. CASE X!FreeGroup(c - 2, 1)
    <3>1. c - 2 \in behind
      BY <1>8, <2>1, <2>2
    <3> HIDE DEF behind
    <3>2. b <= c - 2
      BY <1>4, <3>1
    <3> QED BY <2>1, <3>2, <1>5, <1>1
  <2>3. CASE ~X!FreeGroup(c - 2, 1)
    <3>1. c - 2 + 1 <= X!m_clusterCount
      BY <1>1, <2>1
    <3>2. (c - 2 + 2 .. c - 2 + 1 + 1) = {c}
      BY <1>8 DEF X!Cluster
    <3> QED BY <2>3, <3>1, <3>2 DEF X!FreeGroup
  <2> QED BY <2>2, <2>3
<1> QED BY <1>6, <1>7, <1>8 DEF find

(* bitmapModify on a group whose bits all have the other value. *)
Group(c, n) == c .. c + n - 1
GroupOK(c, n) == c \in X!Cluster /\ n \in Nat \ {0} /\ c + n - 1 <= m_lastCluster

LEMMA ModifyGroup ==
  ASSUME X!FileAssumption, BitmapOK, NEW c, NEW n, GroupOK(c, n), NEW value \in BOOLEAN,
         \A x \in Group(c, n) : value # (x \in allocated),
         NEW from \in 0 .. X!m_clusterCount - 1,
         NEW b \in X!bitmapModify(c, n, value, from)
  PROVE  /\ b.start = X!StartMoved(c - 2, c - 2 + n, value, from)
         /\ \E k \in 0 .. n :
              /\ b.bits = IF value THEN allocated \cup Group(c, k) ELSE allocated \ Group(c, k)
              /\ b.ok => k = n
         /\ ~b.ok => ioFails
<1> DEFINE flip(k) == IF value THEN allocated \cup (c .. c + k - 1)
                      ELSE allocated \ (c .. c + k - 1)
           same(x) == value = (x \in allocated)
           Run == {x \in c .. m_lastCluster : same(x)} \cup {m_lastCluster + 1}
           run == X!Min(Run) - c
           to == X!StartMoved(c - 2, c - 2 + n, value, from)
<1>1. /\ n \in Nat \ {0} /\ c \in Nat /\ c >= 2 /\ c + n - 1 <= m_lastCluster
      /\ m_lastCluster = X!m_clusterCount + 1 /\ m_lastCluster \in Nat
  BY Cluster0 DEF GroupOK, X!Cluster, X!m_clusterCount
<1>2. n % XWord = n /\ (c - 2 + n) % XWord = c - 2 + n /\ ~(c - 2 + n > X!m_clusterCount)
  <2> DEFINE end == c - 2 + n
  <2>1. /\ n \in 0 .. XWord - 1 /\ end \in 0 .. XWord - 1 /\ XWord \in Nat \ {0}
        /\ ~(end > X!m_clusterCount)
    BY <1>1, Cluster0
  <2> HIDE DEF end
  <2>2. n % XWord = n /\ end % XWord = end
    BY <2>1
  <2> QED BY <2>1, <2>2 DEF end
<1>3. run \in Nat /\ n <= run
  <2>1. Run \subseteq Nat /\ Run # {}
    BY <1>1
  <2>2. X!Min(Run) \in Run
    <3> HIDE DEF Run
    <3> QED BY <2>1, MinIs
  <2>3. ASSUME NEW x \in Run PROVE x \in Nat /\ x > c + n - 1
    <3>1. CASE x = m_lastCluster + 1
      BY <1>1, <3>1
    <3>2. CASE x \in c .. m_lastCluster /\ same(x)
      <4>1. x \notin Group(c, n)
        BY <3>2, Zenon
      <4> QED BY <1>1, <3>2, <4>1 DEF Group
    <3> QED BY <3>1, <3>2
  <2> HIDE DEF Run
  <2>4. X!Min(Run) \in Nat /\ X!Min(Run) > c + n - 1
    BY <2>2, <2>3
  <2> QED BY <1>1, <2>4
<1> HIDE DEF run
<1>4. b \in {X!Bitmap(TRUE, flip(n), to)} \cup
          (IF ioFails THEN {X!Bitmap(FALSE, flip(k), to) : k \in 0 .. n - 1} ELSE {})
  <2>1. n \in 1 .. run
    BY <1>1, <1>3
  <2> HIDE DEF to, flip
  <2> QED BY <1>2, <2>1 DEF X!bitmapModify, run, to, flip
<1>5. /\ b.start = to
      /\ \E k \in 0 .. n : b.bits = flip(k) /\ (b.ok => k = n)
      /\ ~b.ok => ioFails
  <2> HIDE DEF to, flip
  <2>1. CASE b = X!Bitmap(TRUE, flip(n), to)
    BY <1>1, <2>1 DEF X!Bitmap
  <2>2. CASE ioFails /\ b \in {X!Bitmap(FALSE, flip(k), to) : k \in 0 .. n - 1}
    BY <1>1, <2>2 DEF X!Bitmap
  <2> QED BY <1>4, <2>1, <2>2
<1> QED BY <1>5, Zenon DEF Group, to, flip

LEMMA GroupTaken ==
  ASSUME X!FileAssumption, BitmapOK, NEW c, NEW n, GroupOK(c, n),
         Group(c, n) \cap allocated = {}, NEW from \in 0 .. X!m_clusterCount - 1,
         NEW b \in X!bitmapModify(c, n, TRUE, from)
  PROVE  /\ b.bits \subseteq X!Cluster /\ allocated \subseteq b.bits
         /\ b.bits \subseteq allocated \cup Group(c, n)
         /\ b.ok => b.bits = allocated \cup Group(c, n)
         /\ b.start \in 0 .. X!m_clusterCount - 1
         /\ ~b.ok => ioFails
         /\ b.ok /\ NoneFreeBelow(from, allocated \cup Group(c, n)) =>
              NoneFreeBelow(b.start, b.bits)
<1>1. /\ b.start = X!StartMoved(c - 2, c - 2 + n, TRUE, from)
      /\ \E k \in 0 .. n : b.bits = allocated \cup Group(c, k) /\ (b.ok => k = n)
      /\ ~b.ok => ioFails
  <2>1. \A x \in Group(c, n) : TRUE # (x \in allocated)
    OBVIOUS
  <2>2. /\ b.start = X!StartMoved(c - 2, c - 2 + n, TRUE, from)
        /\ \E k \in 0 .. n :
             /\ b.bits = IF TRUE THEN allocated \cup Group(c, k) ELSE allocated \ Group(c, k)
             /\ b.ok => k = n
        /\ ~b.ok => ioFails
    BY <2>1, TRUE \in BOOLEAN, ModifyGroup, Zenon
  <2> QED BY <2>2
<1>2. PICK k \in 0 .. n : b.bits = allocated \cup Group(c, k) /\ (b.ok => k = n)
  BY <1>1
<1>3. /\ n \in Nat \ {0} /\ c \in Nat /\ c >= 2 /\ c + n - 1 <= m_lastCluster
      /\ m_lastCluster = X!m_clusterCount + 1 /\ X!m_clusterCount \in Nat \ {0}
  BY Cluster0 DEF GroupOK, X!Cluster, X!m_clusterCount
<1>4. Group(c, k) \subseteq Group(c, n) /\ Group(c, n) \subseteq X!Cluster
  BY <1>3 DEF Group, X!Cluster
<1>5. b.start \in 0 .. X!m_clusterCount - 1
  BY <1>1, <1>3 DEF X!StartMoved
<1>6. ASSUME b.ok, NoneFreeBelow(from, allocated \cup Group(c, n)), NEW x \in X!Cluster,
             x - 2 < b.start
      PROVE  x \in b.bits
  <2>1. b.bits = allocated \cup Group(c, n)
    BY <1>2, <1>6
  <2>2. CASE x - 2 < from
    BY <1>6, <2>1, <2>2 DEF NoneFreeBelow
  <2>3. CASE ~(x - 2 < from)
    <3>1. x \in Nat /\ b.start = c - 2 + n /\ c - 2 <= from
      BY <1>1, <1>3, <1>6, <2>3 DEF X!StartMoved, X!Cluster
    <3>2. x \in Group(c, n)
      BY <1>3, <1>6, <2>3, <3>1 DEF Group
    <3> QED BY <2>1, <3>2
  <2> QED BY <2>2, <2>3
<1>7. allocated \subseteq X!Cluster
  BY DEF BitmapOK
<1> QED BY <1>1, <1>2, <1>4, <1>5, <1>6, <1>7 DEF NoneFreeBelow

LEMMA GroupFreed ==
  ASSUME X!FileAssumption, BitmapOK, NEW c, NEW n, GroupOK(c, n),
         Group(c, n) \subseteq allocated,
         NEW b \in X!bitmapModify(c, n, FALSE, m_bitmapStart)
  PROVE  /\ b.bits \subseteq allocated /\ allocated \ Group(c, n) \subseteq b.bits
         /\ b.ok => b.bits = allocated \ Group(c, n)
         /\ b.start \in 0 .. X!m_clusterCount - 1
         /\ ~b.ok => ioFails
         /\ b.ok /\ NoneFreeBelow(m_bitmapStart, allocated) => NoneFreeBelow(b.start, b.bits)
<1>0. m_bitmapStart \in 0 .. X!m_clusterCount - 1
  BY DEF BitmapOK
<1>1. /\ b.start = X!StartMoved(c - 2, c - 2 + n, FALSE, m_bitmapStart)
      /\ \E k \in 0 .. n : b.bits = allocated \ Group(c, k) /\ (b.ok => k = n)
      /\ ~b.ok => ioFails
  <2>1. \A x \in Group(c, n) : FALSE # (x \in allocated)
    OBVIOUS
  <2>2. /\ b.start = X!StartMoved(c - 2, c - 2 + n, FALSE, m_bitmapStart)
        /\ \E k \in 0 .. n :
             /\ b.bits = IF FALSE THEN allocated \cup Group(c, k) ELSE allocated \ Group(c, k)
             /\ b.ok => k = n
        /\ ~b.ok => ioFails
    BY <1>0, <2>1, FALSE \in BOOLEAN, ModifyGroup, Zenon
  <2> QED BY <2>2
<1>2. PICK k \in 0 .. n : b.bits = allocated \ Group(c, k) /\ (b.ok => k = n)
  BY <1>1
<1>3. /\ n \in Nat \ {0} /\ c \in Nat /\ c >= 2 /\ c + n - 1 <= m_lastCluster
      /\ m_lastCluster = X!m_clusterCount + 1 /\ X!m_clusterCount \in Nat \ {0}
  BY Cluster0 DEF GroupOK, X!Cluster, X!m_clusterCount
<1>4. Group(c, k) \subseteq Group(c, n)
  BY <1>3 DEF Group
<1>5. b.start = X!Smaller(c - 2, m_bitmapStart) /\ b.start \in 0 .. X!m_clusterCount - 1
  BY <1>0, <1>1, <1>3 DEF X!StartMoved, X!Smaller
<1>6. ASSUME b.ok, NoneFreeBelow(m_bitmapStart, allocated), NEW x \in X!Cluster, x - 2 < b.start
      PROVE  x \in b.bits
  <2>1. x \in Nat /\ x - 2 < m_bitmapStart /\ x < c
    BY <1>0, <1>3, <1>5, <1>6 DEF X!Smaller, X!Cluster
  <2>2. x \in allocated
    BY <1>6, <2>1 DEF NoneFreeBelow
  <2>3. x \notin Group(c, k)
    BY <1>3, <2>1 DEF Group
  <2> QED BY <1>2, <2>2, <2>3
<1> QED BY <1>1, <1>2, <1>4, <1>5, <1>6 DEF NoneFreeBelow

LEMMA ChainFreed ==
  ASSUME X!FileAssumption, BitmapOK, chain \in Seq(X!Cluster), NEW k \in DOMAIN chain,
         NEW f \in X!freeChain(k)
  PROVE  /\ f.bits \subseteq allocated /\ allocated \ X!ChainFrom(k) \subseteq f.bits
         /\ f.ok => f.bits = allocated \ X!ChainFrom(k)
         /\ f.start \in 0 .. X!m_clusterCount - 1
         /\ ~f.ok => ioFails
         /\ f.ok /\ NoneFreeBelow(m_bitmapStart, allocated) => NoneFreeBelow(f.start, f.bits)
         /\ \E cs : f.fat = X!Without(cs) /\ (f.ok => cs = X!ChainFrom(k))
<1> DEFINE n == Len(chain)
           gone(i) == {chain[j] : j \in k .. i}
           Starts(i) == {m_bitmapStart} \cup {c - 2 : c \in gone(i)}
           lowered(i) == X!Min(Starts(i))
           Ends(i) == {k - 1} \cup {j \in X!RunEnds(k) : j < i}
           before(i) == X!Max(Ends(i))
           all == X!Freed(TRUE, allocated \ X!ChainFrom(k), lowered(n), X!Without(X!ChainFrom(k)))
           entryFails == {X!Freed(FALSE, allocated \ gone(before(i)), lowered(before(i)),
                                  X!Without(gone(i - 1))) : i \in k .. n}
           bitsFail(i) == {X!Freed(FALSE, allocated \ gone(m), lowered(i), X!Without(gone(i))) :
                             m \in before(i) .. i - 1}
<1>1. /\ n \in Nat /\ k \in 1 .. n /\ DOMAIN chain = 1 .. n
      /\ m_bitmapStart \in 0 .. X!m_clusterCount - 1
      /\ \A i \in 1 .. n : chain[i] \in Nat /\ chain[i] - 2 \in 0 .. X!m_clusterCount - 1
      /\ X!m_clusterCount \in Nat
  <2>1. n \in Nat /\ k \in 1 .. n /\ DOMAIN chain = 1 .. n
        /\ \A i \in 1 .. n : chain[i] \in X!Cluster
    OBVIOUS
  <2>2. m_bitmapStart \in 0 .. X!m_clusterCount - 1
    BY DEF BitmapOK
  <2>3. \A c \in X!Cluster : c \in Nat /\ c - 2 \in 0 .. X!m_clusterCount - 1
    BY Cluster0 DEF X!Cluster, X!m_clusterCount
  <2> QED BY <2>1, <2>2, <2>3, Cluster0
<1> HIDE DEF n
<1>2. \A i \in Int : i <= n => gone(i) \subseteq X!ChainFrom(k)
  BY <1>1 DEF X!ChainFrom, n
<1>3. gone(n) = X!ChainFrom(k)
  BY DEF X!ChainFrom, n
<1>4. ASSUME NEW i \in Int, i <= n
      PROVE  /\ lowered(i) \in 0 .. X!m_clusterCount - 1 /\ lowered(i) <= m_bitmapStart
             /\ \A c \in gone(i) : lowered(i) <= c - 2
  <2>1. Starts(i) \subseteq 0 .. X!m_clusterCount - 1
    <3>1. \A j \in k .. i : j \in 1 .. n
      BY <1>1, <1>4
    <3>2. \A c \in gone(i) : c - 2 \in 0 .. X!m_clusterCount - 1
      BY <1>1, <3>1
    <3> HIDE DEF gone
    <3> QED BY <1>1, <3>2
  <2>2. m_bitmapStart \in Starts(i) /\ \A c \in gone(i) : c - 2 \in Starts(i)
    OBVIOUS
  <2> HIDE DEF Starts, gone
  <2>3. Starts(i) \subseteq Nat /\ Starts(i) # {}
    BY <1>1, <2>1, <2>2
  <2>4. lowered(i) \in Starts(i) /\ \A x \in Starts(i) : lowered(i) <= x
    BY <2>3, MinIs
  <2> QED BY <2>1, <2>2, <2>4
<1>5. \A i \in k .. n : before(i) \in Int /\ before(i) <= n /\ before(i) >= k - 1
  <2> SUFFICES ASSUME NEW i \in k .. n
               PROVE  before(i) \in Int /\ before(i) <= n /\ before(i) >= k - 1
    OBVIOUS
  <2>1. Ends(i) \subseteq 0 .. n /\ Ends(i) # {} /\ k - 1 \in Ends(i)
    BY <1>1 DEF X!RunEnds, n
  <2> HIDE DEF Ends
  <2>2. X!Max(Ends(i)) \in Ends(i) /\ \A x \in Ends(i) : x <= X!Max(Ends(i))
    BY <1>1, <2>1, MaxIs
  <2> QED BY <1>1, <2>1, <2>2
<1>6. f \in {all} \cup (IF ioFails THEN entryFails \cup UNION {bitsFail(i) : i \in X!RunEnds(k)}
                        ELSE {})
  BY DEF X!freeChain, n
<1> HIDE DEF gone, Starts, lowered, before, Ends
<1>7. CASE f = all
  <2>1. f.ok /\ f.bits = allocated \ X!ChainFrom(k) /\ f.start = lowered(n)
        /\ f.fat = X!Without(X!ChainFrom(k))
    BY <1>7 DEF X!Freed
  <2>2. lowered(n) \in 0 .. X!m_clusterCount - 1 /\ lowered(n) <= m_bitmapStart
        /\ \A c \in X!ChainFrom(k) : lowered(n) <= c - 2
    BY <1>1, <1>3, <1>4
  <2>3. ASSUME NoneFreeBelow(m_bitmapStart, allocated), NEW x \in X!Cluster, x - 2 < f.start
        PROVE  x \in f.bits
    <3>1. x \in Nat /\ x - 2 < m_bitmapStart
      BY <1>1, <2>1, <2>2, <2>3 DEF X!Cluster
    <3>2. x \notin X!ChainFrom(k)
      BY <2>1, <2>2, <2>3, <3>1
    <3> QED BY <2>1, <2>3, <3>1, <3>2 DEF NoneFreeBelow
  <2> QED BY <2>1, <2>2, <2>3 DEF NoneFreeBelow
<1>8. CASE ioFails /\ f \in entryFails
  <2>1. PICK i \in k .. n :
          f = X!Freed(FALSE, allocated \ gone(before(i)), lowered(before(i)), X!Without(gone(i - 1)))
    BY <1>8
  <2>2. ~f.ok /\ f.bits = allocated \ gone(before(i)) /\ f.start = lowered(before(i))
        /\ f.fat = X!Without(gone(i - 1))
    BY <2>1 DEF X!Freed
  <2>3. gone(before(i)) \subseteq X!ChainFrom(k) /\ f.start \in 0 .. X!m_clusterCount - 1
    BY <1>2, <1>4, <1>5, <2>2
  <2> QED BY <1>8, <2>2, <2>3
<1>9. CASE ioFails /\ \E i \in X!RunEnds(k) : f \in bitsFail(i)
  <2>0. PICK i \in k .. n : f \in bitsFail(i)
    BY <1>9 DEF X!RunEnds, n
  <2>1. PICK m \in before(i) .. i - 1 :
          f = X!Freed(FALSE, allocated \ gone(m), lowered(i), X!Without(gone(i)))
    BY <2>0
  <2>2. ~f.ok /\ f.bits = allocated \ gone(m) /\ f.start = lowered(i) /\ f.fat = X!Without(gone(i))
    BY <2>1 DEF X!Freed
  <2>3. m \in Int /\ m <= n
    BY <1>1, <1>5, <2>1
  <2>4. gone(m) \subseteq X!ChainFrom(k) /\ f.start \in 0 .. X!m_clusterCount - 1
    BY <1>1, <1>2, <1>4, <2>2, <2>3
  <2> QED BY <1>9, <2>2, <2>4
<1> QED BY <1>6, <1>7, <1>8, <1>9

-----------------------------------------------------------------------------
(* The inductive invariant. *)

Live == open /\ pc # "close"
Settled == open /\ pc \in {"idle", "truncate", "read", "read_io"}
Writing == open /\ pc \in {"write", "write_io"}
InTransferStep == pc \in {"read_io", "write_io"}

Calls ==
  /\ ~open => pc = "idle" /\ m_flags = {}
  /\ pc \in {"idle", "close", "truncate"} => left = 0 /\ toFill = 0
  /\ InTransferStep => left > 0
  /\ pc = "truncate" =>
       m_curPosition = 0 /\ m_curCluster = 0 /\ "DIR_DIRTY" \notin m_flags

ChainOK == Distinct /\ (Live => m_firstCluster = FirstOf(chain))

(* seekSet and a transfer leave the cursor in the cluster of the byte      *)
(* before the position.                                                    *)
AtPos(pos, c) ==
  IF pos = 0 THEN c = 0 ELSE X!Index(pos) \in 0 .. Len(chain) - 1 /\ c = chain[X!Index(pos) + 1]
CursorOK ==
  /\ open /\ pc \in {"idle", "truncate", "read", "write"} => AtPos(m_curPosition, m_curCluster)
  /\ X!RightCluster

(* In a write the valid length runs ahead of the data length, with the     *)
(* position; zeros are stored only behind it.                              *)
LengthsOK ==
  /\ Settled => /\ m_validLength <= m_dataLength
                /\ m_dataLength <= Len(chain) * X!BytesPerCluster
                /\ m_curPosition + left + toFill <= m_dataLength
  /\ Writing => /\ m_curPosition <= m_validLength
                /\ m_validLength <= Len(chain) * X!BytesPerCluster
                /\ m_dataLength <= Len(chain) * X!BytesPerCluster
                /\ m_validLength <= m_dataLength \/ m_validLength = m_curPosition
                /\ toFill > 0 => m_curPosition = m_validLength

(* The clusters of a contiguous file are those of its data length, and in  *)
(* a write those up to the cursor.                                         *)
InLast ==
  IF pc = "write_io" THEN m_curPosition \div X!BytesPerCluster + 1 = Len(chain)
  ELSE m_curPosition # 0 /\ X!Index(m_curPosition) + 1 = Len(chain)
CountOK ==
  X!Contiguous /\ m_firstCluster # 0 =>
    /\ Settled => Len(chain) = X!ClusterCount(m_dataLength)
    /\ Writing => /\ X!ClusterCount(m_dataLength) <= Len(chain)
                  /\ Len(chain) = X!ClusterCount(m_dataLength) \/ InLast

(* The entry is written when the valid length has grown; until then a new  *)
(* cluster may have taken CONTIGUOUS away.                                 *)
Agrees ==
  /\ entry = X!Entry(m_firstCluster, m_dataLength, m_validLength, entry.contiguous)
  /\ m_firstCluster # 0 => entry.contiguous = X!Contiguous
EntryOK ==
  /\ (Settled \/ (open /\ pc = "write")) /\ "DIR_DIRTY" \notin m_flags => Agrees
  /\ open /\ pc = "write_io" /\ "DIR_DIRTY" \notin m_flags =>
       Agrees \/ m_curPosition >= m_validLength
  /\ Live => entry.valid <= m_validLength

InChain(n) == n < Len(chain) * X!BytesPerCluster
EntryStored == byte < entry.valid /\ InChain(byte) => X!ByteAt \in own
ContentsOK == X!WrittenInPlace /\ X!NothingStale /\ EntryStored

XIInv ==
  /\ X!TypeOK /\ Calls /\ ChainOK /\ CursorOK /\ LengthsOK /\ CountOK /\ EntryOK
  /\ ContentsOK /\ X!ContiguousHolds /\ X!NoClusterShared /\ X!SearchReaches

LEMMA XInitIInv == ASSUME X!FileAssumption, X!Init PROVE XIInv
<1>1. Len(chain) = 0 /\ DOMAIN chain = {} /\ chain \in Seq(X!Cluster)
      /\ Len(chain) * X!BytesPerCluster = 0
  BY Cluster0 DEF X!Init
<1>2. byte \in X!Position /\ 0 \in X!Position /\ 0 \in 0 .. XMaxTransfer
      /\ 0 \in 0 .. X!m_clusterCount - 1
  BY DEF X!Init, X!FileAssumption, X!Position, X!m_clusterCount, X!BytesPerCluster
<1>3. DOMAIN fat = {} /\ ioFails \in BOOLEAN
  BY DEF X!Init, X!FileAssumption
<1>4. X!TypeOK
  BY <1>1, <1>2, <1>3 DEF X!Init, X!TypeOK, X!NoEntry, X!Entry
<1>5. ~open /\ ~written /\ pc = "idle" /\ left = 0 /\ toFill = 0 /\ m_flags = {}
      /\ others = {} /\ entry.valid = 0 /\ m_bitmapStart = 0
  BY DEF X!Init, X!NoEntry, X!Entry
<1>6. Calls /\ ChainOK /\ CursorOK /\ LengthsOK /\ CountOK /\ EntryOK
  BY <1>1, <1>5 DEF Calls, ChainOK, Distinct, CursorOK, LengthsOK, CountOK, EntryOK, Live,
     Settled, Writing, InTransferStep, X!RightCluster
<1>7. ContentsOK
  <2>1. ~(byte < entry.valid)
    BY <1>2, <1>5 DEF X!Position
  <2> QED BY <1>5, <2>1 DEF ContentsOK, X!WrittenInPlace, X!NothingStale, EntryStored
<1>8. X!ContiguousHolds /\ X!NoClusterShared /\ X!SearchReaches
  BY <1>5 DEF X!ContiguousHolds, X!NoClusterShared, X!SearchReaches, X!Cluster
<1> QED
  BY <1>4, <1>6, <1>7, <1>8 DEF XIInv

LEMMA XStutterIInv == ASSUME XIInv, UNCHANGED X!vars PROVE XIInv'
<1> USE DEF X!vars, X!cursor, X!lengths, X!bitmap, X!data
<1>1. X!TypeOK' /\ Calls' /\ ChainOK'
  BY DEF XIInv, X!TypeOK, Calls, ChainOK, Distinct, Live, InTransferStep
<1>2. CursorOK' /\ LengthsOK' /\ CountOK' /\ EntryOK'
  BY DEF XIInv, CursorOK, AtPos, X!RightCluster, LengthsOK, Settled, Writing, CountOK, InLast,
     X!Contiguous, EntryOK, Agrees, Live
<1>3. ContentsOK' /\ X!ContiguousHolds'
  BY DEF XIInv, ContentsOK, X!WrittenInPlace, X!NothingStale, EntryStored, InChain, X!ByteAt,
     X!ContiguousHolds, X!Contiguous, X!Linked
<1>4. X!NoClusterShared' /\ X!SearchReaches'
  BY DEF XIInv, X!NoClusterShared, X!Owned, X!SearchReaches
<1> QED BY <1>1, <1>2, <1>3, <1>4 DEF XIInv

LEMMA XIInvSafe ==
  ASSUME XIInv
  PROVE  /\ X!TypeOK /\ X!RightCluster /\ X!WrittenInPlace /\ X!NothingStale /\ X!ContiguousHolds
         /\ X!InsideFile /\ X!EntryAgrees /\ X!NoClusterShared /\ X!SearchReaches
BY DEF XIInv, CursorOK, ContentsOK, X!InsideFile, LengthsOK, Settled, X!EntryAgrees, EntryOK, Agrees

-----------------------------------------------------------------------------
(* What the invariant says of an open file between two transfers. *)

LEMMA TypeFacts ==
  ASSUME X!FileAssumption, XIInv
  PROVE  /\ chain \in Seq(X!Cluster) /\ Len(chain) \in Nat /\ DOMAIN chain = 1 .. Len(chain)
         /\ \A i \in 1 .. Len(chain) : chain[i] \in X!Cluster
         /\ Len(chain) * X!BytesPerCluster \in Nat
         /\ Len(chain) * X!BytesPerCluster <= X!m_clusterCount * X!BytesPerCluster
         /\ X!m_clusterCount * X!BytesPerCluster \in Nat
         /\ 0 .. X!m_clusterCount * X!BytesPerCluster \subseteq X!Position
         /\ m_curPosition \in Nat /\ m_dataLength \in Nat /\ m_validLength \in Nat
         /\ byte \in Nat /\ toFill \in Nat /\ left \in Nat
         /\ entry.valid \in Nat /\ entry.data \in Nat /\ entry.first \in X!Cluster \cup {0}
         /\ BitmapOK /\ Distinct
<1>1. /\ chain \in Seq(X!Cluster) /\ Len(chain) \in Nat /\ DOMAIN chain = 1 .. Len(chain)
      /\ \A i \in 1 .. Len(chain) : chain[i] \in X!Cluster
  BY DEF XIInv, X!TypeOK
<1>2. /\ m_curPosition \in Nat /\ m_dataLength \in Nat /\ m_validLength \in Nat
      /\ byte \in Nat /\ toFill \in Nat /\ left \in Nat
  BY DEF XIInv, X!TypeOK, X!Position
<1>3. entry.valid \in Nat /\ entry.data \in Nat /\ entry.first \in X!Cluster \cup {0}
  BY DEF XIInv, X!TypeOK, X!Position
<1>4. BitmapOK /\ Distinct
  BY DEF XIInv, X!TypeOK, BitmapOK, ChainOK
<1>5. Len(chain) <= X!m_clusterCount
  BY <1>1, <1>4, ChainLength
<1> DEFINE B == X!BytesPerCluster
           C == X!m_clusterCount
           N == Len(chain)
<1>6. B \in Nat /\ C \in Nat
  BY Cluster0
<1>7. /\ N * B \in Nat /\ N * B <= C * B /\ C * B \in Nat
      /\ C * B <= (C + 1) * B /\ (C + 1) * B \in Nat
  <2> HIDE DEF B, C, N
  <2>1. N \in Nat /\ N <= C
    BY <1>1, <1>5 DEF N, C
  <2> QED BY <1>6, <2>1
<1>8. 0 .. C * B \subseteq X!Position
  <2> HIDE DEF B, C
  <2> QED BY <1>7 DEF X!Position, B, C
<1> QED BY <1>1, <1>2, <1>3, <1>4, <1>7, <1>8

(* An empty file has no length. *)
LEMMA NoCluster ==
  ASSUME X!FileAssumption, XIInv, m_firstCluster = 0, Settled
  PROVE  /\ chain = <<>> /\ m_dataLength = 0 /\ m_validLength = 0 /\ m_curPosition = 0
         /\ left = 0 /\ toFill = 0 /\ X!Owned = {} /\ ~written
<1>1. chain = <<>>
  <2>1. m_firstCluster = FirstOf(chain)
    BY DEF XIInv, ChainOK, Live, Settled
  <2> SUFFICES ASSUME chain # <<>> PROVE FALSE
    OBVIOUS
  <2>2. 1 \in 1 .. Len(chain)
    BY TypeFacts
  <2> QED BY <2>1, <2>2, TypeFacts, Cluster0 DEF FirstOf
<1>2. Len(chain) * X!BytesPerCluster = 0
  BY <1>1, Cluster0
<1>3. m_dataLength = 0 /\ m_validLength = 0 /\ m_curPosition = 0 /\ left = 0 /\ toFill = 0
  BY <1>2, TypeFacts DEF XIInv, LengthsOK
<1>4. X!Owned = {} /\ ~written
  BY <1>1, <1>2, TypeFacts DEF X!Owned, XIInv, ContentsOK, X!WrittenInPlace
<1> QED BY <1>1, <1>3, <1>4

LEMMA SeekFindsCluster ==
  ASSUME X!FileAssumption, XIInv, Settled, NEW from \in Nat, NEW cluster, AtPos(from, cluster),
         NEW pos \in 1 .. m_dataLength, NEW c \in X!SeekClusters(pos, from, cluster)
  PROVE  AtPos(pos, c) /\ c \in X!Cluster
<1> DEFINE n == X!Index(pos)
           at == X!Index(from)
<1>1. /\ m_firstCluster = FirstOf(chain) /\ m_dataLength <= Len(chain) * X!BytesPerCluster
      /\ X!ContiguousHolds /\ Live
  BY DEF XIInv, ChainOK, LengthsOK, Settled, Live
<1>2. n \in 0 .. Len(chain) - 1
  <2>1. pos \in Nat /\ pos # 0 /\ pos <= Len(chain) * X!BytesPerCluster
    BY <1>1, TypeFacts
  <2>2. n \in Nat /\ n < Len(chain)
    BY <2>1, TypeFacts, PositionIndex
  <2> QED BY <2>2, TypeFacts
<1> HIDE DEF n, at
<1>3. n + 1 \in DOMAIN chain /\ 1 \in DOMAIN chain /\ chain # <<>> /\ m_firstCluster = chain[1]
      /\ m_firstCluster \in Nat \ {0}
  <2>1. n + 1 \in DOMAIN chain /\ 1 \in DOMAIN chain /\ chain # <<>>
    BY <1>2, TypeFacts
  <2>2. m_firstCluster = chain[1]
    BY <1>1, <2>1 DEF FirstOf
  <2>3. chain[1] \in X!Cluster
    BY <2>1, TypeFacts
  <2> QED BY <2>1, <2>2, <2>3, Cluster0
<1>4. c = chain[n + 1]
  <2>1. CASE X!Contiguous
    <3>1. chain[n + 1] = m_firstCluster + (n + 1) - 1
      BY <1>1, <1>3, <2>1 DEF X!ContiguousHolds, Live
    <3>2. c = m_firstCluster + n
      BY <2>1 DEF X!SeekClusters, n
    <3> QED BY <3>1, <3>2, <1>2, <1>3
  <2>2. CASE ~X!Contiguous
    <3>0. X!Linked
      BY <1>1, <1>3, <2>2 DEF X!ContiguousHolds, Live
    <3>1. CASE from = 0 \/ n < at
      <4>1. c \in X!Follow(chain[1], n)
        BY <1>3, <2>2, <3>1 DEF X!SeekClusters, n, at
      <4>2. X!Follow(chain[1], n) = {chain[1 + n]}
        <5>1. n \in Nat /\ 1 + n <= Len(chain)
          BY <1>2, TypeFacts
        <5> QED BY <5>1, <1>3, <3>0, TypeFacts, FollowIs
      <4> QED BY <4>1, <4>2, <1>2
    <3>2. CASE ~(from = 0 \/ n < at)
      <4>1. c \in X!Follow(cluster, n - at)
        BY <2>2, <3>2 DEF X!SeekClusters, n, at
      <4>2. at \in 0 .. Len(chain) - 1 /\ cluster = chain[at + 1]
        BY <3>2 DEF AtPos, at
      <4>3. at + 1 \in DOMAIN chain /\ n - at \in Nat /\ (at + 1) + (n - at) = n + 1
            /\ n + 1 <= Len(chain)
        BY <1>2, <3>2, <4>2, TypeFacts
      <4> DEFINE k == n - at
                 j == at + 1
      <4>4. X!Follow(chain[j], k) = {chain[j + k]}
        <5> HIDE DEF j, k
        <5>1. j \in DOMAIN chain /\ k \in Nat /\ j + k <= Len(chain)
          BY <4>3 DEF j, k
        <5> QED BY <5>1, <3>0, TypeFacts, FollowIs
      <4> QED BY <4>1, <4>2, <4>3, <4>4
    <3> QED BY <3>1, <3>2
  <2> QED BY <2>1, <2>2
<1>5. c \in X!Cluster
  BY <1>3, <1>4, TypeFacts
<1> QED BY <1>2, <1>4, <1>5 DEF AtPos, n

LEMMA SeekOutcome ==
  ASSUME X!FileAssumption, XIInv, Settled, NEW from \in Nat, NEW cluster \in X!Cluster \cup {0},
         AtPos(from, cluster), NEW pos \in Nat, NEW o \in X!seekOutcomes(pos, from, cluster)
  PROVE  /\ AtPos(o.pos, o.cluster) /\ o.cluster \in X!Cluster \cup {0}
         /\ o.ok => o.pos = pos /\ (pos <= m_dataLength \/ pos = from)
         /\ ~o.ok => o.pos = from
<1>1. CASE pos = from
  BY <1>1 DEF X!seekOutcomes, X!Sought
<1>2. CASE pos # from /\ pos = 0
  BY <1>2, TypeFacts DEF X!seekOutcomes, X!Sought, AtPos
<1>3. CASE pos # from /\ pos # 0 /\ pos > m_dataLength
  BY <1>3 DEF X!seekOutcomes, X!Sought
<1>4. CASE pos # from /\ pos # 0 /\ ~(pos > m_dataLength)
  <2>1. pos \in 1 .. m_dataLength
    BY <1>4, TypeFacts
  <2>2. \A c \in X!SeekClusters(pos, from, cluster) : AtPos(pos, c) /\ c \in X!Cluster
    BY <2>1, SeekFindsCluster
  <2>3. \/ o = X!Sought(FALSE, from, cluster)
        \/ \E c \in X!SeekClusters(pos, from, cluster) : o = X!Sought(TRUE, pos, c)
    BY <1>4 DEF X!seekOutcomes
  <2> QED BY <2>1, <2>2, <2>3, TypeFacts DEF X!Sought
<1> QED BY <1>1, <1>2, <1>3, <1>4

LEMMA SyncOutcome ==
  ASSUME NEW flags, NEW first, NEW dataLength, NEW valid,
         NEW o \in X!SyncOutcomes(flags, first, dataLength, valid)
  PROVE  /\ o.flags = flags \ {"DIR_DIRTY"}
         /\ o.entry \in {entry, X!Entry(first, dataLength, valid, "CONTIGUOUS" \in flags)}
         /\ "DIR_DIRTY" \notin flags => o.entry = entry
         /\ o.ok /\ "DIR_DIRTY" \in flags =>
              o.entry = X!Entry(first, dataLength, valid, "CONTIGUOUS" \in flags)
<1> DEFINE e == IF "DIR_DIRTY" \in flags
                THEN X!Entry(first, dataLength, valid, "CONTIGUOUS" \in flags) ELSE entry
           clean == flags \ {"DIR_DIRTY"}
<1>1. o \in {X!Synced(TRUE, clean, e), X!Synced(FALSE, clean, e), X!Synced(FALSE, clean, entry)}
  BY DEF X!SyncOutcomes
<1> HIDE DEF clean, e
<1>2. o.flags = clean /\ o.entry \in {entry, e} /\ (o.ok => o.entry = e)
  BY <1>1 DEF X!Synced
<1> QED BY <1>2 DEF clean, e

LEMMA CountBound ==
  ASSUME X!FileAssumption, NEW d \in Nat, NEW n \in Nat
  PROVE  X!ClusterCount(d) \in Nat /\ (X!ClusterCount(d) <= n <=> d <= n * X!BytesPerCluster)
<1>1. n * X!BytesPerCluster \in Nat
  BY Cluster0
<1>2. CASE d = 0
  BY <1>1, <1>2 DEF X!ClusterCount
<1>3. CASE d # 0
  <2>1. X!Index(d) \in Nat /\ (d <= n * X!BytesPerCluster <=> X!Index(d) < n)
    BY <1>3, PositionIndex
  <2> QED BY <1>3, <2>1 DEF X!ClusterCount
<1> QED BY <1>2, <1>3

-----------------------------------------------------------------------------
(* Four ways to leave a call. *)

LEMMA ClosedIInv ==
  ASSUME X!TypeOK', ~open', pc' = "idle", m_flags' = {}, left' = 0, toFill' = 0, Distinct',
         ContentsOK', others' \subseteq allocated', X!SearchReaches'
  PROVE  XIInv'
<1>1. Calls' /\ ChainOK' /\ CursorOK' /\ LengthsOK' /\ CountOK' /\ EntryOK'
  BY DEF Calls, ChainOK, CursorOK, X!RightCluster, LengthsOK, CountOK, EntryOK, Live, Settled,
     Writing, InTransferStep
<1>2. X!ContiguousHolds' /\ X!NoClusterShared'
  BY DEF X!ContiguousHolds, X!NoClusterShared
<1> QED BY <1>1, <1>2 DEF XIInv

LEMMA GivenUpIInv ==
  ASSUME X!TypeOK', open', pc' = "close", left' = 0, toFill' = 0, Distinct', ContentsOK',
         others' \subseteq allocated', X!SearchReaches'
  PROVE  XIInv'
<1>1. Calls' /\ ChainOK' /\ CursorOK' /\ LengthsOK' /\ CountOK' /\ EntryOK'
  BY DEF Calls, ChainOK, CursorOK, X!RightCluster, LengthsOK, CountOK, EntryOK, Live, Settled,
     Writing, InTransferStep
<1>2. X!ContiguousHolds' /\ X!NoClusterShared'
  BY DEF X!ContiguousHolds, X!NoClusterShared
<1> QED BY <1>1, <1>2 DEF XIInv

LEMMA HungIInv ==
  ASSUME XIInv, Live, pc' = "hung",
         UNCHANGED <<ioFails, open, m_flags, X!cursor, X!lengths, m_firstCluster, entry, X!bitmap,
                     fat, left, toFill, chain, others, X!data>>
  PROVE  XIInv'
<1> USE DEF X!cursor, X!lengths, X!bitmap, X!data
<1>1. X!TypeOK' /\ Calls' /\ ChainOK' /\ CursorOK' /\ LengthsOK' /\ CountOK'
  BY DEF XIInv, X!TypeOK, Calls, ChainOK, Distinct, CursorOK, X!RightCluster, LengthsOK, CountOK,
     Live, Settled, Writing, InTransferStep
<1>2. EntryOK' /\ ContentsOK'
  BY DEF XIInv, EntryOK, Settled, Live, ContentsOK, X!WrittenInPlace, X!NothingStale, EntryStored,
     InChain, X!ByteAt
<1>3. X!ContiguousHolds' /\ X!NoClusterShared' /\ X!SearchReaches'
  BY DEF XIInv, X!ContiguousHolds, X!Contiguous, X!Linked, X!NoClusterShared, X!Owned, X!SearchReaches, Live
<1> QED BY <1>1, <1>2, <1>3 DEF XIInv

(* What a call that changes neither clusters nor contents keeps. *)
LEMMA VolumeKept ==
  ASSUME XIInv, UNCHANGED <<ioFails, X!bitmap, others, chain>>, Live' => Live
  PROVE  X!NoClusterShared' /\ X!SearchReaches'
BY DEF XIInv, X!NoClusterShared, X!Owned, X!SearchReaches, X!bitmap, Live

LEMMA ContentsKept ==
  ASSUME XIInv, UNCHANGED <<X!data, chain, open, m_validLength>>, open,
         entry'.valid \in {entry.valid, m_validLength}
  PROVE  ContentsOK'
BY DEF XIInv, ContentsOK, X!WrittenInPlace, X!NothingStale, EntryStored, InChain, X!ByteAt, X!data

LEMMA NothingLeft ==
  ASSUME X!FileAssumption, XIInv, chain' = <<>>, X!CutTo(0)
  PROVE  /\ chain' \in Seq(X!Cluster) /\ Distinct' /\ byte' = byte
         /\ place' = {} /\ own' = {} /\ written' \in BOOLEAN /\ ContentsOK'
<1>1. byte \in Nat /\ ~(byte < 0)
  BY TypeFacts
<1>2. byte' = byte /\ place' = {}
  BY <1>1 DEF X!CutTo
<1>3. written' \in BOOLEAN /\ ~written'
  BY <1>1, Zenon DEF X!CutTo
<1>4. DOMAIN chain' = {} /\ Len(chain') * X!BytesPerCluster = 0 /\ chain' \in Seq(X!Cluster)
  BY Cluster0
<1>5. own' = {}
  BY <1>4 DEF X!CutTo
<1>6. ~InChain(byte)'
  BY <1>1, <1>2, <1>4 DEF InChain
<1>7. Distinct' /\ ContentsOK'
  BY <1>3, <1>4, <1>6, Zenon DEF Distinct, ContentsOK, X!WrittenInPlace, X!NothingStale,
     EntryStored, InChain
<1> QED BY <1>2, <1>3, <1>4, <1>5, <1>7

(* The file is cut to the clusters up to the n-th, and to size bytes. *)
LEMMA ByteKept ==
  ASSUME X!FileAssumption, XIInv, NEW n \in 0 .. Len(chain), chain' = SubSeq(chain, 1, n),
         byte' = byte, InChain(byte)'
  PROVE  InChain(byte) /\ X!ByteAt' = X!ByteAt /\ \E i \in DOMAIN chain' : chain'[i] = X!ByteAt[1]
<1> DEFINE q == byte \div X!BytesPerCluster
<1>1. n \in Nat /\ Len(chain') = n /\ DOMAIN chain' = 1 .. n
      /\ \A i \in 1 .. n : chain'[i] = chain[i]
  BY TypeFacts
<1>2. q \in Nat /\ q < n
  <2>1. q \in Nat
    BY TypeFacts, Cluster0, L!DivMod
  <2>2. byte < n * X!BytesPerCluster
    BY <1>1 DEF InChain
  <2> QED BY <1>1, <2>1, <2>2, TypeFacts, Cluster0, L!Mono
<1>3. InChain(byte)
  <2>1. q < Len(chain)
    BY <1>2, TypeFacts
  <2> QED BY <2>1, TypeFacts, Cluster0, L!Mono DEF InChain
<1>4. q' = q
  OBVIOUS
<1> HIDE DEF q
<1>5. chain'[q + 1] = chain[q + 1] /\ q + 1 \in DOMAIN chain'
  BY <1>1, <1>2
<1>6. X!ByteAt[1] = chain[q + 1]
  BY DEF X!ByteAt, q
<1>7. X!ByteAt' = X!ByteAt
  BY <1>4, <1>5 DEF X!ByteAt, q
<1> QED BY <1>3, <1>5, <1>6, <1>7

CutFits(size, n) == size <= n * X!BytesPerCluster \/ n = Len(chain)

LEMMA CutContents ==
  ASSUME X!FileAssumption, XIInv, NEW n \in 0 .. Len(chain), chain' = SubSeq(chain, 1, n),
         NEW size \in Nat, X!CutTo(size), CutFits(size, n)
  PROVE  /\ chain' \in Seq(X!Cluster) /\ Distinct' /\ byte' = byte
         /\ place' \subseteq place /\ own' \subseteq own /\ written' \in BOOLEAN
         /\ written' => /\ written /\ byte < size
                        /\ byte' < Len(chain') * X!BytesPerCluster /\ X!ByteAt' \in place'
         /\ InChain(byte)' /\ ((byte < m_validLength /\ open) \/ byte < entry.valid) => X!ByteAt' \in own'
<1>1. Len(chain') = n /\ DOMAIN chain' = 1 .. n /\ chain' \in Seq(X!Cluster)
      /\ \A i \in 1 .. n : chain'[i] = chain[i] /\ i \in DOMAIN chain
  BY TypeFacts
<1>2. Distinct'
  BY SMTT(30), <1>1, TypeFacts DEF Distinct
<1>3. byte' = byte /\ place' = (IF byte < size THEN place ELSE {})
      /\ own' = {p \in own : \E i \in DOMAIN chain' : chain'[i] = p[1]}
      /\ byte \in Nat
  BY TypeFacts DEF X!CutTo
<1>4. written' \in BOOLEAN /\ (written' => written /\ byte < size)
  BY Zenon DEF X!CutTo
<1>5. ASSUME written' PROVE byte' < Len(chain') * X!BytesPerCluster /\ X!ByteAt' \in place'
  <2>1. written /\ byte < size
    BY <1>4, <1>5
  <2>2. n * X!BytesPerCluster \in Nat
    <3>1. n \in Nat
      BY TypeFacts
    <3> QED BY <3>1, Cluster0
  <2>3. byte' < Len(chain') * X!BytesPerCluster
    <3>1. CASE size <= n * X!BytesPerCluster
      BY <1>1, <1>3, <2>1, <2>2, <3>1
    <3>2. CASE n = Len(chain)
      BY <1>1, <1>3, <2>1, <3>2 DEF XIInv, ContentsOK, X!WrittenInPlace
    <3> QED BY <3>1, <3>2 DEF CutFits
  <2>4. X!ByteAt' = X!ByteAt
    BY <1>3, <2>3, ByteKept DEF InChain
  <2>5. X!ByteAt \in place
    BY <2>1 DEF XIInv, ContentsOK, X!WrittenInPlace
  <2> QED BY <1>3, <2>1, <2>3, <2>4, <2>5
<1>6. ASSUME InChain(byte)', (byte < m_validLength /\ open) \/ byte < entry.valid
      PROVE  X!ByteAt' \in own'
  <2>1. InChain(byte) /\ X!ByteAt' = X!ByteAt /\ \E i \in DOMAIN chain' : chain'[i] = X!ByteAt[1]
    BY <1>3, <1>6, ByteKept
  <2>2. X!ByteAt \in own
    BY <1>6, <2>1 DEF XIInv, ContentsOK, X!NothingStale, EntryStored, InChain
  <2> QED BY <1>3, <2>1, <2>2
<1> QED BY <1>1, <1>2, <1>3, <1>4, <1>5, <1>6

-----------------------------------------------------------------------------
(* Calls on the file as a whole. *)

LEMMA OpenFileStep ==
  ASSUME X!FileAssumption, XIInv, NEW append \in SUBSET {"APPEND"}, NEW step \in {"idle", "truncate"},
         X!openFile(append, step)
  PROVE  XIInv'
<1>1. /\ ~open /\ open' /\ open' = TRUE /\ pc' = step
      /\ m_flags' = append \cup (IF entry.contiguous THEN {"CONTIGUOUS"} ELSE {})
      /\ m_curPosition' = 0 /\ m_curCluster' = 0 /\ m_firstCluster' = entry.first
      /\ m_dataLength' = entry.data /\ m_validLength' = entry.valid
      /\ ioFails' = ioFails /\ entry' = entry /\ allocated' = allocated
      /\ m_bitmapStart' = m_bitmapStart /\ fat' = fat /\ left' = left /\ toFill' = toFill
      /\ chain' = chain /\ others' = others
      /\ byte' = byte /\ place' = place /\ own' = own /\ written' = written
  BY DEF X!openFile, X!bitmap, X!data
<1>2. /\ entry.first = FirstOf(chain) /\ entry.valid <= entry.data
      /\ X!Owned \cap others = {} /\ allocated = X!Owned \cup others
      /\ IF entry.contiguous THEN X!Consecutive /\ X!ClusterCount(entry.data) = Len(chain)
         ELSE X!ClusterCount(entry.data) <= Len(chain) /\ X!Linked
  BY DEF X!openFile, X!Intact, FirstOf
<1>3. left = 0 /\ toFill = 0
  BY <1>1 DEF XIInv, Calls
<1>4. m_flags' \subseteq X!Flags /\ "DIR_DIRTY" \notin m_flags'
      /\ ("CONTIGUOUS" \in m_flags' <=> entry.contiguous)
  BY <1>1 DEF X!Flags
<1>5. X!TypeOK'
  <2>1. 0 \in X!Position
    BY TypeFacts
  <2> QED BY <1>1, <1>4, <2>1 DEF XIInv, X!TypeOK
<1>6. Calls' /\ ChainOK'
  BY <1>1, <1>2, <1>3, <1>4 DEF Calls, InTransferStep, ChainOK, Distinct, XIInv
<1>7. CursorOK'
  BY <1>1 DEF CursorOK, AtPos, X!RightCluster
<1>8. LengthsOK'
  <2>1. entry.data <= Len(chain) * X!BytesPerCluster
    <3>1. X!ClusterCount(entry.data) <= Len(chain) /\ entry.data \in Nat /\ Len(chain) \in Nat
      <4>1. entry.data \in Nat /\ Len(chain) \in Nat
        BY TypeFacts
      <4> QED BY <1>2, <4>1
    <3> QED BY <3>1, CountBound
  <2> QED BY <1>1, <1>2, <1>3, <2>1, TypeFacts DEF LengthsOK, Settled, Writing
<1>9. CountOK'
  BY <1>1, <1>2, <1>4 DEF CountOK, X!Contiguous, Writing
<1>10. EntryOK'
  <2>1. entry = X!Entry(entry.first, entry.data, entry.valid, entry.contiguous)
    BY DEF XIInv, X!TypeOK, X!Entry
  <2>2. entry.contiguous = X!Contiguous'
    <3>1. entry.contiguous \in BOOLEAN
      BY DEF XIInv, X!TypeOK
    <3>2. X!Contiguous' <=> entry.contiguous
      BY <1>4 DEF X!Contiguous
    <3> QED BY <3>1, <3>2 DEF X!Contiguous
  <2>3. Agrees'
    BY <1>1, <2>1, <2>2 DEF Agrees
  <2> QED BY <1>1, <2>3, TypeFacts DEF EntryOK
<1>11. ContentsOK'
  BY <1>1 DEF XIInv, ContentsOK, X!WrittenInPlace, X!NothingStale, EntryStored, InChain, X!ByteAt
<1>12. X!ContiguousHolds'
  <2>1. ASSUME X!Consecutive, NEW i \in DOMAIN chain PROVE chain[i] = entry.first + i - 1
    <3>1. chain # <<>> /\ entry.first = chain[1]
      BY <1>2, <2>1, TypeFacts DEF FirstOf
    <3> QED BY <2>1, <3>1 DEF X!Consecutive
  <2> QED BY <1>1, <1>2, <1>4, <2>1 DEF X!ContiguousHolds, X!Contiguous, X!Linked
<1>13. X!NoClusterShared' /\ X!SearchReaches'
  BY <1>1, <1>2 DEF XIInv, X!NoClusterShared, X!Owned, X!SearchReaches
<1> QED BY <1>5, <1>6, <1>7, <1>8, <1>9, <1>10, <1>11, <1>12, <1>13 DEF XIInv

LEMMA RepairStep == ASSUME X!FileAssumption, XIInv, X!repair PROVE XIInv'
<1>1. /\ ~open /\ others # X!Cluster /\ entry' = X!NoEntry
      /\ allocated' = others /\ m_bitmapStart' = X!MountStart(others)
      /\ fat' = <<>> /\ chain' = <<>> /\ X!CutTo(0)
      /\ UNCHANGED <<ioFails, open, m_flags, X!cursor, X!lengths, m_firstCluster, pc, left,
                     toFill, others>>
  BY DEF X!repair
<1>2. /\ chain' \in Seq(X!Cluster) /\ Distinct' /\ byte' = byte
      /\ place' = {} /\ own' = {} /\ written' \in BOOLEAN /\ ContentsOK'
  BY <1>1, NothingLeft
<1>3. pc = "idle" /\ m_flags = {} /\ left = 0 /\ toFill = 0 /\ others \subseteq X!Cluster
  BY <1>1 DEF XIInv, Calls, X!TypeOK
<1>4. m_bitmapStart' \in 0 .. X!m_clusterCount - 1 /\ NoneFreeBelow(m_bitmapStart', others)
  <2> DEFINE m == X!Min(X!Cluster \ others)
  <2>1. m \in X!Cluster \ others /\ \A c \in X!Cluster \ others : m <= c
    <3>1. X!Cluster \ others # {} /\ X!Cluster \ others \subseteq Nat
      BY <1>1, <1>3, Cluster0
    <3> QED BY <3>1, MinIs
  <2> HIDE DEF m
  <2>2. m_bitmapStart' = m - 2
    BY <1>1 DEF X!MountStart, m
  <2>3. m - 2 \in 0 .. X!m_clusterCount - 1
    BY <2>1, Cluster0 DEF X!Cluster, X!m_clusterCount
  <2>4. NoneFreeBelow(m - 2, others)
    <3> SUFFICES ASSUME NEW c \in X!Cluster, c - 2 < m - 2, c \notin others PROVE FALSE
      BY DEF NoneFreeBelow
    <3> QED BY <2>1, Cluster0
  <2> QED BY <2>2, <2>3, <2>4
<1>5. X!TypeOK'
  <2>1. 0 \in X!Position
    BY TypeFacts
  <2>2. X!NoEntry \in [first : X!Cluster \cup {0}, data : X!Position, valid : X!Position,
                       contiguous : BOOLEAN]
    BY <2>1 DEF X!NoEntry, X!Entry
  <2> QED BY <1>1, <1>2, <1>3, <1>4, <2>2 DEF XIInv, X!TypeOK, X!cursor, X!lengths
<1>6. others' \subseteq allocated' /\ X!SearchReaches'
  BY <1>1, <1>4 DEF X!SearchReaches, NoneFreeBelow
<1> QED BY <1>1, <1>2, <1>3, <1>5, <1>6, ClosedIInv

LEMMA ResetStep == ASSUME X!FileAssumption, XIInv, X!reset PROVE XIInv'
<1>1. /\ entry' = X!NoEntry /\ allocated' = {} /\ m_bitmapStart' = 0 /\ fat' = <<>>
      /\ chain' = <<>> /\ X!CutTo(0)
      /\ open' = FALSE /\ m_flags' = {} /\ pc' = "idle"
      /\ m_curPosition' = 0 /\ m_curCluster' = 0 /\ m_firstCluster' = 0
      /\ m_dataLength' = 0 /\ m_validLength' = 0
      /\ left' = 0 /\ toFill' = 0 /\ others' = {} /\ ioFails' = ioFails
  BY DEF X!reset
<1>2. /\ chain' \in Seq(X!Cluster) /\ Distinct' /\ byte' = byte
      /\ place' = {} /\ own' = {} /\ written' \in BOOLEAN /\ ContentsOK'
  BY <1>1, NothingLeft
<1>3. X!TypeOK'
  <2>1. 0 \in X!Position /\ 0 \in 0 .. XMaxTransfer /\ 0 \in 0 .. X!m_clusterCount - 1
    BY SMTT(30), TypeFacts DEF X!FileAssumption, X!m_clusterCount
  <2>2. X!NoEntry \in [first : X!Cluster \cup {0}, data : X!Position, valid : X!Position,
                       contiguous : BOOLEAN]
    BY <2>1 DEF X!NoEntry, X!Entry
  <2>3. DOMAIN fat' = {} /\ m_flags' \subseteq X!Flags
    BY <1>1
  <2>4. byte' \in X!Position /\ ioFails' \in BOOLEAN
    BY <1>1, <1>2 DEF XIInv, X!TypeOK
  <2> HIDE DEF X!NoEntry
  <2> QED BY <1>1, <1>2, <2>1, <2>2, <2>3, <2>4 DEF X!TypeOK
<1>4. others' \subseteq allocated' /\ X!SearchReaches'
  BY <1>1 DEF X!SearchReaches, X!Cluster
<1> QED BY <1>1, <1>2, <1>3, <1>4, ClosedIInv

LEMMA SyncStep == ASSUME X!FileAssumption, ~Retries, XIInv, X!sync PROVE XIInv'
<1>1. PICK o \in X!SyncOutcomes(m_flags, m_firstCluster, m_dataLength, m_validLength) :
        m_flags' = o.flags /\ entry' = o.entry /\ pc' = X!After(o.ok)
  BY DEF X!sync
<1>2. /\ open /\ pc = "idle"
      /\ UNCHANGED <<ioFails, open, X!cursor, X!lengths, m_firstCluster, X!bitmap, fat, left,
                     toFill, chain, others, X!data>>
  BY DEF X!sync, X!Usable
<1> DEFINE e == X!Entry(m_firstCluster, m_dataLength, m_validLength, "CONTIGUOUS" \in m_flags)
<1>3. /\ m_flags' = m_flags \ {"DIR_DIRTY"} /\ entry' \in {entry, e}
      /\ "DIR_DIRTY" \notin m_flags => entry' = entry
      /\ o.ok /\ "DIR_DIRTY" \in m_flags => entry' = e
  BY <1>1, SyncOutcome
<1>4. pc' = IF o.ok THEN "idle" ELSE "close"
  BY <1>1 DEF X!After, X!AfterFailure
<1>5. /\ e.valid = m_validLength
      /\ e \in [first : X!Cluster \cup {0}, data : X!Position, valid : X!Position,
                contiguous : BOOLEAN]
  <2>1. ("CONTIGUOUS" \in m_flags) \in BOOLEAN
    OBVIOUS
  <2> QED BY <2>1 DEF XIInv, X!TypeOK, X!Entry
<1> USE DEF X!cursor, X!lengths, X!bitmap, X!data
<1>6. X!TypeOK'
  BY <1>2, <1>3, <1>4, <1>5 DEF XIInv, X!TypeOK
<1>7. ContentsOK'
  BY <1>2, <1>3, <1>5, ContentsKept
<1>8. X!NoClusterShared' /\ X!SearchReaches'
  BY <1>2, VolumeKept DEF Live
<1>9. left' = 0 /\ toFill' = 0 /\ Distinct'
  BY <1>2 DEF XIInv, Calls, ChainOK, Distinct
<1>10. CASE ~o.ok
  BY <1>2, <1>4, <1>6, <1>7, <1>8, <1>9, <1>10, GivenUpIInv DEF X!NoClusterShared
<1>11. CASE o.ok
  <2> USE DEF Settled
  <2>1. Calls' /\ ChainOK' /\ CursorOK' /\ LengthsOK'
    BY <1>2, <1>4, <1>9, <1>11 DEF XIInv, Calls, ChainOK, CursorOK, AtPos, X!RightCluster,
       LengthsOK, InTransferStep, Live, Writing
  <2>2. CountOK' /\ X!ContiguousHolds'
    BY <1>2, <1>3, <1>4, <1>11 DEF XIInv, CountOK, X!Contiguous, X!ContiguousHolds, X!Linked, Writing
  <2>3. Agrees'
    <3>1. CASE "DIR_DIRTY" \notin m_flags
      BY <1>2, <1>3, <3>1 DEF XIInv, EntryOK, Agrees, X!Contiguous
    <3>2. CASE "DIR_DIRTY" \in m_flags
      <4>1. entry' = e
        BY <1>3, <1>11, <3>2
      <4>2. e.contiguous = ("CONTIGUOUS" \in m_flags)
        BY DEF X!Entry
      <4>3. X!Contiguous' <=> X!Contiguous
        BY <1>3 DEF X!Contiguous
      <4>4. entry'.contiguous = X!Contiguous'
        BY <4>1, <4>2, <4>3 DEF X!Contiguous
      <4>5. entry' = X!Entry(m_firstCluster, m_dataLength, m_validLength, entry'.contiguous)
        BY <4>1, <4>2 DEF X!Entry
      <4> QED BY <1>2, <4>4, <4>5 DEF Agrees
    <3> QED BY <3>1, <3>2
  <2>4. EntryOK'
    BY <1>2, <1>3, <1>4, <1>5, <1>11, <2>3, TypeFacts DEF XIInv, EntryOK, Live
  <2> QED BY <1>6, <1>7, <1>8, <2>1, <2>2, <2>4 DEF XIInv
<1> QED BY <1>10, <1>11

LEMMA Prefixes ==
  ASSUME NEW s \in Seq(X!Cluster)
  PROVE  SubSeq(s, 1, 0) = <<>> /\ SubSeq(s, 1, Len(s)) = s
OBVIOUS

LEMMA CloseStep == ASSUME X!FileAssumption, XIInv, X!close PROVE XIInv'
<1>1. PICK o \in X!SyncOutcomes(m_flags, m_firstCluster, m_dataLength, m_validLength) :
        /\ entry' = o.entry
        /\ chain' = IF o.entry.first = 0 THEN <<>>
                    ELSE IF o.entry.contiguous /\ X!ClusterCount(o.entry.data) <= Len(chain)
                    THEN SubSeq(chain, 1, X!ClusterCount(o.entry.data))
                    ELSE chain
        /\ fat' = IF o.entry.contiguous THEN <<>> ELSE fat
        /\ X!CutTo(IF chain' = <<>> THEN 0 ELSE X!Smaller(o.entry.valid, o.entry.data))
  BY DEF X!close
<1>2. /\ open /\ pc \in {"idle", "close"}
      /\ open' = FALSE /\ m_flags' = {}
      /\ m_curPosition' = 0 /\ m_curCluster' = 0 /\ m_firstCluster' = 0
      /\ m_dataLength' = 0 /\ m_validLength' = 0 /\ pc' = "idle"
      /\ UNCHANGED <<ioFails, left, toFill, others, X!bitmap>>
  BY DEF X!close, X!Closed
<1>3. left' = 0 /\ toFill' = 0
  BY <1>2 DEF XIInv, Calls
<1> DEFINE e == X!Entry(m_firstCluster, m_dataLength, m_validLength, "CONTIGUOUS" \in m_flags)
           E == [first : X!Cluster \cup {0}, data : X!Position, valid : X!Position,
                 contiguous : BOOLEAN]
<1>4. entry' \in {entry, e}
  BY <1>1, SyncOutcome
<1>5. e.valid = m_validLength /\ e \in E
  <2>1. ("CONTIGUOUS" \in m_flags) \in BOOLEAN
    OBVIOUS
  <2> QED BY <2>1 DEF XIInv, X!TypeOK, X!Entry
<1> HIDE DEF e
<1>6. entry' \in E /\ entry'.valid \in {entry.valid, m_validLength}
  BY <1>4, <1>5 DEF XIInv, X!TypeOK
<1>7. entry'.data \in Nat /\ entry'.valid \in Nat
  BY <1>6 DEF X!Position
<1> DEFINE size == IF chain' = <<>> THEN 0 ELSE X!Smaller(entry'.valid, entry'.data)
<1>8. PICK n \in 0 .. Len(chain) :
        /\ chain' = SubSeq(chain, 1, n)
        /\ CutFits(size, n)
  <2>1. CASE entry'.first = 0
    <3>1. chain' = <<>> /\ 0 <= 0 * X!BytesPerCluster /\ size = 0
      BY <1>1, <2>1, Cluster0
    <3>2. 0 \in 0 .. Len(chain) /\ chain' = SubSeq(chain, 1, 0)
      BY <3>1, TypeFacts, Prefixes
    <3> QED BY <3>1, <3>2 DEF CutFits
  <2>2. CASE entry'.first # 0 /\ entry'.contiguous /\ X!ClusterCount(entry'.data) <= Len(chain)
    <3> DEFINE m == X!ClusterCount(entry'.data)
    <3>1. m \in Nat /\ entry'.data <= m * X!BytesPerCluster
      <4>1. m \in Nat
        BY <1>7, CountBound
      <4> QED BY <1>7, <4>1, CountBound
    <3>2. chain' = SubSeq(chain, 1, m) /\ m <= Len(chain)
      BY <1>1, <2>2
    <3> HIDE DEF m
    <3>3. m \in 0 .. Len(chain)
      BY <3>1, <3>2, TypeFacts
    <3>4. size <= m * X!BytesPerCluster
      <4>1. m * X!BytesPerCluster \in Nat
        BY <3>1, Cluster0
      <4>2. size <= entry'.data
        BY <1>7 DEF X!Smaller
      <4>3. size \in Nat
        BY <1>7 DEF X!Smaller
      <4> HIDE DEF size
      <4> QED BY <1>7, <3>1, <4>1, <4>2, <4>3
    <3> QED BY <3>2, <3>3, <3>4 DEF CutFits
  <2>3. CASE ~(entry'.first = 0)
             /\ ~(entry'.contiguous /\ X!ClusterCount(entry'.data) <= Len(chain))
    <3>1. chain' = chain
      BY <1>1, <2>3
    <3>2. Len(chain) \in 0 .. Len(chain) /\ chain' = SubSeq(chain, 1, Len(chain))
      BY <3>1, TypeFacts, Prefixes
    <3> QED BY <3>2 DEF CutFits
  <2> QED BY <2>1, <2>2, <2>3
<1>9. size \in Nat /\ X!CutTo(size) /\ size <= entry'.valid
  BY <1>1, <1>7 DEF X!Smaller
<1>10. /\ chain' \in Seq(X!Cluster) /\ Distinct' /\ byte' = byte
       /\ place' \subseteq place /\ own' \subseteq own /\ written' \in BOOLEAN
       /\ written' => /\ written /\ byte < size
                      /\ byte' < Len(chain') * X!BytesPerCluster /\ X!ByteAt' \in place'
       /\ InChain(byte)' /\ ((byte < m_validLength /\ open) \/ byte < entry.valid) =>
            X!ByteAt' \in own'
  <2> HIDE DEF size
  <2> QED BY <1>8, <1>9, CutContents
<1>11. ContentsOK'
  <2>1. ASSUME written' PROVE byte' < entry'.valid
    <3> HIDE DEF size
    <3> QED BY <1>7, <1>9, <1>10, <2>1, TypeFacts
  <2>2. X!WrittenInPlace' /\ X!NothingStale'
    BY <1>2, <1>10, <2>1 DEF X!WrittenInPlace, X!NothingStale
  <2>3. EntryStored'
    BY <1>2, <1>6, <1>10 DEF EntryStored
  <2> QED BY <2>2, <2>3 DEF ContentsOK
<1>12. X!TypeOK'
  <2>1. DOMAIN fat' \subseteq X!Cluster /\ \A c \in DOMAIN fat' : fat'[c] \in X!Cluster \cup {EOC}
    BY <1>1 DEF XIInv, X!TypeOK
  <2>2. 0 \in X!Position /\ m_flags' \subseteq X!Flags
    BY <1>2, TypeFacts
  <2>3. place' \subseteq X!Cluster \X X!Offset /\ own' \subseteq X!Cluster \X X!Offset
        /\ byte' \in X!Position
    BY <1>10 DEF XIInv, X!TypeOK
  <2>4. /\ ioFails' \in BOOLEAN /\ others' \subseteq X!Cluster /\ allocated' \subseteq X!Cluster
        /\ m_bitmapStart' \in 0 .. X!m_clusterCount - 1 /\ left' \in 0 .. XMaxTransfer
        /\ toFill' \in X!Position
    BY <1>2 DEF XIInv, X!TypeOK, X!bitmap
  <2> QED BY <1>2, <1>6, <1>10, <2>1, <2>2, <2>3, <2>4 DEF X!TypeOK
<1>13. others' \subseteq allocated' /\ X!SearchReaches'
  BY <1>2 DEF XIInv, X!NoClusterShared, X!SearchReaches, X!bitmap
<1> QED BY <1>2, <1>3, <1>10, <1>11, <1>12, <1>13, ClosedIInv

(* A call that only moves the cursor, and one that fails without a trace. *)
FileKept ==
  UNCHANGED <<ioFails, open, m_flags, X!lengths, m_firstCluster, entry, X!bitmap, fat, chain,
              others, X!data>>

LEMMA SumBound ==
  ASSUME NEW a \in Nat, NEW b \in Nat, NEW c \in Nat, NEW d \in Nat, a + b + c <= d
  PROVE  a <= d /\ c <= d
OBVIOUS

LEMMA CursorMoved ==
  ASSUME X!FileAssumption, XIInv, Settled, FileKept, pc' \in {"idle", "read", "read_io"},
         m_curPosition' \in Nat, m_curCluster' \in X!Cluster \cup {0},
         left' \in 0 .. XMaxTransfer, toFill' \in Nat,
         m_curPosition' + left' + toFill' <= m_dataLength,
         pc' = "idle" => left' = 0 /\ toFill' = 0,
         pc' = "read_io" => left' > 0 /\ X!RightCluster',
         pc' # "read_io" => AtPos(m_curPosition', m_curCluster')
  PROVE  XIInv'
<1> USE DEF FileKept, X!lengths, X!bitmap, X!data
<1>1. X!TypeOK'
  <2>1. m_curPosition' \in X!Position /\ toFill' \in X!Position
    <3>1. m_dataLength \in Nat /\ m_dataLength <= Len(chain) * X!BytesPerCluster
          /\ Len(chain) * X!BytesPerCluster \in Nat /\ left' \in Nat
      BY TypeFacts DEF XIInv, LengthsOK
    <3> DEFINE N == Len(chain) * X!BytesPerCluster
               C == X!m_clusterCount * X!BytesPerCluster
    <3>2. N \in Nat /\ C \in Nat /\ N <= C /\ m_dataLength <= N
      BY <3>1, TypeFacts
    <3> HIDE DEF N, C
    <3>3. m_curPosition' <= m_dataLength /\ toFill' <= m_dataLength
      <4>1. /\ m_curPosition' \in Nat /\ left' \in Nat /\ toFill' \in Nat /\ m_dataLength \in Nat
            /\ m_curPosition' + left' + toFill' <= m_dataLength
        BY <3>1
      <4> QED BY ONLY <4>1, SumBound
    <3>5. m_dataLength <= C
      BY <3>1, <3>2
    <3>6. m_curPosition' \in 0 .. C /\ toFill' \in 0 .. C
      BY <3>1, <3>2, <3>3, <3>5
    <3>4. 0 .. C \subseteq X!Position
      BY TypeFacts, Zenon DEF C
    <3> QED BY <3>4, <3>6
  <2> QED BY <2>1 DEF XIInv, X!TypeOK
<1>2. Calls' /\ ChainOK'
  BY DEF XIInv, Calls, ChainOK, Distinct, Live, Settled, InTransferStep
<1>3. CursorOK'
  <2>1. pc' # "read_io" => AtPos(m_curPosition, m_curCluster)'
    BY DEF AtPos
  <2> QED BY <2>1 DEF CursorOK, X!RightCluster
<1>4. LengthsOK' /\ CountOK'
  BY DEF XIInv, LengthsOK, CountOK, X!Contiguous, Settled, Writing
<1>5. EntryOK'
  BY DEF XIInv, EntryOK, Agrees, X!Contiguous, Settled, Live
<1>6. ContentsOK'
  BY ContentsKept DEF Settled
<1>7. X!ContiguousHolds' /\ X!NoClusterShared' /\ X!SearchReaches'
  BY VolumeKept DEF XIInv, X!ContiguousHolds, X!Contiguous, X!Linked, Settled, Live
<1> QED BY <1>1, <1>2, <1>3, <1>4, <1>5, <1>6, <1>7 DEF XIInv

LEMMA CallFailed ==
  ASSUME X!FileAssumption, XIInv, Live, FileKept, pc' = "close", left' = 0, toFill' = 0,
         m_curPosition' \in X!Position, m_curCluster' \in X!Cluster \cup {0}
  PROVE  XIInv'
<1> USE DEF FileKept, X!lengths, X!bitmap, X!data
<1>1. X!TypeOK'
  <2>1. 0 \in X!Position /\ 0 \in 0 .. XMaxTransfer
    BY TypeFacts DEF X!FileAssumption
  <2> QED BY <2>1 DEF XIInv, X!TypeOK
<1>2. ContentsOK'
  BY ContentsKept DEF Live
<1>3. Distinct' /\ others' \subseteq allocated' /\ X!SearchReaches'
  BY DEF XIInv, ChainOK, Distinct, X!NoClusterShared, X!SearchReaches
<1> QED BY <1>1, <1>2, <1>3, GivenUpIInv DEF Live

LEMMA SeekSetStep ==
  ASSUME X!FileAssumption, ~Retries, XIInv, NEW pos \in Nat, pos \in X!Position, X!seekSet(pos)
  PROVE  XIInv'
<1>1. PICK o \in X!seekOutcomes(pos, m_curPosition, m_curCluster) :
        m_curPosition' = o.pos /\ m_curCluster' = o.cluster /\ pc' = X!After(o.ok \/ pos > m_dataLength)
  BY DEF X!seekSet
<1>2. open /\ pc = "idle" /\ FileKept /\ left' = left /\ toFill' = toFill
  BY DEF X!seekSet, X!Usable, FileKept
<1>3. left = 0 /\ toFill = 0 /\ AtPos(m_curPosition, m_curCluster)
      /\ m_curPosition <= m_dataLength /\ m_curPosition \in X!Position
      /\ m_curCluster \in X!Cluster \cup {0} /\ 0 \in 0 .. XMaxTransfer
  <2>1. m_curPosition + left + toFill <= m_dataLength /\ left = 0 /\ toFill = 0
    BY <1>2 DEF XIInv, LengthsOK, Settled, Calls
  <2>2. m_curPosition <= m_dataLength
    BY <2>1, TypeFacts
  <2> QED BY <1>2, <2>1, <2>2 DEF XIInv, X!TypeOK, CursorOK
<1>4. /\ AtPos(o.pos, o.cluster) /\ o.cluster \in X!Cluster \cup {0}
      /\ o.pos \in {pos, m_curPosition} /\ o.pos <= m_dataLength
  <2>1. /\ AtPos(o.pos, o.cluster) /\ o.cluster \in X!Cluster \cup {0}
        /\ o.ok => o.pos = pos /\ (pos <= m_dataLength \/ pos = m_curPosition)
        /\ ~o.ok => o.pos = m_curPosition
    BY <1>2, <1>3, TypeFacts, SeekOutcome DEF Settled
  <2> QED BY <1>3, <2>1
<1>5. CASE pc' = "idle"
  BY <1>1, <1>2, <1>3, <1>4, <1>5, TypeFacts, CursorMoved DEF Settled
<1>6. CASE pc' = "close"
  BY <1>1, <1>2, <1>3, <1>4, <1>6, CallFailed DEF Live
<1> QED BY <1>1, <1>5, <1>6 DEF X!After, X!AfterFailure

LEMMA FsetposStep ==
  ASSUME X!FileAssumption, XIInv, NEW pos \in Nat, X!fsetpos(pos) PROVE XIInv'
<1>1. /\ open /\ pc = "idle" /\ pos <= m_dataLength /\ pos <= Len(chain) * X!BytesPerCluster
      /\ m_curPosition' = pos
      /\ m_curCluster' = IF pos = 0 THEN 0 ELSE chain[X!Index(pos) + 1]
      /\ FileKept /\ pc' = pc /\ left' = left /\ toFill' = toFill
  BY DEF X!fsetpos, X!Usable, FileKept
<1>2. left = 0 /\ toFill = 0 /\ 0 \in 0 .. XMaxTransfer
  BY <1>1 DEF XIInv, Calls, X!TypeOK
<1>3. AtPos(pos, m_curCluster') /\ m_curCluster' \in X!Cluster \cup {0}
  <2>1. CASE pos = 0
    BY <1>1, <2>1 DEF AtPos
  <2>2. CASE pos # 0
    <3>1. X!Index(pos) \in Nat /\ X!Index(pos) < Len(chain)
      BY <1>1, <2>2, TypeFacts, PositionIndex
    <3>2. X!Index(pos) \in 0 .. Len(chain) - 1 /\ X!Index(pos) + 1 \in 1 .. Len(chain)
      BY <3>1, TypeFacts
    <3> QED BY <1>1, <2>2, <3>2, TypeFacts DEF AtPos
  <2> QED BY <2>1, <2>2
<1> QED BY <1>1, <1>2, <1>3, CursorMoved DEF Settled

LEMMA PreAllocateStep ==
  ASSUME X!FileAssumption, ~Retries, XIInv, NEW length \in X!Length, X!preAllocate(length)
  PROVE  XIInv'
<1> DEFINE need == 1 + X!Index(length)
           find == X!bitmapFind(0, need)
           start == IF need = 1 THEN find - 2 ELSE m_bitmapStart
<1>1. /\ open /\ pc = "idle" /\ m_firstCluster = 0
      /\ UNCHANGED <<ioFails, open, X!cursor, m_validLength, fat, left, toFill, others, X!data>>
  BY DEF X!preAllocate, X!Usable
<1>2. /\ chain = <<>> /\ m_dataLength = 0 /\ m_validLength = 0 /\ m_curPosition = 0
      /\ left = 0 /\ toFill = 0 /\ X!Owned = {} /\ ~written
  BY <1>1, NoCluster DEF Settled
<1>3. length \in Nat \ {0} /\ length \in X!Position
  BY TypeFacts DEF X!Length
<1>4. need \in Nat \ {0} /\ need = X!ClusterCount(length) /\ length <= need * X!BytesPerCluster
  <2>1. X!Index(length) \in Nat
    BY <1>3, PositionIndex
  <2>2. need = X!ClusterCount(length) /\ need \in Nat \ {0}
    BY <1>3, <2>1 DEF X!ClusterCount
  <2>3. X!ClusterCount(length) <= X!ClusterCount(length)
    BY <2>2
  <2> HIDE DEF need
  <2> QED BY <1>3, <2>2, <2>3, CountBound
<1>5. \/ find = X!Never /\ pc' = "hung"
         /\ UNCHANGED <<m_flags, m_firstCluster, m_dataLength, entry, X!bitmap, chain>>
      \/ pc' = X!AfterFailure
         /\ UNCHANGED <<m_flags, m_firstCluster, m_dataLength, entry, X!bitmap, chain>>
      \/ /\ find \in X!Cluster
         /\ \E b \in X!bitmapModify(find, need, TRUE, start) :
              /\ allocated' = b.bits /\ m_bitmapStart' = b.start
              /\ \/ /\ ~b.ok /\ pc' = X!AfterFailure
                    /\ UNCHANGED <<m_flags, m_firstCluster, m_dataLength, entry, chain>>
                 \/ /\ b.ok
                    /\ m_dataLength' = length
                    /\ m_firstCluster' = find
                    /\ chain' = [i \in 1 .. need |-> find + i - 1]
                    /\ \E o \in X!SyncOutcomes(m_flags \cup {"DIR_DIRTY", "CONTIGUOUS"}, find,
                                               length, m_validLength) :
                         m_flags' = o.flags /\ entry' = o.entry /\ pc' = X!After(o.ok)
  BY Zenon DEF X!preAllocate
<1> HIDE DEF need, find
<1>6. CASE pc' = "hung" /\ UNCHANGED <<m_flags, m_firstCluster, m_dataLength, entry, X!bitmap, chain>>
  BY <1>1, <1>6, HungIInv DEF Live, X!lengths, X!cursor
<1>7. CASE pc' = X!AfterFailure
           /\ UNCHANGED <<m_flags, m_firstCluster, m_dataLength, entry, X!bitmap, chain>>
  <2>1. FileKept /\ pc' = "close" /\ left' = 0 /\ toFill' = 0
        /\ m_curPosition' \in X!Position /\ m_curCluster' \in X!Cluster \cup {0}
    BY <1>1, <1>2, <1>7 DEF FileKept, X!lengths, X!cursor, X!AfterFailure, XIInv, X!TypeOK
  <2> QED BY <1>1, <2>1, CallFailed DEF Live
<1>8. ASSUME find \in X!Cluster, NEW b \in X!bitmapModify(find, need, TRUE, start),
             allocated' = b.bits, m_bitmapStart' = b.start
      PROVE  /\ GroupOK(find, need) /\ Group(find, need) \cap allocated = {}
             /\ allocated' \subseteq X!Cluster /\ allocated \subseteq allocated'
             /\ b.ok => allocated' = allocated \cup Group(find, need)
             /\ m_bitmapStart' \in 0 .. X!m_clusterCount - 1
             /\ X!SearchReaches'
  <2>1. /\ find + need - 1 <= m_lastCluster
        /\ find .. find + need - 1 \subseteq X!Cluster \ allocated
        /\ need = 1 /\ NoneFreeBelow(m_bitmapStart, allocated) =>
              \A c \in X!Cluster : c < find => c \in allocated
    <3>1. 0 \in Nat \ {1} /\ need \in Nat \ {0} /\ BitmapOK /\ X!bitmapFind(0, need) \in X!Cluster
      BY <1>4, <1>8, TypeFacts DEF find
    <3> QED BY <3>1, BitmapFindIs DEF find
  <2>2. GroupOK(find, need) /\ Group(find, need) \cap allocated = {}
    BY <1>4, <1>8, <2>1 DEF GroupOK, Group
  <2>3. start \in 0 .. X!m_clusterCount - 1
    <3>1. find - 2 \in 0 .. X!m_clusterCount - 1
      BY <1>8, Cluster0 DEF X!Cluster, X!m_clusterCount
    <3> QED BY <3>1 DEF XIInv, X!TypeOK
  <2>4. ~ioFails => NoneFreeBelow(start, allocated)
    <3> SUFFICES ASSUME ~ioFails, NEW c \in X!Cluster, c - 2 < start PROVE c \in allocated
      BY DEF NoneFreeBelow
    <3>1. NoneFreeBelow(m_bitmapStart, allocated)
      BY DEF NoneFreeBelow, XIInv, X!SearchReaches
    <3>2. CASE need = 1
      <4>1. c < find
        BY <1>8, <3>2, Cluster0
      <4> QED BY <2>1, <3>1, <3>2, <4>1
    <3>3. CASE need # 1
      BY <3>1, <3>3 DEF NoneFreeBelow
    <3> QED BY <3>2, <3>3
  <2> HIDE DEF start
  <2>5. /\ b.bits \subseteq X!Cluster /\ allocated \subseteq b.bits
        /\ b.ok => b.bits = allocated \cup Group(find, need)
        /\ b.start \in 0 .. X!m_clusterCount - 1
        /\ ~b.ok => ioFails
        /\ b.ok /\ NoneFreeBelow(start, allocated \cup Group(find, need)) =>
             NoneFreeBelow(b.start, b.bits)
    BY <1>8, <2>2, <2>3, TypeFacts, GroupTaken
  <2>6. X!SearchReaches'
    <3> SUFFICES ASSUME ~ioFails PROVE NoneFreeBelow(b.start, b.bits)
      BY <1>1, <1>8 DEF X!SearchReaches, NoneFreeBelow
    <3>1. NoneFreeBelow(start, allocated \cup Group(find, need))
      BY <2>4 DEF NoneFreeBelow
    <3> QED BY <2>5, <3>1
  <2> QED BY <1>8, <2>2, <2>5, <2>6
<1> HIDE DEF start
<1>9. ASSUME NEW b \in X!bitmapModify(find, need, TRUE, start), find \in X!Cluster,
             allocated' = b.bits, m_bitmapStart' = b.start,
             pc' = X!AfterFailure,
             UNCHANGED <<m_flags, m_firstCluster, m_dataLength, entry, chain>>
      PROVE  XIInv'
  <2>1. allocated' \subseteq X!Cluster /\ allocated \subseteq allocated'
        /\ m_bitmapStart' \in 0 .. X!m_clusterCount - 1 /\ X!SearchReaches'
    BY <1>8, <1>9
  <2>2. X!TypeOK'
    BY <1>1, <1>9, <2>1 DEF XIInv, X!TypeOK, X!cursor, X!data, X!AfterFailure
  <2>3. ContentsOK'
    BY <1>1, <1>9, ContentsKept
  <2>4. others' \subseteq allocated' /\ Distinct'
    BY <1>1, <1>9, <2>1 DEF XIInv, X!NoClusterShared, ChainOK, Distinct
  <2> QED BY <1>1, <1>2, <1>9, <2>1, <2>2, <2>3, <2>4, GivenUpIInv DEF X!AfterFailure
<1>10. ASSUME NEW b \in X!bitmapModify(find, need, TRUE, start), find \in X!Cluster,
              allocated' = b.bits, m_bitmapStart' = b.start, b.ok,
              m_dataLength' = length, m_firstCluster' = find,
              chain' = [i \in 1 .. need |-> find + i - 1],
              NEW o \in X!SyncOutcomes(m_flags \cup {"DIR_DIRTY", "CONTIGUOUS"}, find, length,
                                       m_validLength),
              m_flags' = o.flags, entry' = o.entry, pc' = X!After(o.ok)
       PROVE  XIInv'
  <2> DEFINE flags == m_flags \cup {"DIR_DIRTY", "CONTIGUOUS"}
             e == X!Entry(find, length, 0, TRUE)
             E == [first : X!Cluster \cup {0}, data : X!Position, valid : X!Position,
                   contiguous : BOOLEAN]
  <2>1. /\ GroupOK(find, need) /\ Group(find, need) \cap allocated = {}
        /\ allocated' \subseteq X!Cluster /\ allocated \subseteq allocated'
        /\ allocated' = allocated \cup Group(find, need)
        /\ m_bitmapStart' \in 0 .. X!m_clusterCount - 1 /\ X!SearchReaches'
    BY <1>8, <1>10
  <2>2. /\ m_flags' = flags \ {"DIR_DIRTY"} /\ entry' \in {entry, e}
        /\ o.ok => entry' = e
    <3>1. ("CONTIGUOUS" \in flags) = TRUE /\ "DIR_DIRTY" \in flags
      OBVIOUS
    <3>2. /\ o.flags = flags \ {"DIR_DIRTY"}
          /\ o.entry \in {entry, X!Entry(find, length, m_validLength, "CONTIGUOUS" \in flags)}
          /\ o.ok => o.entry = X!Entry(find, length, m_validLength, "CONTIGUOUS" \in flags)
      <4> HIDE DEF flags
      <4>1. o \in X!SyncOutcomes(flags, find, length, m_validLength)
        BY <1>10 DEF flags
      <4> QED BY <3>1, <4>1, SyncOutcome
    <3> HIDE DEF flags
    <3> QED BY <1>2, <1>10, <3>1, <3>2
  <2>3. e \in E /\ e.valid = 0 /\ m_flags' \subseteq X!Flags /\ X!Contiguous'
        /\ "DIR_DIRTY" \notin m_flags'
    <3>1. 0 \in X!Position
      BY TypeFacts
    <3> QED BY <1>3, <1>10, <2>2, <3>1 DEF X!Entry, XIInv, X!TypeOK, X!Flags, X!Contiguous
  <2> HIDE DEF e
  <2>4. /\ chain' \in Seq(X!Cluster) /\ Len(chain') = need /\ DOMAIN chain' = 1 .. need
        /\ \A i \in 1 .. need : chain'[i] = find + i - 1
    <3>1. \A i \in 1 .. need : find + i - 1 \in X!Cluster
      BY <1>4, <2>1, Cluster0 DEF GroupOK, X!Cluster
    <3> QED BY <1>4, <1>10, <3>1
  <2>5. Distinct' /\ X!Owned' = Group(find, need) /\ find \in Nat
    <3>1. find \in Nat
      BY <1>10, Cluster0
    <3>2. Distinct'
      BY <2>4, <3>1 DEF Distinct
    <3>3. X!Owned' \subseteq Group(find, need)
      BY <1>4, <2>4, <3>1 DEF X!Owned, Group
    <3>4. ASSUME NEW c \in Group(find, need) PROVE c \in X!Owned'
      <4>1. c - find + 1 \in 1 .. need /\ find + (c - find + 1) - 1 = c
        BY <1>4, <3>1 DEF Group
      <4> QED BY <2>4, <4>1 DEF X!Owned
    <3> QED BY <3>1, <3>2, <3>3, <3>4
  <2>6. X!TypeOK'
    <3>1. pc' \in {"idle", "close"}
      BY <1>10 DEF X!After, X!AfterFailure
    <3>2. entry' \in E
      BY <2>2, <2>3 DEF XIInv, X!TypeOK
    <3> QED BY <1>1, <1>3, <1>10, <2>1, <2>3, <2>4, <3>1, <3>2 DEF XIInv, X!TypeOK, X!cursor, X!data
  <2>7. entry.valid = 0 /\ entry'.valid = 0
    <3>1. entry.valid <= m_validLength
      BY <1>1 DEF XIInv, EntryOK, Live
    <3> QED BY <1>2, <2>2, <2>3, <3>1, TypeFacts
  <2>8. m_validLength' = 0 /\ m_curPosition' = 0 /\ left' = 0 /\ toFill' = 0
        /\ byte' \in Nat /\ ~(byte' < 0) /\ open' /\ ~written'
    BY <1>1, <1>2, TypeFacts DEF X!cursor, X!data
  <2>9. ContentsOK'
    BY <2>7, <2>8 DEF ContentsOK, X!WrittenInPlace, X!NothingStale, EntryStored
  <2>10. others' \subseteq allocated /\ others' \subseteq allocated'
    BY <1>1, <2>1 DEF XIInv, X!NoClusterShared
  <2>11. CASE ~o.ok
    <3>1. pc' = "close"
      BY <1>10, <2>11 DEF X!After, X!AfterFailure
    <3> QED BY <2>1, <2>5, <2>6, <2>8, <2>9, <2>10, <3>1, GivenUpIInv
  <2>12. CASE o.ok
    <3>1. pc' = "idle" /\ entry' = e
      BY <1>10, <2>2, <2>12 DEF X!After
    <3>2. Calls' /\ ChainOK'
      <4>1. chain' # <<>> /\ chain'[1] = find
        BY <1>4, <2>4, <2>5
      <4> QED BY <1>10, <2>5, <2>8, <3>1, <4>1 DEF Calls, ChainOK, FirstOf, InTransferStep
    <3>3. CursorOK'
      <4>1. m_curCluster' = 0
        BY <1>1, <1>2 DEF XIInv, CursorOK, AtPos, X!cursor
      <4> QED BY <2>8, <3>1, <4>1 DEF CursorOK, AtPos, X!RightCluster
    <3>4. LengthsOK'
      BY <1>3, <1>4, <1>10, <2>4, <2>8, <3>1 DEF LengthsOK, Settled, Writing
    <3>5. CountOK'
      BY <1>4, <1>10, <2>4, <3>1 DEF CountOK, Settled, Writing
    <3>6. EntryOK'
      <4>1. e.contiguous = TRUE /\ e = X!Entry(find, length, 0, e.contiguous)
        BY DEF e, X!Entry
      <4>2. entry'.contiguous = X!Contiguous'
        BY <2>3, <3>1, <4>1
      <4>3. Agrees'
        BY <1>10, <2>8, <3>1, <4>1, <4>2 DEF Agrees
      <4> QED BY <2>7, <2>8, <3>1, <4>3 DEF EntryOK
    <3>7. X!ContiguousHolds'
      BY <1>10, <2>3, <2>4 DEF X!ContiguousHolds
    <3>8. X!NoClusterShared'
      BY <2>1, <2>5, <2>10 DEF X!NoClusterShared
    <3> QED BY <2>1, <2>6, <2>9, <3>2, <3>3, <3>4, <3>5, <3>6, <3>7, <3>8 DEF XIInv
  <2> QED BY <2>11, <2>12
<1> QED BY <1>5, <1>6, <1>7, <1>9, <1>10

-----------------------------------------------------------------------------
(* The clusters of the file as groups of the bitmap. *)

LEMMA OwnedFacts ==
  ASSUME X!FileAssumption, XIInv
  PROVE  /\ X!ChainFrom(1) = X!Owned /\ X!Owned \subseteq X!Cluster
         /\ \A k \in Nat \ {0} : X!ChainFrom(k) \subseteq X!Owned
         /\ Live => m_firstCluster = FirstOf(chain) /\ (m_firstCluster # 0 <=> Len(chain) # 0)
<1>1. DOMAIN chain = 1 .. Len(chain) /\ Len(chain) \in Nat
      /\ \A i \in 1 .. Len(chain) : chain[i] \in X!Cluster
  BY TypeFacts
<1>2. X!ChainFrom(1) = X!Owned /\ X!Owned \subseteq X!Cluster
  BY <1>1 DEF X!ChainFrom, X!Owned
<1>3. \A k \in Nat \ {0} : X!ChainFrom(k) \subseteq X!Owned
  BY <1>1 DEF X!ChainFrom, X!Owned
<1>4. ASSUME Live
      PROVE  m_firstCluster = FirstOf(chain) /\ (m_firstCluster # 0 <=> Len(chain) # 0)
  <2>1. m_firstCluster = FirstOf(chain)
    BY <1>4 DEF XIInv, ChainOK
  <2>2. CASE chain = <<>>
    BY <2>1, <2>2 DEF FirstOf
  <2>3. CASE chain # <<>>
    <3>1. Len(chain) # 0 /\ 1 \in 1 .. Len(chain)
      BY <1>1, <2>3, TypeFacts
    <3>2. m_firstCluster \in X!Cluster
      BY <1>1, <2>1, <2>3, <3>1 DEF FirstOf
    <3> QED BY <2>1, <3>1, <3>2, Cluster0
  <2> QED BY <2>2, <2>3
<1> QED BY <1>2, <1>3, <1>4

LEMMA ContiguousGroup ==
  ASSUME X!FileAssumption, XIInv, Live, X!Contiguous, m_firstCluster # 0,
         NEW k \in 1 .. Len(chain)
  PROVE  /\ GroupOK(m_firstCluster + k - 1, Len(chain) - k + 1)
         /\ Group(m_firstCluster + k - 1, Len(chain) - k + 1) = X!ChainFrom(k)
         /\ m_firstCluster \in Nat
<1> DEFINE n == Len(chain)
           f == m_firstCluster
<1>1. n \in Nat /\ k \in 1 .. n /\ \A i \in 1 .. n : chain[i] = f + i - 1 /\ chain[i] \in X!Cluster
  BY TypeFacts DEF XIInv, X!ContiguousHolds, Live
<1>2. f \in Nat
  BY Cluster0 DEF XIInv, X!TypeOK
<1>3. X!ChainFrom(k) = {chain[i] : i \in k .. n}
  BY DEF X!ChainFrom
<1> HIDE DEF n, f
<1>4. GroupOK(f + k - 1, n - k + 1)
  <2>1. k \in 1 .. n /\ n \in 1 .. n
    BY <1>1
  <2>2. f + k - 1 \in X!Cluster /\ f + n - 1 \in X!Cluster
    BY <1>1, <2>1
  <2>3. (f + k - 1) + (n - k + 1) - 1 = f + n - 1 /\ n - k + 1 \in Nat \ {0}
    BY <1>1, <1>2
  <2>4. f + n - 1 <= m_lastCluster
    BY <2>2 DEF X!Cluster
  <2> QED BY <2>2, <2>3, <2>4 DEF GroupOK
<1>5. ASSUME NEW c \in Group(f + k - 1, n - k + 1) PROVE c \in X!ChainFrom(k)
  <2>1. c - f + 1 \in k .. n /\ c - f + 1 \in 1 .. n /\ f + (c - f + 1) - 1 = c
    BY <1>1, <1>2, <1>5 DEF Group
  <2>2. chain[c - f + 1] = c
    BY <1>1, <2>1
  <2> QED BY <1>3, <2>1, <2>2
<1>6. ASSUME NEW c \in X!ChainFrom(k) PROVE c \in Group(f + k - 1, n - k + 1)
  <2>1. PICK i \in k .. n : c = chain[i]
    BY <1>3, <1>6
  <2>2. c = f + i - 1
    BY <1>1, <2>1
  <2> QED BY <1>1, <1>2, <2>1, <2>2 DEF Group
<1> QED BY <1>2, <1>4, <1>5, <1>6 DEF n, f

(* What is cut off is not among the rest. *)
LEMMA CutOwned ==
  ASSUME X!FileAssumption, XIInv, NEW n \in 0 .. Len(chain), chain' = SubSeq(chain, 1, n)
  PROVE  X!Owned' \subseteq X!Owned /\ X!Owned' \cap X!ChainFrom(n + 1) = {}
<1>1. DOMAIN chain = 1 .. Len(chain) /\ Len(chain) \in Nat /\ n \in Nat
      /\ DOMAIN chain' = 1 .. n /\ \A i \in 1 .. n : chain'[i] = chain[i]
      /\ 1 .. n \subseteq 1 .. Len(chain)
  BY TypeFacts
<1>2. X!Owned' \subseteq X!Owned
  BY <1>1 DEF X!Owned
<1>3. ASSUME NEW c \in X!Owned', c \in X!ChainFrom(n + 1) PROVE FALSE
  <2>1. PICK i \in 1 .. n : c = chain[i]
    BY <1>1 DEF X!Owned
  <2>2. PICK j \in n + 1 .. Len(chain) : c = chain[j]
    BY <1>3 DEF X!ChainFrom
  <2>3. i \in DOMAIN chain /\ j \in DOMAIN chain /\ i # j
    BY <1>1, <2>1, <2>2
  <2> QED BY <2>1, <2>2, <2>3, TypeFacts DEF Distinct
<1> QED BY <1>2, <1>3

FatOK == DOMAIN fat \subseteq X!Cluster /\ \A c \in DOMAIN fat : fat[c] \in X!Cluster \cup {EOC}

LEMMA WithoutOK ==
  ASSUME XIInv, NEW cs
  PROVE  /\ DOMAIN X!Without(cs) \subseteq X!Cluster
         /\ \A c \in DOMAIN X!Without(cs) : X!Without(cs)[c] \in X!Cluster \cup {EOC}
BY DEF XIInv, X!TypeOK, X!Without

-----------------------------------------------------------------------------
(* Removal. *)

(* Whether the clusters were freed, all or a part, or there were none. *)
BitmapFreed ==
  /\ allocated' \subseteq X!Cluster /\ m_bitmapStart' \in 0 .. X!m_clusterCount - 1
  /\ others' \subseteq allocated' /\ X!SearchReaches'

LEMMA RemoveDone ==
  ASSUME X!FileAssumption, ~Retries, XIInv, X!Usable, X!RemoveEnds \/ X!RemoveFails, BitmapFreed, FatOK',
         UNCHANGED <<ioFails, left, toFill, others>>
  PROVE  XIInv'
<1>1. open /\ pc = "idle" /\ left' = 0 /\ toFill' = 0 /\ 0 \in X!Position
  BY TypeFacts DEF X!Usable, XIInv, Calls
<1>2. CASE X!RemoveFails
  <2>1. pc' = "close" /\ UNCHANGED <<open, m_flags, X!cursor, X!lengths, m_firstCluster, entry, chain, X!data>>
    BY <1>2 DEF X!RemoveFails, X!AfterFailure
  <2>2. X!TypeOK'
    BY <2>1 DEF XIInv, X!TypeOK, BitmapFreed, FatOK, X!cursor, X!lengths, X!data
  <2>3. ContentsOK' /\ Distinct'
    BY <1>1, <2>1, ContentsKept DEF X!lengths, XIInv, ChainOK, Distinct
  <2> QED BY <1>1, <2>1, <2>2, <2>3, GivenUpIInv DEF BitmapFreed
<1>3. CASE ~X!RemoveFails
  <2>1. /\ entry' = X!NoEntry /\ chain' = <<>> /\ X!CutTo(0)
        /\ open' = FALSE /\ m_flags' = {} /\ pc' = "idle"
        /\ m_curPosition' = 0 /\ m_curCluster' = 0 /\ m_firstCluster' = 0
        /\ m_dataLength' = 0 /\ m_validLength' = 0
    BY <1>3 DEF X!RemoveEnds
  <2>2. /\ chain' \in Seq(X!Cluster) /\ Distinct' /\ byte' = byte
        /\ place' = {} /\ own' = {} /\ written' \in BOOLEAN /\ ContentsOK'
    BY <2>1, NothingLeft
  <2>3. X!NoEntry \in [first : X!Cluster \cup {0}, data : X!Position, valid : X!Position,
                       contiguous : BOOLEAN]
    BY <1>1 DEF X!NoEntry, X!Entry
  <2>4. X!TypeOK'
    <3>1. /\ ioFails' \in BOOLEAN /\ left' \in 0 .. XMaxTransfer /\ toFill' \in X!Position
          /\ others' \subseteq X!Cluster /\ byte' \in X!Position /\ m_flags' \subseteq X!Flags
      BY <2>1, <2>2 DEF XIInv, X!TypeOK
    <3> HIDE DEF X!NoEntry
    <3> QED BY <1>1, <2>1, <2>2, <2>3, <3>1 DEF X!TypeOK, BitmapFreed, FatOK
  <2> QED BY <1>1, <2>1, <2>2, <2>4, ClosedIInv DEF BitmapFreed
<1> QED BY <1>2, <1>3

LEMMA RemoveStep == ASSUME X!FileAssumption, ~Retries, XIInv, X!remove PROVE XIInv'
<1>1. X!Usable /\ UNCHANGED <<ioFails, left, toFill, others>>
  BY DEF X!remove
<1>2. Live /\ Settled /\ open /\ pc = "idle"
  BY <1>1 DEF X!Usable, Live, Settled
<1>3. /\ others \subseteq allocated /\ X!Owned \subseteq allocated /\ X!Owned \cap others = {}
      /\ allocated \subseteq X!Cluster
  BY <1>2 DEF XIInv, X!NoClusterShared, X!TypeOK, Live
<1>4. FatOK /\ (~ioFails => NoneFreeBelow(m_bitmapStart, allocated))
  BY DEF XIInv, X!TypeOK, FatOK, X!SearchReaches, NoneFreeBelow
<1>5. CASE m_firstCluster = 0 /\ X!RemoveEnds /\ UNCHANGED <<X!bitmap, fat>>
  <2>1. BitmapFreed /\ FatOK'
    BY <1>1, <1>3, <1>5 DEF BitmapFreed, FatOK, X!bitmap, XIInv, X!TypeOK, X!SearchReaches
  <2> QED BY <1>1, <1>5, <2>1, RemoveDone
<1>6. CASE m_firstCluster # 0 /\ X!Contiguous
  <2>1. PICK b \in X!bitmapModify(m_firstCluster, X!ClusterCount(m_dataLength), FALSE, m_bitmapStart) :
          /\ allocated' = b.bits /\ m_bitmapStart' = b.start
          /\ IF b.ok THEN X!RemoveEnds ELSE X!RemoveFails
          /\ fat' = fat
    BY <1>6, Zenon DEF X!remove
  <2>2. X!ClusterCount(m_dataLength) = Len(chain)
    BY <1>2, <1>6 DEF XIInv, CountOK
  <2>3. 1 \in 1 .. Len(chain)
    BY <1>2, <1>6, OwnedFacts, TypeFacts
  <2>4. /\ GroupOK(m_firstCluster, Len(chain)) /\ Group(m_firstCluster, Len(chain)) = X!Owned
    <3>1. /\ GroupOK(m_firstCluster + 1 - 1, Len(chain) - 1 + 1)
          /\ Group(m_firstCluster + 1 - 1, Len(chain) - 1 + 1) = X!ChainFrom(1)
          /\ m_firstCluster \in Nat
      BY <1>2, <1>6, <2>3, ContiguousGroup
    <3>2. m_firstCluster + 1 - 1 = m_firstCluster /\ Len(chain) - 1 + 1 = Len(chain)
      BY <3>1, TypeFacts
    <3> QED BY <3>1, <3>2, OwnedFacts
  <2>5. /\ b.bits \subseteq allocated /\ allocated \ X!Owned \subseteq b.bits
        /\ b.start \in 0 .. X!m_clusterCount - 1
        /\ ~b.ok => ioFails
        /\ b.ok /\ NoneFreeBelow(m_bitmapStart, allocated) => NoneFreeBelow(b.start, b.bits)
    <3>1. Group(m_firstCluster, Len(chain)) \subseteq allocated
      BY <1>3, <2>4
    <3>2. b \in X!bitmapModify(m_firstCluster, Len(chain), FALSE, m_bitmapStart)
      BY <2>1, <2>2
    <3> QED BY <2>4, <3>1, <3>2, TypeFacts, GroupFreed
  <2>6. BitmapFreed
    <3>1. X!SearchReaches'
      BY <1>1, <1>4, <2>1, <2>5 DEF X!SearchReaches, NoneFreeBelow
    <3> QED BY <1>1, <1>3, <2>1, <2>5, <3>1 DEF BitmapFreed
  <2>7. FatOK'
    BY <1>4, <2>1 DEF FatOK
  <2> QED BY <1>1, <2>1, <2>6, <2>7, RemoveDone
<1>7. CASE m_firstCluster # 0 /\ ~X!Contiguous
  <2>1. PICK f \in X!freeChain(1) :
          /\ allocated' = f.bits /\ m_bitmapStart' = f.start /\ fat' = f.fat
          /\ IF f.ok THEN X!RemoveEnds ELSE X!RemoveFails
    BY <1>7, Zenon DEF X!remove
  <2>2. 1 \in DOMAIN chain
    BY <1>2, <1>7, OwnedFacts, TypeFacts
  <2>3. /\ f.bits \subseteq allocated /\ allocated \ X!Owned \subseteq f.bits
        /\ f.start \in 0 .. X!m_clusterCount - 1
        /\ ~f.ok => ioFails
        /\ f.ok /\ NoneFreeBelow(m_bitmapStart, allocated) => NoneFreeBelow(f.start, f.bits)
        /\ \E cs : f.fat = X!Without(cs)
    BY <2>2, TypeFacts, ChainFreed, OwnedFacts
  <2>4. BitmapFreed
    <3>1. X!SearchReaches'
      BY <1>1, <1>4, <2>1, <2>3 DEF X!SearchReaches, NoneFreeBelow
    <3> QED BY <1>1, <1>3, <2>1, <2>3, <3>1 DEF BitmapFreed
  <2>5. FatOK'
    BY <2>1, <2>3, WithoutOK DEF FatOK
  <2> QED BY <1>1, <2>1, <2>4, <2>5, RemoveDone
<1> QED BY <1>5, <1>6, <1>7 DEF X!remove

-----------------------------------------------------------------------------
(* Truncation. *)

Cutting == open /\ pc \in {"idle", "truncate"} /\ m_firstCluster # 0

LEMMA CutFacts ==
  ASSUME X!FileAssumption, XIInv, Cutting
  PROVE  /\ X!CutAt \in 0 .. Len(chain) /\ X!CutAt \in Nat /\ X!CutAt = X!ClusterCount(m_curPosition)
         /\ m_curCluster = IF X!CutAt = 0 THEN 0 ELSE chain[X!CutAt]
         /\ m_curCluster = 0 <=> X!CutAt = 0
         /\ m_curPosition <= X!CutAt * X!BytesPerCluster
         /\ X!CutAt = 0 <=> m_curPosition = 0
         /\ left = 0 /\ toFill = 0 /\ Live /\ Settled
<1>1. Live /\ Settled /\ AtPos(m_curPosition, m_curCluster)
  BY DEF Cutting, Live, Settled, XIInv, CursorOK
<1>2. left = 0 /\ toFill = 0
  BY DEF Cutting, XIInv, Calls
<1>3. CASE m_curPosition = 0
  <2>1. m_curCluster = 0 /\ X!CutAt = 0 /\ X!ClusterCount(m_curPosition) = 0
    BY <1>1, <1>3 DEF AtPos, X!CutAt, X!ClusterCount
  <2>2. X!CutAt * X!BytesPerCluster = 0
    BY <2>1, Cluster0
  <2> QED BY <1>1, <1>2, <1>3, <2>1, <2>2, TypeFacts
<1>4. CASE m_curPosition # 0
  <2> DEFINE n == X!Index(m_curPosition) + 1
  <2>1. X!Index(m_curPosition) \in 0 .. Len(chain) - 1 /\ m_curCluster = chain[n]
        /\ X!ClusterCount(m_curPosition) = n
    BY <1>1, <1>4, TypeFacts DEF AtPos, X!ClusterCount
  <2>2. n \in 1 .. Len(chain) /\ n \in DOMAIN chain /\ m_curCluster \in X!Cluster
        /\ m_curCluster # 0 /\ m_curCluster \in X!Owned /\ n \in Nat
    <3>1. n \in 1 .. Len(chain)
      BY SMTT(30), <2>1, TypeFacts
    <3>2. m_curCluster \in X!Cluster /\ n \in DOMAIN chain
      BY <2>1, <3>1, TypeFacts
    <3> QED BY <2>1, <3>1, <3>2, Cluster0 DEF X!Owned
  <2>3. X!CutAt = n
    <3> HIDE DEF n
    <3>1. X!CutAt = CHOOSE i \in DOMAIN chain : chain[i] = m_curCluster
      BY <2>2 DEF X!CutAt
    <3>2. \E i \in DOMAIN chain : chain[i] = m_curCluster
      BY <2>1, <2>2
    <3>3. X!CutAt \in DOMAIN chain /\ chain[X!CutAt] = m_curCluster
      BY <3>1, <3>2
    <3> QED BY <2>1, <2>2, <3>3, TypeFacts DEF Distinct
  <2>4. m_curPosition <= n * X!BytesPerCluster
    <3>1. X!ClusterCount(m_curPosition) <= n
      BY <2>1, <2>2
    <3> HIDE DEF n
    <3> QED BY <2>2, <3>1, TypeFacts, CountBound
  <2> HIDE DEF n
  <2> QED BY <1>1, <1>2, <1>4, <2>1, <2>2, <2>3, <2>4
<1> QED BY <1>3, <1>4

LEMMA TruncateDone ==
  ASSUME X!FileAssumption, ~Retries, XIInv, Cutting, BitmapFreed, FatOK', X!TruncateEnds(X!Kept),
         m_firstCluster' = X!Kept, X!Owned' \subseteq allocated',
         ~X!Contiguous /\ X!CutAt # 0 => X!Linked',
         UNCHANGED <<ioFails, X!cursor, left, toFill, others>>
  PROVE  XIInv'
<1> DEFINE n == X!CutAt
           valid == X!Smaller(m_curPosition, m_validLength)
           flags == m_flags \cup {"DIR_DIRTY"}
           e == X!Entry(X!Kept, m_curPosition, valid, "CONTIGUOUS" \in flags)
           E == [first : X!Cluster \cup {0}, data : X!Position, valid : X!Position,
                 contiguous : BOOLEAN]
<1>1. /\ n \in 0 .. Len(chain) /\ n \in Nat /\ n = X!ClusterCount(m_curPosition)
      /\ m_curCluster = IF n = 0 THEN 0 ELSE chain[n]
      /\ X!Kept = IF n = 0 THEN 0 ELSE m_firstCluster
      /\ m_curPosition <= n * X!BytesPerCluster
      /\ n = 0 <=> m_curPosition = 0
      /\ left = 0 /\ toFill = 0 /\ Live /\ Settled /\ open /\ pc \in {"idle", "truncate"}
  BY CutFacts DEF X!Kept, Cutting
<1>2. PICK o \in X!SyncOutcomes(flags, X!Kept, m_curPosition, valid) :
        /\ entry' = o.entry
        /\ \/ /\ o.ok \/ pc # "truncate"
              /\ m_flags' = o.flags /\ pc' = X!After(o.ok) /\ UNCHANGED open
           \/ ~o.ok /\ pc = "truncate" /\ X!NotOpen
  BY DEF X!TruncateEnds
<1>3. /\ m_validLength' = valid /\ m_dataLength' = m_curPosition
      /\ chain' = SubSeq(chain, 1, n) /\ X!CutTo(m_curPosition)
  BY DEF X!TruncateEnds
<1>4. ioFails' = ioFails /\ m_curPosition' = m_curPosition /\ m_curCluster' = m_curCluster
      /\ left' = 0 /\ toFill' = 0 /\ others' = others
  BY <1>1 DEF X!cursor
<1> HIDE DEF n
<1>5. /\ o.flags = flags \ {"DIR_DIRTY"} /\ entry' \in {entry, e}
      /\ o.ok => entry' = e
  <2>1. "DIR_DIRTY" \in flags
    OBVIOUS
  <2> HIDE DEF flags, valid
  <2> QED BY <1>2, <2>1, SyncOutcome
<1>6. /\ chain' \in Seq(X!Cluster) /\ Distinct' /\ byte' = byte
      /\ place' \subseteq place /\ own' \subseteq own /\ written' \in BOOLEAN
      /\ written' => /\ written /\ byte < m_curPosition
                     /\ byte' < Len(chain') * X!BytesPerCluster /\ X!ByteAt' \in place'
      /\ InChain(byte)' /\ ((byte < m_validLength /\ open) \/ byte < entry.valid) =>
           X!ByteAt' \in own'
  <2>1. CutFits(m_curPosition, n) /\ m_curPosition \in Nat
    BY <1>1, TypeFacts DEF CutFits
  <2> QED BY <1>1, <1>3, <2>1, CutContents
<1>7. /\ valid \in Nat /\ valid <= m_validLength /\ valid <= m_curPosition
      /\ byte \in Nat /\ m_curPosition \in Nat /\ m_validLength \in Nat
      /\ valid \in X!Position /\ m_curPosition \in X!Position
  <2>1. m_curPosition \in X!Position /\ m_validLength \in X!Position
    BY DEF XIInv, X!TypeOK
  <2> QED BY <2>1, TypeFacts DEF X!Smaller
<1>8. written' => byte < valid
  <2>1. written => byte < m_validLength
    BY <1>1 DEF XIInv, ContentsOK, X!WrittenInPlace
  <2> QED BY <1>6, <1>7, <2>1 DEF X!Smaller
<1> HIDE DEF valid
<1>9. e.valid = valid /\ e \in E /\ (e.contiguous <=> X!Contiguous)
      /\ e = X!Entry(X!Kept, m_curPosition, valid, e.contiguous)
      /\ X!Kept \in X!Cluster \cup {0}
  <2>1. ("CONTIGUOUS" \in flags) \in BOOLEAN /\ ("CONTIGUOUS" \in flags <=> X!Contiguous)
    BY DEF X!Contiguous
  <2>2. X!Kept \in X!Cluster \cup {0}
    BY DEF X!Kept, XIInv, X!TypeOK
  <2> HIDE DEF flags
  <2> QED BY <1>7, <2>1, <2>2 DEF X!Entry
<1>10. o.flags \subseteq X!Flags /\ "DIR_DIRTY" \notin o.flags
       /\ ("CONTIGUOUS" \in o.flags <=> X!Contiguous)
  BY <1>5 DEF XIInv, X!TypeOK, X!Contiguous, X!Flags
<1> HIDE DEF e, flags
<1>11. X!TypeOK'
  <2>1. entry' \in E
    BY <1>5, <1>9 DEF XIInv, X!TypeOK
  <2>2. m_flags' \subseteq X!Flags /\ pc' \in {"idle", "close"} /\ open' \in BOOLEAN
    BY <1>1, <1>2, <1>10 DEF X!After, X!AfterFailure, X!NotOpen
  <2>3. ioFails' \in BOOLEAN /\ others' \subseteq X!Cluster /\ left' \in 0 .. XMaxTransfer
        /\ toFill' \in X!Position /\ byte' \in X!Position /\ m_curCluster' \in X!Cluster \cup {0}
        /\ place' \subseteq X!Cluster \X X!Offset /\ own' \subseteq X!Cluster \X X!Offset
    <3>1. /\ ioFails \in BOOLEAN /\ others \subseteq X!Cluster /\ left \in 0 .. XMaxTransfer
          /\ toFill \in X!Position /\ byte \in X!Position /\ m_curCluster \in X!Cluster \cup {0}
          /\ place \subseteq X!Cluster \X X!Offset /\ own \subseteq X!Cluster \X X!Offset
      BY DEF XIInv, X!TypeOK
    <3> QED BY <1>1, <1>4, <1>6, <3>1
  <2> QED BY <1>3, <1>4, <1>6, <1>7, <1>9, <2>1, <2>2, <2>3 DEF X!TypeOK, BitmapFreed, FatOK
<1>12. entry'.valid \in {entry.valid, valid}
  BY <1>5, <1>9
<1>13. EntryStored'
  <2>1. ASSUME byte' < entry'.valid, InChain(byte)' PROVE X!ByteAt' \in own'
    <3>1. byte < entry.valid \/ byte < m_validLength
      BY <1>6, <1>7, <1>12, <2>1
    <3> QED BY <1>1, <1>6, <2>1, <3>1
  <2> QED BY <2>1 DEF EntryStored
<1>14. ASSUME open' PROVE ContentsOK'
  <2>1. X!WrittenInPlace'
    BY <1>3, <1>6, <1>8, <1>14 DEF X!WrittenInPlace
  <2>2. ASSUME byte' < m_validLength', InChain(byte)' PROVE X!ByteAt' \in own'
    <3>1. byte < m_validLength
      BY <1>3, <1>6, <1>7, <2>2
    <3> QED BY <1>1, <1>6, <2>2, <3>1
  <2>3. X!NothingStale'
    BY <2>2 DEF X!NothingStale, InChain
  <2> QED BY <1>13, <2>1, <2>3 DEF ContentsOK
<1>15. CASE ~o.ok /\ pc = "truncate" /\ X!NotOpen
  <2>1. ~open' /\ pc' = "idle" /\ m_flags' = {}
    BY <1>15 DEF X!NotOpen
  <2>2. m_curPosition = 0
    BY <1>15 DEF XIInv, Calls
  <2>3. ~written'
    BY <1>6, <1>7, <2>2
  <2>4. ContentsOK'
    BY <1>13, <2>1, <2>3 DEF ContentsOK, X!WrittenInPlace, X!NothingStale
  <2> QED BY <1>4, <1>6, <1>11, <2>1, <2>4, ClosedIInv DEF BitmapFreed
<1>16. CASE ~o.ok /\ m_flags' = o.flags /\ pc' = X!After(o.ok) /\ open' = open
  <2>1. open' /\ pc' = "close"
    BY <1>1, <1>16 DEF X!After, X!AfterFailure
  <2> QED BY <1>4, <1>6, <1>11, <1>14, <2>1, GivenUpIInv DEF BitmapFreed
<1>17. CASE o.ok /\ m_flags' = o.flags /\ pc' = X!After(o.ok) /\ open' = open
  <2>1. open' /\ open' = TRUE /\ pc' = "idle" /\ entry' = e
    BY <1>1, <1>5, <1>17 DEF X!After, XIInv, X!TypeOK
  <2>2. Len(chain') = n /\ DOMAIN chain' = 1 .. n /\ \A i \in 1 .. n : chain'[i] = chain[i]
    BY <1>1, <1>3, TypeFacts
  <2>3. Calls' /\ ChainOK'
    <3>1. m_firstCluster = FirstOf(chain)
      BY <1>1 DEF XIInv, ChainOK
    <3>2. m_firstCluster' = FirstOf(chain')
      <4>1. CASE n = 0
        <5>1. chain' = <<>>
          BY <1>6, <2>2, <4>1
        <5> QED BY <1>1, <4>1, <5>1 DEF FirstOf
      <4>2. CASE n # 0
        <5>1. chain' # <<>> /\ chain # <<>> /\ chain'[1] = chain[1]
          BY <1>1, <2>2, <4>2, TypeFacts
        <5> QED BY <1>1, <3>1, <4>2, <5>1 DEF FirstOf
      <4> QED BY <4>1, <4>2
    <3> QED BY <1>4, <1>6, <2>1, <3>2 DEF Calls, ChainOK, InTransferStep
  <2>4. CursorOK'
    <3>1. ASSUME m_curPosition # 0
          PROVE  X!Index(m_curPosition) \in 0 .. n - 1 /\ m_curCluster = chain'[X!Index(m_curPosition) + 1]
      <4>1. n = X!Index(m_curPosition) + 1 /\ n # 0 /\ X!Index(m_curPosition) \in Nat
        BY <1>1, <1>7, <3>1, PositionIndex DEF X!ClusterCount
      <4> QED BY <1>1, <2>2, <4>1
    <3>2. m_curPosition = 0 => m_curCluster = 0
      BY <1>1
    <3>3. AtPos(m_curPosition, m_curCluster)'
      BY <1>4, <2>2, <3>1, <3>2 DEF AtPos, X!Index
    <3> QED BY <2>1, <3>3 DEF CursorOK, X!RightCluster
  <2>5. LengthsOK'
    <3>1. m_curPosition' + left' + toFill' <= m_dataLength'
      BY <1>3, <1>4, <1>7
    <3>2. m_validLength' <= m_dataLength'
      BY <1>3, <1>7
    <3>3. m_dataLength' <= Len(chain') * X!BytesPerCluster
      BY <1>1, <1>3, <2>2
    <3> QED BY <2>1, <3>1, <3>2, <3>3 DEF LengthsOK, Settled, Writing
  <2>6. CountOK'
    <3>1. X!ClusterCount(m_dataLength)' = X!ClusterCount(m_curPosition)
      BY <1>3 DEF X!ClusterCount, X!Index
    <3> QED BY <1>1, <2>1, <2>2, <3>1 DEF CountOK, Settled, Writing
  <2>7. EntryOK'
    <3>1. e.contiguous = X!Contiguous'
      BY <1>9, <1>10, <1>17 DEF X!Contiguous
    <3>2. Agrees'
      BY <1>3, <1>9, <2>1, <3>1 DEF Agrees
    <3>3. entry'.valid <= m_validLength'
      BY <1>3, <1>7, <1>9, <2>1
    <3> QED BY <2>1, <3>2, <3>3 DEF EntryOK
  <2>8. X!ContiguousHolds'
    <3>1. CASE X!Contiguous /\ n # 0
      <4>1. \A i \in 1 .. n : chain[i] = m_firstCluster + i - 1
        BY SMTT(30), <1>1, <3>1, TypeFacts DEF XIInv, X!ContiguousHolds, Live, Cutting
      <4>2. m_firstCluster' = m_firstCluster /\ X!Contiguous'
        BY <1>1, <1>10, <1>17, <3>1 DEF X!Contiguous
      <4> QED BY <2>2, <4>1, <4>2 DEF X!ContiguousHolds
    <3>2. CASE ~X!Contiguous /\ n # 0
      <4>1. X!Linked' /\ ~X!Contiguous'
        BY <1>10, <1>17, <3>2 DEF X!Contiguous, n
      <4> QED BY <4>1 DEF X!ContiguousHolds
    <3>3. CASE n = 0
      BY <1>1, <3>3 DEF X!ContiguousHolds
    <3> QED BY <3>1, <3>2, <3>3
  <2>9. X!NoClusterShared'
    <3>1. X!Owned' \cap others' = {}
      <4>1. X!Owned' \subseteq X!Owned
        BY <1>1, <1>3, CutOwned
      <4>2. X!Owned \cap others = {}
        BY <1>1 DEF XIInv, X!NoClusterShared, Live
      <4> QED BY <1>4, <4>1, <4>2
    <3> QED BY <3>1 DEF X!NoClusterShared, BitmapFreed
  <2> QED BY <1>6, <1>11, <1>14, <2>1, <2>3, <2>4, <2>5, <2>6, <2>7, <2>8, <2>9
          DEF XIInv, BitmapFreed
<1> QED BY <1>2, <1>15, <1>16, <1>17

LEMMA TruncateStopped ==
  ASSUME X!FileAssumption, ~Retries, XIInv, Cutting, BitmapFreed, FatOK', X!TruncateStops,
         m_firstCluster' \in X!Cluster \cup {0},
         UNCHANGED <<ioFails, X!cursor, left, toFill, others>>
  PROVE  XIInv'
<1>1. UNCHANGED <<X!lengths, chain, X!data, entry>> /\ X!TruncateFails
  BY DEF X!TruncateStops
<1>2. open /\ pc \in {"idle", "truncate"} /\ left' = 0 /\ toFill' = 0 /\ Settled
  BY DEF Cutting, XIInv, Calls, Settled
<1>3. pc' \in {"idle", "close"} /\ m_flags' \subseteq X!Flags /\ open' \in BOOLEAN
  BY <1>1 DEF X!TruncateFails, X!NotOpen, X!AfterFailure, XIInv, X!TypeOK
<1>4. X!TypeOK'
  BY <1>1, <1>3 DEF XIInv, X!TypeOK, BitmapFreed, FatOK, X!cursor, X!lengths, X!data
<1>5. Distinct'
  BY <1>1 DEF XIInv, ChainOK, Distinct
<1>6. CASE pc = "truncate"
  <2>1. ~open' /\ m_flags' = {} /\ pc' = "idle"
    BY <1>1, <1>6 DEF X!TruncateFails, X!NotOpen
  <2>2. entry.valid = m_validLength
    <3>1. Agrees
      BY <1>2, <1>6 DEF XIInv, EntryOK, Calls
    <3> QED BY <3>1 DEF Agrees, X!Entry
  <2>3. ContentsOK'
    BY <1>1, <1>2, <2>1, <2>2 DEF XIInv, ContentsOK, X!WrittenInPlace, X!NothingStale, EntryStored,
       InChain, X!ByteAt, X!data
  <2> QED BY <1>2, <1>4, <1>5, <2>1, <2>3, ClosedIInv DEF BitmapFreed
<1>7. CASE pc # "truncate"
  <2>1. open' = open /\ pc' = "close"
    BY <1>1, <1>7 DEF X!TruncateFails, X!AfterFailure
  <2>2. ContentsOK'
    BY <1>1, <1>2, <2>1, ContentsKept DEF X!lengths
  <2> QED BY <1>2, <1>4, <1>5, <2>1, <2>2, GivenUpIInv DEF BitmapFreed
<1> QED BY <1>6, <1>7

(* The number of clusters that a contiguous file frees is what is behind   *)
(* the cut, and they are one group of the bitmap.                          *)
LEMMA ToFreeIs ==
  ASSUME X!FileAssumption, XIInv, Cutting, X!Contiguous
  PROVE  /\ X!ToFree = Len(chain) - X!CutAt
         /\ X!ToFree # 0 =>
              /\ X!CutAt + 1 \in 1 .. Len(chain)
              /\ (IF m_curCluster = 0 THEN m_firstCluster ELSE m_curCluster + 1) =
                   m_firstCluster + (X!CutAt + 1) - 1
              /\ X!ToFree = Len(chain) - (X!CutAt + 1) + 1
<1> DEFINE n == X!CutAt
           N == Len(chain)
           f == m_firstCluster
<1>1. /\ n \in 0 .. N /\ n \in Nat /\ N \in Nat /\ f \in Nat
      /\ m_curCluster = IF n = 0 THEN 0 ELSE chain[n]
      /\ m_curCluster = 0 <=> n = 0
  <2>1. f \in Nat
    BY Cluster0 DEF XIInv, X!TypeOK
  <2> QED BY <2>1, CutFacts, TypeFacts
<1>2. X!ClusterCount(m_dataLength) = N
  BY CutFacts DEF XIInv, CountOK, Cutting
<1>3. n # 0 => m_curCluster = f + n - 1
  <2>1. n # 0 => n \in DOMAIN chain
    BY <1>1, TypeFacts
  <2> QED BY <1>1, <2>1, CutFacts DEF XIInv, X!ContiguousHolds, Cutting, Live
<1>4. N < XWord /\ XWord \in Nat
  <2>1. N <= X!m_clusterCount
    BY TypeFacts, ChainLength
  <2> QED BY <1>1, <2>1, Cluster0 DEF X!m_clusterCount
<1>5. X!ToFree = (N - (IF m_curCluster = 0 THEN 0 ELSE 1 + m_curCluster - f)) % XWord
  BY <1>2 DEF X!ToFree
<1> HIDE DEF n, N, f
<1>6. N - (IF m_curCluster = 0 THEN 0 ELSE 1 + m_curCluster - f) = N - n
  BY <1>1, <1>3
<1>7. N - n \in 0 .. XWord - 1
  BY <1>1, <1>4
<1>8. X!ToFree = N - n
  <2> DEFINE d == N - n
  <2>1. X!ToFree = d % XWord /\ d \in 0 .. XWord - 1
    BY <1>5, <1>6, <1>7
  <2> HIDE DEF d
  <2>2. X!ToFree = d
    BY <1>4, <2>1
  <2> QED BY <2>2 DEF d
<1>9. ASSUME X!ToFree # 0
      PROVE  /\ n + 1 \in 1 .. N
             /\ (IF m_curCluster = 0 THEN f ELSE m_curCluster + 1) = f + (n + 1) - 1
             /\ X!ToFree = N - (n + 1) + 1
  BY <1>1, <1>3, <1>8, <1>9
<1> QED BY <1>8, <1>9 DEF n, N, f

LEMMA TruncateContiguousStep ==
  ASSUME X!FileAssumption, ~Retries, XIInv, Cutting, X!TruncateContiguous,
         UNCHANGED <<ioFails, X!cursor, left, toFill, others>>
  PROVE  XIInv'
<1>1. X!Contiguous /\ m_firstCluster' = X!Kept /\ fat' = fat
  BY DEF X!TruncateContiguous
<1>2. Live /\ m_firstCluster # 0 /\ X!CutAt \in 0 .. Len(chain)
  BY CutFacts DEF Cutting
<1>3. /\ others \subseteq allocated /\ X!Owned \subseteq allocated /\ X!Owned \cap others = {}
      /\ allocated \subseteq X!Cluster /\ FatOK'
      /\ ~ioFails => NoneFreeBelow(m_bitmapStart, allocated)
  BY <1>1, <1>2 DEF XIInv, X!NoClusterShared, X!TypeOK, Live, FatOK, X!SearchReaches, NoneFreeBelow
<1>4. X!TruncateEnds(X!Kept) => chain' = SubSeq(chain, 1, X!CutAt)
  BY DEF X!TruncateEnds
<1>5. X!Kept \in X!Cluster \cup {0}
  BY DEF X!Kept, XIInv, X!TypeOK
<1>6. CASE X!ToFree = 0 /\ X!TruncateEnds(X!Kept) /\ UNCHANGED X!bitmap
  <2>1. BitmapFreed
    BY <1>3, <1>6 DEF BitmapFreed, X!bitmap, XIInv, X!TypeOK, X!SearchReaches
  <2>2. X!Owned' \subseteq allocated'
    BY <1>2, <1>3, <1>4, <1>6, CutOwned DEF X!bitmap
  <2> QED BY <1>1, <1>3, <1>6, <2>1, <2>2, TruncateDone
<1>7. CASE X!ToFree # 0
  <2> DEFINE c == IF m_curCluster = 0 THEN m_firstCluster ELSE m_curCluster + 1
             k == X!CutAt + 1
  <2>1. PICK b \in X!bitmapModify(c, X!ToFree, FALSE, m_bitmapStart) :
          /\ allocated' = b.bits /\ m_bitmapStart' = b.start
          /\ IF b.ok THEN X!TruncateEnds(X!Kept) ELSE X!TruncateStops
    BY <1>7, Zenon DEF X!TruncateContiguous
  <2>2. k \in 1 .. Len(chain) /\ c = m_firstCluster + k - 1 /\ X!ToFree = Len(chain) - k + 1
    BY <1>1, <1>7, ToFreeIs
  <2> HIDE DEF c, k
  <2>3. GroupOK(c, X!ToFree) /\ Group(c, X!ToFree) = X!ChainFrom(k) /\ X!ChainFrom(k) \subseteq X!Owned
    <3>1. k \in Nat \ {0}
      BY <2>2
    <3> QED BY <1>1, <1>2, <2>2, <3>1, ContiguousGroup, OwnedFacts
  <2>4. /\ b.bits \subseteq allocated /\ allocated \ X!ChainFrom(k) \subseteq b.bits
        /\ b.start \in 0 .. X!m_clusterCount - 1
        /\ ~b.ok => ioFails
        /\ b.ok /\ NoneFreeBelow(m_bitmapStart, allocated) => NoneFreeBelow(b.start, b.bits)
    <3>1. Group(c, X!ToFree) \subseteq allocated
      BY <1>3, <2>3
    <3> QED BY <2>1, <2>3, <3>1, TypeFacts, GroupFreed
  <2>5. BitmapFreed
    <3>1. X!SearchReaches'
      BY <1>3, <2>1, <2>4 DEF X!SearchReaches, NoneFreeBelow
    <3> QED BY <1>3, <2>1, <2>3, <2>4, <3>1 DEF BitmapFreed
  <2>6. CASE b.ok
    <3>1. X!TruncateEnds(X!Kept)
      BY <2>1, <2>6
    <3>2. X!Owned' \subseteq X!Owned /\ X!Owned' \cap X!ChainFrom(k) = {}
      BY <1>2, <1>4, <3>1, CutOwned DEF k
    <3>3. X!Owned' \subseteq allocated'
      BY <1>3, <2>1, <2>4, <3>2
    <3> QED BY <1>1, <1>3, <2>5, <3>1, <3>3, TruncateDone
  <2>7. CASE ~b.ok
    <3>1. X!TruncateStops
      BY <2>1, <2>7
    <3> QED BY <1>1, <1>3, <1>5, <2>5, <3>1, TruncateStopped
  <2> QED BY <2>6, <2>7
<1> QED BY <1>6, <1>7 DEF X!TruncateContiguous

LEMMA TruncateChainStep ==
  ASSUME X!FileAssumption, ~Retries, XIInv, Cutting, X!TruncateChain,
         UNCHANGED <<ioFails, X!cursor, left, toFill, others>>
  PROVE  XIInv'
<1> DEFINE n == X!CutAt
<1>1. /\ Live /\ m_firstCluster # 0 /\ n \in 0 .. Len(chain) /\ n \in Nat /\ ~X!Contiguous
      /\ m_curCluster = IF n = 0 THEN 0 ELSE chain[n]
      /\ m_curCluster = 0 <=> n = 0
  BY CutFacts DEF Cutting, X!TruncateChain
<1> HIDE DEF n
<1>2. /\ others \subseteq allocated /\ X!Owned \subseteq allocated /\ X!Owned \cap others = {}
      /\ allocated \subseteq X!Cluster /\ FatOK
      /\ ~ioFails => NoneFreeBelow(m_bitmapStart, allocated)
      /\ X!Kept \in X!Cluster \cup {0} /\ m_firstCluster \in X!Cluster \cup {0}
  BY <1>1 DEF XIInv, X!NoClusterShared, X!TypeOK, Live, FatOK, X!SearchReaches, NoneFreeBelow, X!Kept
<1>3. X!Linked
  BY <1>1 DEF XIInv, X!ContiguousHolds, Live
<1>4. X!TruncateEnds(X!Kept) => chain' = SubSeq(chain, 1, n)
  BY DEF X!TruncateEnds, n
<1>5. UNCHANGED X!bitmap => BitmapFreed
  BY <1>2 DEF BitmapFreed, X!bitmap, XIInv, X!TypeOK, X!SearchReaches
<1>6. CASE X!TruncateStops /\ UNCHANGED <<m_firstCluster, X!bitmap, fat>>
  BY <1>2, <1>5, <1>6, TruncateStopped DEF FatOK
<1>7. CASE n = Len(chain) /\ m_curCluster # 0 /\ X!TruncateEnds(m_firstCluster)
           /\ UNCHANGED <<m_firstCluster, X!bitmap, fat>>
  <2>1. X!Kept = m_firstCluster
    BY <1>7 DEF X!Kept
  <2>2. chain' = chain
    BY <1>4, <1>7, <2>1, TypeFacts, Prefixes
  <2>3. X!Linked' /\ X!Owned' \subseteq allocated'
    BY <1>2, <1>3, <1>7, <2>2 DEF X!Linked, X!Owned, X!bitmap
  <2> QED BY <1>2, <1>5, <1>7, <2>1, <2>3, TruncateDone DEF FatOK
<1>8. CASE /\ n < Len(chain) /\ m_firstCluster' = X!Kept
           /\ \E f \in X!freeChain(n + 1) :
                /\ allocated' = f.bits /\ m_bitmapStart' = f.start
                /\ fat' = IF m_curCluster = 0 THEN f.fat ELSE X!Ending(f.fat, m_curCluster)
                /\ IF f.ok THEN X!TruncateEnds(X!Kept) ELSE X!TruncateStops
  <2>1. PICK f \in X!freeChain(n + 1) :
          /\ allocated' = f.bits /\ m_bitmapStart' = f.start
          /\ fat' = IF m_curCluster = 0 THEN f.fat ELSE X!Ending(f.fat, m_curCluster)
          /\ IF f.ok THEN X!TruncateEnds(X!Kept) ELSE X!TruncateStops
    BY <1>8, Zenon
  <2>2. n + 1 \in DOMAIN chain /\ n + 1 \in Nat \ {0}
    BY <1>1, <1>8, TypeFacts
  <2>3. /\ f.bits \subseteq allocated /\ allocated \ X!ChainFrom(n + 1) \subseteq f.bits
        /\ f.start \in 0 .. X!m_clusterCount - 1
        /\ ~f.ok => ioFails
        /\ f.ok /\ NoneFreeBelow(m_bitmapStart, allocated) => NoneFreeBelow(f.start, f.bits)
        /\ \E cs : f.fat = X!Without(cs) /\ (f.ok => cs = X!ChainFrom(n + 1))
        /\ X!ChainFrom(n + 1) \subseteq X!Owned
    BY SMTT(30), <2>2, TypeFacts, ChainFreed, OwnedFacts
  <2>4. BitmapFreed
    <3>1. X!SearchReaches'
      BY <1>2, <2>1, <2>3 DEF X!SearchReaches, NoneFreeBelow
    <3> QED BY <1>2, <2>1, <2>3, <3>1 DEF BitmapFreed
  <2>5. FatOK'
    <3>1. DOMAIN f.fat \subseteq X!Cluster /\ \A c \in DOMAIN f.fat : f.fat[c] \in X!Cluster \cup {EOC}
      BY <2>3, WithoutOK
    <3>2. CASE m_curCluster = 0
      BY <2>1, <3>1, <3>2 DEF FatOK
    <3>3. CASE m_curCluster # 0
      <4>1. m_curCluster \in X!Cluster
        BY <3>3 DEF XIInv, X!TypeOK
      <4>2. fat' = [c \in DOMAIN f.fat \cup {m_curCluster} |->
                      IF c = m_curCluster THEN EOC ELSE f.fat[c]]
        BY <2>1, <3>3 DEF X!Ending
      <4>3. DOMAIN fat' = DOMAIN f.fat \cup {m_curCluster}
        BY <4>2
      <4>4. \A c \in DOMAIN fat' : fat'[c] \in X!Cluster \cup {EOC}
        BY <3>1, <4>2
      <4> QED BY <3>1, <4>1, <4>3, <4>4 DEF FatOK
    <3> QED BY <3>2, <3>3
  <2>6. CASE f.ok
    <3>1. X!TruncateEnds(X!Kept)
      BY <2>1, <2>6
    <3>2. X!Owned' \subseteq X!Owned /\ X!Owned' \cap X!ChainFrom(n + 1) = {}
      BY <1>1, <1>4, <3>1, CutOwned
    <3>3. X!Owned' \subseteq allocated'
      BY <1>2, <2>1, <2>3, <3>2
    <3>4. ASSUME n # 0 PROVE X!Linked'
      <4>1. /\ DOMAIN chain' = 1 .. n /\ Len(chain') = n /\ n \in 1 .. Len(chain)
            /\ \A i \in 1 .. n : chain'[i] = chain[i] /\ i \in DOMAIN chain
            /\ n < Len(chain)
        BY <1>1, <1>4, <1>8, <3>1, <3>4, TypeFacts
      <4>2. m_curCluster = chain[n] /\ m_curCluster # 0
        BY <1>1, <3>4
      <4>3. f.fat = [c \in DOMAIN fat \ X!ChainFrom(n + 1) |-> fat[c]]
        BY <2>3, <2>6 DEF X!Without
      <4>4. fat' = [c \in DOMAIN f.fat \cup {m_curCluster} |->
                      IF c = m_curCluster THEN EOC ELSE f.fat[c]]
        BY <2>1, <4>2 DEF X!Ending
      <4>5. ASSUME NEW i \in 1 .. n
            PROVE  /\ chain[i] \in DOMAIN fat'
                   /\ fat'[chain[i]] = IF i = n THEN EOC ELSE chain[i + 1]
        <5>1. CASE i = n
          BY <4>2, <4>4, <5>1
        <5>2. CASE i # n
          <6>1. chain[i] \in DOMAIN fat /\ fat[chain[i]] = chain[i + 1]
            <7>1. i \in DOMAIN chain /\ i # Len(chain)
              <8>1. n \in Nat /\ Len(chain) \in Nat /\ n < Len(chain)
                BY <1>1, <1>8, TypeFacts
              <8>2. i # Len(chain)
                BY <8>1
              <8> QED BY <4>1, <8>2
            <7> QED BY <1>3, <7>1 DEF X!Linked
          <6>2. chain[i] # m_curCluster
            BY <4>1, <4>2, <5>2, TypeFacts DEF Distinct
          <6>3. chain[i] \notin X!ChainFrom(n + 1)
            <7>1. chain[i] \in X!Owned'
              BY <4>1 DEF X!Owned
            <7> QED BY <3>2, <7>1
          <6>4. chain[i] \in DOMAIN f.fat /\ f.fat[chain[i]] = fat[chain[i]]
            BY <4>3, <6>1, <6>3
          <6> QED BY <4>4, <5>2, <6>1, <6>2, <6>4
        <5> QED BY <5>1, <5>2
      <4>6. ASSUME NEW i \in 1 .. n, i # n PROVE chain'[i + 1] = chain[i + 1]
        <5>1. i + 1 \in 1 .. n
          BY <1>1, <4>6
        <5> QED BY <4>1, <5>1
      <4> QED BY <4>1, <4>5, <4>6 DEF X!Linked
    <3> QED BY <1>8, <2>4, <2>5, <3>1, <3>3, <3>4, TruncateDone DEF n
  <2>7. CASE ~f.ok
    <3>1. X!TruncateStops
      BY <2>1, <2>7
    <3> QED BY <1>2, <1>8, <2>4, <2>5, <3>1, TruncateStopped
  <2> QED BY <2>6, <2>7
<1> QED BY <1>6, <1>7, <1>8, Zenon DEF X!TruncateChain, n

LEMMA TruncateStep == ASSUME X!FileAssumption, ~Retries, XIInv, X!truncate PROVE XIInv'
<1>1. UNCHANGED <<ioFails, X!cursor, left, toFill, others>> /\ open
      /\ pc \in {"idle", "truncate"}
  <2>1. UNCHANGED <<ioFails, X!cursor, left, toFill, others>> /\ (X!Usable \/ pc = "truncate")
    BY DEF X!truncate
  <2>2. pc = "truncate" => open
    BY DEF XIInv, Calls
  <2> QED BY <2>1, <2>2 DEF X!Usable
<1>2. CASE m_firstCluster = 0 /\ pc' = "idle"
           /\ UNCHANGED <<open, m_flags, X!lengths, m_firstCluster, entry, X!bitmap, fat, chain, X!data>>
  <2>1. Settled /\ FileKept
    BY <1>1, <1>2 DEF Settled, FileKept
  <2>2. m_dataLength = 0 /\ m_curPosition = 0 /\ left = 0 /\ toFill = 0
    BY <1>2, <2>1, NoCluster
  <2>3. m_curCluster' \in X!Cluster \cup {0} /\ AtPos(m_curPosition', m_curCluster')
        /\ left' \in 0 .. XMaxTransfer
    BY <1>1, <2>1 DEF XIInv, X!TypeOK, CursorOK, X!cursor, AtPos
  <2>4. m_curPosition' = 0 /\ left' = 0 /\ toFill' = 0
    BY <1>1, <2>2 DEF X!cursor
  <2> QED BY <1>2, <2>1, <2>2, <2>3, <2>4, CursorMoved
<1>3. CASE m_firstCluster # 0 /\ X!TruncateContiguous
  BY <1>1, <1>3, TruncateContiguousStep DEF Cutting
<1>4. CASE m_firstCluster # 0 /\ X!TruncateChain
  BY <1>1, <1>4, TruncateChainStep DEF Cutting
<1> QED BY <1>2, <1>3, <1>4 DEF X!truncate

-----------------------------------------------------------------------------
(* The cursor of a read or of a write between two transfers. *)

LEMMA Here ==
  ASSUME X!FileAssumption, XIInv, open, pc \in {"read", "write"}
  PROVE  LET q == m_curPosition \div X!BytesPerCluster IN
         /\ q \in Nat
         /\ ~X!AtCluster => q + 1 \in DOMAIN chain /\ m_curCluster = chain[q + 1]
         /\ X!AtCluster /\ m_curPosition # 0 => q \in DOMAIN chain /\ m_curCluster = chain[q]
         /\ m_curPosition = 0 => X!AtCluster /\ q = 0 /\ m_curCluster = 0
         /\ m_curPosition # 0 => m_curCluster \in X!Cluster
         /\ m_curPosition < Len(chain) * X!BytesPerCluster <=> q < Len(chain)
<1> DEFINE q == m_curPosition \div X!BytesPerCluster
           p == m_curPosition
<1>1. AtPos(p, m_curCluster)
  BY DEF XIInv, CursorOK
<1>2. q \in Nat /\ (p < Len(chain) * X!BytesPerCluster <=> q < Len(chain))
  <2>1. q \in Nat
    BY TypeFacts, Cluster0, L!DivMod
  <2> QED BY <2>1, TypeFacts, Cluster0, L!Mono
<1>3. p = 0 => X!AtCluster /\ q = 0 /\ m_curCluster = 0
  BY <1>1, Cluster0 DEF AtPos, X!AtCluster, X!CursorOffset
<1>4. p # 0 => X!Index(p) + 1 \in DOMAIN chain /\ m_curCluster = chain[X!Index(p) + 1]
               /\ m_curCluster \in X!Cluster
  <2> SUFFICES ASSUME p # 0
               PROVE  X!Index(p) + 1 \in DOMAIN chain /\ m_curCluster = chain[X!Index(p) + 1]
                      /\ m_curCluster \in X!Cluster
    OBVIOUS
  <2>1. X!Index(p) \in 0 .. Len(chain) - 1 /\ m_curCluster = chain[X!Index(p) + 1]
    BY <1>1 DEF AtPos
  <2>2. X!Index(p) + 1 \in 1 .. Len(chain)
    BY <2>1, TypeFacts
  <2> QED BY <2>1, <2>2, TypeFacts
<1>5. ~X!AtCluster => p # 0 /\ X!Index(p) = q
  BY TypeFacts, PositionIndex DEF X!AtCluster, X!CursorOffset
<1>6. X!AtCluster /\ p # 0 => X!Index(p) + 1 = q
  BY TypeFacts, PositionIndex DEF X!AtCluster, X!CursorOffset
<1> HIDE DEF q
<1> QED BY <1>2, <1>3, <1>4, <1>5, <1>6 DEF q

(* The next cluster of the file, by its number or by the FAT. *)
LEMMA NextIs ==
  ASSUME X!FileAssumption, XIInv, open, pc \in {"read", "write"}, X!AtCluster, m_curPosition # 0
  PROVE  LET q == m_curPosition \div X!BytesPerCluster IN
         /\ X!Contiguous /\ q < Len(chain) => chain[q + 1] = m_curCluster + 1
         /\ ~X!Contiguous =>
              X!FatValues(m_curCluster) = {IF q = Len(chain) THEN EOC ELSE chain[q + 1]}
<1> DEFINE q == m_curPosition \div X!BytesPerCluster
<1>1. q \in Nat /\ q \in DOMAIN chain /\ m_curCluster = chain[q] /\ m_firstCluster # 0
      /\ m_firstCluster \in Nat
  <2>1. q \in Nat /\ q \in DOMAIN chain /\ m_curCluster = chain[q]
    BY Here
  <2>2. Len(chain) # 0 /\ Live
    BY <2>1, TypeFacts DEF Live
  <2>3. m_firstCluster \in Nat
    BY Cluster0 DEF XIInv, X!TypeOK
  <2> QED BY <2>1, <2>2, <2>3, OwnedFacts
<1> HIDE DEF q
<1>2. X!Contiguous /\ q < Len(chain) => chain[q + 1] = m_curCluster + 1
  <2> SUFFICES ASSUME X!Contiguous, q < Len(chain) PROVE chain[q + 1] = m_curCluster + 1
    OBVIOUS
  <2>1. \A i \in DOMAIN chain : chain[i] = m_firstCluster + i - 1
    BY <1>1 DEF XIInv, X!ContiguousHolds
  <2>2. q + 1 \in DOMAIN chain
    BY <1>1, TypeFacts
  <2>3. chain[q + 1] = m_firstCluster + (q + 1) - 1
    BY <2>1, <2>2
  <2>4. chain[q] = m_firstCluster + q - 1
    BY <1>1, <2>1
  <2> QED BY <1>1, <2>3, <2>4
<1>3. ~X!Contiguous => X!FatValues(m_curCluster) = {IF q = Len(chain) THEN EOC ELSE chain[q + 1]}
  BY <1>1, FatValuesAre DEF XIInv, X!ContiguousHolds
<1> QED BY <1>2, <1>3 DEF q

(* A transfer stays in its sector or in its cluster. *)
LEMMA TransferFits ==
  ASSUME X!FileAssumption, XIInv, InTransferStep
  PROVE  /\ X!WholeSectors \in 1 .. left /\ X!CursorOffset + X!WholeSectors <= X!BytesPerCluster
         /\ X!CursorOffset \in 0 .. X!BytesPerCluster - 1
         /\ \A n \in Nat \ {0} : /\ X!PartOfSector(n) \in 1 .. n
                                 /\ X!CursorOffset + X!PartOfSector(n) <= X!BytesPerCluster
<1> DEFINE s == BytesPerSector
           b == X!BytesPerCluster
           so == X!SectorOffset
           co == X!CursorOffset
<1>1. s \in Nat \ {0} /\ b \in Nat \ {0} /\ left \in Nat \ {0} /\ m_curPosition \in Nat
  BY Cluster0, TypeFacts DEF XIInv, Calls
<1>2. so \in 0 .. s - 1 /\ co \in 0 .. b - 1
  BY <1>1, L!DivMod DEF X!SectorOffset, X!CursorOffset
<1>3. co % s = so
  BY TypeFacts, L!SectorOfOffset DEF X!FileAssumption, X!BytesPerCluster, X!SectorOffset, X!CursorOffset
<1>4. co + s - so <= b
  <2>1. co \in Nat /\ co < BytesPerSector * XSectorsPerCluster
    BY <1>1, <1>2 DEF X!BytesPerCluster
  <2> HIDE DEF co
  <2>2. co + s - (co % s) <= b
    BY <2>1, L!RoomInCluster DEF X!FileAssumption, X!BytesPerCluster
  <2> QED BY <1>3, <2>2
<1> HIDE DEF so, co, s, b
<1>5. ASSUME NEW n \in Nat \ {0} PROVE X!PartOfSector(n) \in 1 .. n /\ co + X!PartOfSector(n) <= b
  <2>1. X!PartOfSector(n) = IF s - so < n THEN s - so ELSE n
    BY DEF X!PartOfSector, X!Smaller, s, so
  <2> QED BY <1>1, <1>2, <1>4, <2>1
<1>6. X!WholeSectors \in 1 .. left /\ co + X!WholeSectors <= b
  <2>1. CASE X!NeedsCache
    BY <1>1, <1>5, <2>1 DEF X!WholeSectors
  <2>2. CASE ~X!NeedsCache
    <3> DEFINE r == left % BytesPerSector
    <3>1. left >= s /\ r \in 0 .. s - 1
      BY <1>1, <2>2 DEF X!NeedsCache, s
    <3> HIDE DEF r
    <3>2. X!WholeSectors = IF left - r < b - co THEN left - r ELSE b - co
      BY <2>2 DEF X!WholeSectors, X!Smaller, r, b, co
    <3> QED BY <1>1, <1>2, <3>1, <3>2
  <2> QED BY <2>1, <2>2
<1> QED BY <1>2, <1>5, <1>6 DEF co, b

(* After a transfer of k bytes the cursor is in the cluster of the byte in *)
(* front of it.                                                            *)
LEMMA AfterTransfer ==
  ASSUME X!FileAssumption, XIInv, InTransferStep, NEW k \in Nat \ {0},
         X!CursorOffset + k <= X!BytesPerCluster
  PROVE  /\ AtPos(m_curPosition + k, m_curCluster)
         /\ m_curPosition + k <= Len(chain) * X!BytesPerCluster
         /\ m_curPosition \div X!BytesPerCluster + 1 \in DOMAIN chain
         /\ m_curPosition \div X!BytesPerCluster \in Nat
         /\ m_curCluster = chain[m_curPosition \div X!BytesPerCluster + 1]
         /\ X!Index(m_curPosition + k) = m_curPosition \div X!BytesPerCluster
<1> DEFINE q == m_curPosition \div X!BytesPerCluster
<1>1. m_curPosition < Len(chain) * X!BytesPerCluster /\ m_curCluster = chain[q + 1]
  BY DEF XIInv, CursorOK, X!RightCluster, InTransferStep
<1>2. q \in Nat /\ q < Len(chain)
  <2>1. q \in Nat
    BY TypeFacts, Cluster0, L!DivMod
  <2> QED BY <1>1, <2>1, TypeFacts, Cluster0, L!Mono
<1>3. X!Index(m_curPosition + k) = q /\ m_curPosition + k \in Nat /\ m_curPosition + k # 0
  <2>1. m_curPosition \in Nat /\ (m_curPosition % X!BytesPerCluster) + k <= X!BytesPerCluster
    BY TypeFacts DEF X!CursorOffset
  <2>2. \A i \in Nat \ {0} : (m_curPosition % X!BytesPerCluster) + i <= X!BytesPerCluster =>
          X!Index(m_curPosition + i) = q
    BY <2>1, PositionIndex, Zenon
  <2> QED BY <2>1, <2>2
<1> HIDE DEF q
<1>4. q + 1 \in DOMAIN chain /\ q \in 0 .. Len(chain) - 1
  BY <1>2, TypeFacts
<1>5. AtPos(m_curPosition + k, m_curCluster)
  BY <1>1, <1>3, <1>4 DEF AtPos
<1>6. m_curPosition + k <= Len(chain) * X!BytesPerCluster
  BY <1>2, <1>3, TypeFacts, PositionIndex
<1> QED BY <1>1, <1>2, <1>3, <1>4, <1>5, <1>6 DEF q

-----------------------------------------------------------------------------
(* Reads. *)

LEMMA ReadCallStep ==
  ASSUME X!FileAssumption, XIInv, NEW n \in 1 .. XMaxTransfer, X!readCall(n) PROVE XIInv'
<1> DEFINE count == IF m_curPosition <= m_dataLength /\ n > m_dataLength - m_curPosition
                    THEN m_dataLength - m_curPosition ELSE n
           maxRead == IF m_curPosition < m_validLength THEN m_validLength - m_curPosition ELSE 0
<1>1. /\ open /\ pc = "idle" /\ pc' = "read" /\ FileKept /\ UNCHANGED X!cursor
      /\ left' = X!Smaller(count, maxRead) /\ toFill' = count - X!Smaller(count, maxRead)
  BY DEF X!readCall, X!Usable, FileKept
<1>2. m_curPosition + left + toFill <= m_dataLength /\ AtPos(m_curPosition, m_curCluster)
      /\ m_curCluster \in X!Cluster \cup {0} /\ left = 0 /\ toFill = 0
  BY <1>1 DEF XIInv, LengthsOK, Settled, CursorOK, X!TypeOK, Calls
<1>3. n \in Nat /\ n <= XMaxTransfer /\ XMaxTransfer \in Nat
  BY DEF X!FileAssumption
<1>4. /\ count \in Nat /\ count <= n /\ m_curPosition + count <= m_dataLength
      /\ maxRead \in Nat
  BY <1>2, <1>3, TypeFacts
<1> HIDE DEF count, maxRead
<1>5. left' \in Nat /\ left' <= count /\ toFill' \in Nat /\ left' + toFill' = count
  BY <1>1, <1>4 DEF X!Smaller
<1>6. left' \in 0 .. XMaxTransfer
  BY <1>3, <1>4, <1>5
<1>7. m_curPosition' + left' + toFill' <= m_dataLength
  BY SMTT(30), <1>1, <1>4, <1>5, TypeFacts DEF X!cursor
<1>8. AtPos(m_curPosition', m_curCluster') /\ m_curPosition' \in Nat
      /\ m_curCluster' \in X!Cluster \cup {0}
  BY <1>1, <1>2, TypeFacts DEF X!cursor
<1> QED BY <1>1, <1>5, <1>6, <1>7, <1>8, CursorMoved DEF Settled

LEMMA ReadOpen ==
  ASSUME X!FileAssumption, XIInv, pc \in {"read", "read_io"}
  PROVE  /\ open /\ Settled /\ Live /\ m_curPosition + left + toFill <= m_dataLength
         /\ m_dataLength <= Len(chain) * X!BytesPerCluster
         /\ left \in 0 .. XMaxTransfer /\ m_curPosition \in X!Position
         /\ m_curCluster \in X!Cluster \cup {0} /\ XMaxTransfer \in Nat
BY DEF XIInv, Calls, LengthsOK, Settled, Live, X!TypeOK, X!FileAssumption

LEMMA ReadClusterStep == ASSUME X!FileAssumption, ~Retries, XIInv, X!ReadCluster PROVE XIInv'
<1> DEFINE q == m_curPosition \div X!BytesPerCluster
<1>1. pc = "read" /\ left > 0 /\ FileKept /\ m_curPosition' = m_curPosition
  BY DEF X!ReadCluster, FileKept
<1>2. m_curPosition < Len(chain) * X!BytesPerCluster /\ q < Len(chain) /\ q \in Nat
  <2>1. m_curPosition < Len(chain) * X!BytesPerCluster
    BY <1>1, ReadOpen, TypeFacts
  <2> QED BY <1>1, <2>1, ReadOpen, Here
<1>3. ASSUME pc' = "read_io", left' = left, toFill' = toFill, m_curCluster' = chain[q + 1]
      PROVE  XIInv'
  <2>1. q + 1 \in DOMAIN chain
    BY <1>2, TypeFacts
  <2>2. m_curCluster' \in X!Cluster
    BY <1>3, <2>1, TypeFacts
  <2>3. X!RightCluster'
    <3>1. chain' = chain
      BY <1>1 DEF FileKept
    <3> QED BY <1>1, <1>2, <1>3, <3>1 DEF X!RightCluster
  <2> HIDE DEF q
  <2>4. m_curPosition' + left' + toFill' <= m_dataLength
    BY <1>1, <1>3, ReadOpen
  <2> QED BY <1>1, <1>3, <2>2, <2>3, <2>4, ReadOpen, TypeFacts, CursorMoved
<1> HIDE DEF q
<1>4. CASE ~X!AtCluster /\ pc' = "read_io" /\ UNCHANGED <<m_curCluster, left, toFill>>
  BY <1>1, <1>3, <1>4, ReadOpen, Here DEF q
<1>5. CASE /\ X!AtCluster
           /\ m_curCluster' \in IF m_curPosition = 0 THEN {m_firstCluster}
                                ELSE IF X!Contiguous THEN {m_curCluster + 1}
                                ELSE X!FatValues(m_curCluster) \ {EOC}
           /\ pc' = "read_io" /\ UNCHANGED <<left, toFill>>
  <2>1. m_curCluster' = chain[q + 1]
    <3>1. CASE m_curPosition = 0
      <4>1. q = 0
        BY <1>1, <3>1, ReadOpen, Here DEF q
      <4>2. m_firstCluster = chain[1]
        <5>1. chain # <<>>
          BY <1>2, <4>1
        <5> QED BY <1>1, <5>1, ReadOpen, OwnedFacts DEF FirstOf
      <4> QED BY <1>5, <3>1, <4>1, <4>2
    <3>2. CASE m_curPosition # 0 /\ X!Contiguous
      <4>1. chain[q + 1] = m_curCluster + 1
        BY <1>1, <1>2, <1>5, <3>2, ReadOpen, NextIs DEF q
      <4> QED BY <1>5, <3>2, <4>1
    <3>3. CASE m_curPosition # 0 /\ ~X!Contiguous
      <4>1. X!FatValues(m_curCluster) = {IF q = Len(chain) THEN EOC ELSE chain[q + 1]}
        BY <1>1, <1>5, <3>3, ReadOpen, NextIs DEF q
      <4>2. q # Len(chain)
        <5>1. Len(chain) \in Nat
          BY TypeFacts
        <5> QED BY ONLY <1>2, <5>1
      <4> QED BY <1>5, <3>3, <4>1, <4>2
    <3> QED BY <3>1, <3>2, <3>3
  <2> QED BY <1>3, <1>5, <2>1
<1>6. CASE X!Fail /\ UNCHANGED m_curCluster
  <2>1. pc' = "close" /\ left' = 0 /\ toFill' = 0
    BY <1>6 DEF X!Fail, X!AfterFailure
  <2> QED BY <1>1, <1>6, <2>1, ReadOpen, CallFailed
<1> QED BY <1>4, <1>5, <1>6 DEF X!ReadCluster

LEMMA ReadTransferStep == ASSUME X!FileAssumption, ~Retries, XIInv, X!ReadTransfer PROVE XIInv'
<1>1. pc = "read_io" /\ FileKept /\ m_curCluster' = m_curCluster
  BY DEF X!ReadTransfer, FileKept
<1>2. InTransferStep /\ left \in Nat \ {0}
  BY <1>1, TypeFacts DEF InTransferStep, XIInv, Calls
<1>3. ASSUME NEW k \in {X!PartOfSector(left), X!WholeSectors}, m_curPosition' = m_curPosition + k,
             left' = left - k, pc' = "read", toFill' = toFill
      PROVE  XIInv'
  <2>1. k \in 1 .. left /\ X!CursorOffset + k <= X!BytesPerCluster
    BY <1>2, TransferFits
  <2>2. AtPos(m_curPosition', m_curCluster')
    <3>1. k \in Nat \ {0}
      BY <1>2, <2>1
    <3> QED BY <1>1, <1>2, <1>3, <2>1, <3>1, AfterTransfer
  <2>3. left' \in 0 .. XMaxTransfer /\ m_curPosition' \in Nat
        /\ m_curPosition' + left' + toFill' <= m_dataLength
    BY SMTT(30), <1>1, <1>2, <1>3, <2>1, ReadOpen, TypeFacts
  <2> QED BY <1>1, <1>3, <2>2, <2>3, ReadOpen, TypeFacts, CursorMoved
<1>4. CASE X!Fail /\ UNCHANGED m_curPosition
  <2>1. pc' = "close" /\ left' = 0 /\ toFill' = 0
    BY <1>4 DEF X!Fail, X!AfterFailure
  <2> QED BY <1>1, <1>4, <2>1, ReadOpen, CallFailed
<1> QED BY <1>3, <1>4 DEF X!ReadTransfer

LEMMA ReadEndsStep == ASSUME X!FileAssumption, XIInv, X!ReadEnds PROVE XIInv'
<1>1. pc = "read" /\ left = 0 /\ FileKept /\ left' = 0 /\ toFill' = 0 /\ pc' = "idle"
  BY DEF X!ReadEnds, FileKept
<1>2. PICK o \in X!seekOutcomes(m_curPosition + toFill, m_curPosition, m_curCluster) :
        m_curPosition' = o.pos /\ m_curCluster' = o.cluster
  BY DEF X!ReadEnds
<1>3. AtPos(m_curPosition, m_curCluster) /\ m_curPosition + toFill <= m_dataLength
      /\ m_curPosition <= m_dataLength /\ m_curPosition + toFill \in Nat
  <2>1. AtPos(m_curPosition, m_curCluster)
    BY <1>1, ReadOpen DEF XIInv, CursorOK
  <2> QED BY <1>1, <2>1, ReadOpen, TypeFacts
<1>4. /\ AtPos(o.pos, o.cluster) /\ o.cluster \in X!Cluster \cup {0}
      /\ o.pos \in {m_curPosition + toFill, m_curPosition}
  <2>1. /\ AtPos(o.pos, o.cluster) /\ o.cluster \in X!Cluster \cup {0}
        /\ o.ok => o.pos = m_curPosition + toFill
        /\ ~o.ok => o.pos = m_curPosition
    BY <1>1, <1>3, ReadOpen, TypeFacts, SeekOutcome
  <2> QED BY <2>1
<1>5. m_curPosition' + 0 + 0 <= m_dataLength /\ m_curPosition' \in Nat /\ 0 \in 0 .. XMaxTransfer
  BY <1>1, <1>2, <1>3, <1>4, ReadOpen, TypeFacts
<1> QED BY <1>1, <1>2, <1>4, <1>5, ReadOpen, CursorMoved

-----------------------------------------------------------------------------
(* Writes. *)

LEMMA WriteCallStep ==
  ASSUME X!FileAssumption, ~Retries, XIInv, NEW n \in 1 .. XMaxTransfer, X!writeCall(n) PROVE XIInv'
<1>1. open /\ pc = "idle" /\ FileKept
  BY DEF X!writeCall, X!Usable, FileKept
<1>2. PICK o \in X!WriteFrom : \E f \in X!FillFrom(o) :
        /\ m_curPosition' = f.pos /\ m_curCluster' = f.cluster
        /\ IF f.ok THEN left' = n /\ toFill' = o.pos - f.pos /\ pc' = "write" ELSE X!Fail
  BY DEF X!writeCall
<1>3. PICK f \in X!FillFrom(o) :
        /\ m_curPosition' = f.pos /\ m_curCluster' = f.cluster
        /\ IF f.ok THEN left' = n /\ toFill' = o.pos - f.pos /\ pc' = "write" ELSE X!Fail
  BY <1>2
<1>4. /\ AtPos(m_curPosition, m_curCluster) /\ m_curCluster \in X!Cluster \cup {0} /\ Settled
      /\ m_curPosition <= m_dataLength /\ m_validLength <= m_dataLength
      /\ m_dataLength <= Len(chain) * X!BytesPerCluster
      /\ m_curPosition \in X!Position /\ m_dataLength \in X!Position /\ m_validLength \in X!Position
  <2>1. m_curPosition + left + toFill <= m_dataLength
    BY <1>1 DEF XIInv, LengthsOK, Settled
  <2>2. m_curPosition <= m_dataLength
    BY <2>1, TypeFacts
  <2> QED BY <1>1, <2>2 DEF XIInv, CursorOK, X!TypeOK, LengthsOK, Settled
<1>5. /\ AtPos(o.pos, o.cluster) /\ o.cluster \in X!Cluster \cup {0}
      /\ o.pos \in {m_curPosition, m_dataLength}
  <2>1. CASE "APPEND" \in m_flags
    <3>1. o \in X!seekOutcomes(m_dataLength, m_curPosition, m_curCluster)
      BY <2>1 DEF X!WriteFrom
    <3>2. /\ AtPos(o.pos, o.cluster) /\ o.cluster \in X!Cluster \cup {0}
          /\ o.ok => o.pos = m_dataLength
          /\ ~o.ok => o.pos = m_curPosition
      BY <1>4, <3>1, TypeFacts, SeekOutcome
    <3> QED BY <3>2
  <2>2. CASE "APPEND" \notin m_flags
    <3>1. o = X!Sought(TRUE, m_curPosition, m_curCluster)
      BY <2>2 DEF X!WriteFrom
    <3> QED BY <1>4, <3>1 DEF X!Sought
  <2> QED BY <2>1, <2>2
<1>6. o.pos \in Nat /\ o.pos <= m_dataLength /\ o.pos \in X!Position
  BY <1>4, <1>5, TypeFacts
<1>7. /\ AtPos(f.pos, f.cluster) /\ f.cluster \in X!Cluster \cup {0}
      /\ f.pos \in {o.pos, m_validLength}
      /\ f.ok => f.pos <= m_validLength /\ (f.pos = o.pos \/ (f.pos = m_validLength /\ f.pos < o.pos))
  <2>1. CASE o.ok /\ o.pos > m_validLength
    <3>1. f \in X!seekOutcomes(m_validLength, o.pos, o.cluster)
      BY <2>1 DEF X!FillFrom
    <3>2. /\ AtPos(f.pos, f.cluster) /\ f.cluster \in X!Cluster \cup {0}
          /\ f.ok => f.pos = m_validLength
          /\ ~f.ok => f.pos = o.pos
      BY SMTT(30), <1>4, <1>5, <1>6, <3>1, TypeFacts, SeekOutcome
    <3> QED BY <1>6, <2>1, <3>2, TypeFacts
  <2>2. CASE ~(o.ok /\ o.pos > m_validLength)
    <3>1. f = o
      BY <2>2 DEF X!FillFrom
    <3> QED BY <1>5, <1>6, <2>2, <3>1, TypeFacts
  <2> QED BY <2>1, <2>2
<1>8. f.pos \in X!Position /\ f.pos \in Nat
  BY <1>4, <1>6, <1>7, TypeFacts
<1>9. CASE ~f.ok
  <2>1. pc' = "close" /\ left' = 0 /\ toFill' = 0
    BY <1>3, <1>9 DEF X!Fail, X!AfterFailure
  <2> QED BY <1>1, <1>3, <1>7, <1>8, <2>1, CallFailed DEF Live
<1>10. CASE f.ok
  <2> USE DEF FileKept, X!lengths, X!bitmap, X!data
  <2>1. left' = n /\ toFill' = o.pos - f.pos /\ pc' = "write"
    BY <1>3, <1>10
  <2>2. toFill' \in X!Position /\ left' \in 0 .. XMaxTransfer
    <3>1. toFill' \in 0 .. o.pos
      BY <1>6, <1>7, <1>8, <1>10, <2>1
    <3>2. \A x \in X!Position : 0 .. x \subseteq X!Position
      <4> DEFINE U == (X!m_clusterCount + 1) * X!BytesPerCluster
      <4>1. X!Position = 0 .. U
        BY DEF X!Position
      <4>2. U \in Nat
        BY Cluster0
      <4> HIDE DEF U
      <4> QED BY <4>1, <4>2
    <3>3. n \in Nat /\ n <= XMaxTransfer
      BY DEF X!FileAssumption
    <3> QED BY <1>6, <2>1, <3>1, <3>2, <3>3
  <2>3. X!TypeOK'
    BY <1>1, <1>3, <1>7, <1>8, <2>1, <2>2 DEF XIInv, X!TypeOK
  <2>4. Calls' /\ ChainOK'
    BY <1>1, <2>1 DEF XIInv, Calls, ChainOK, Distinct, InTransferStep, Live
  <2>5. CursorOK'
    BY <1>1, <1>3, <1>7, <2>1 DEF CursorOK, AtPos, X!RightCluster
  <2>6. LengthsOK'
    <3>1. m_curPosition' <= m_validLength'
      BY <1>1, <1>3, <1>7, <1>10
    <3>2. m_validLength' <= Len(chain') * X!BytesPerCluster
          /\ m_dataLength' <= Len(chain') * X!BytesPerCluster
      BY <1>1, <1>4, TypeFacts
    <3>3. toFill' > 0 => m_curPosition' = m_validLength'
      BY <1>1, <1>3, <1>6, <1>7, <1>8, <1>10, <2>1
    <3> QED BY <1>1, <1>4, <2>1, <3>1, <3>2, <3>3 DEF LengthsOK, Settled
  <2>7. CountOK'
    <3>1. X!Contiguous /\ m_firstCluster # 0 => Len(chain) = X!ClusterCount(m_dataLength)
      BY <1>4 DEF XIInv, CountOK
    <3>2. X!ClusterCount(m_dataLength) <= X!ClusterCount(m_dataLength)
      BY SMTT(30), TypeFacts, CountBound
    <3> QED BY <1>1, <2>1, <3>1, <3>2 DEF CountOK, X!Contiguous, Settled
  <2>8. EntryOK'
    BY <1>1, <1>4, <2>1 DEF XIInv, EntryOK, Agrees, X!Contiguous, Live, Settled
  <2>9. ContentsOK' /\ X!ContiguousHolds' /\ X!NoClusterShared' /\ X!SearchReaches'
    BY <1>1, <2>1, ContentsKept, VolumeKept
       DEF XIInv, X!ContiguousHolds, X!Contiguous, X!Linked, Live
  <2> QED BY <2>3, <2>4, <2>5, <2>6, <2>7, <2>8, <2>9 DEF XIInv
<1> QED BY <1>9, <1>10

LEMMA WriteOpen ==
  ASSUME X!FileAssumption, XIInv, pc \in {"write", "write_io"}
  PROVE  /\ open /\ Writing /\ Live
         /\ m_curPosition <= m_validLength
         /\ m_validLength <= Len(chain) * X!BytesPerCluster
         /\ m_dataLength <= Len(chain) * X!BytesPerCluster
         /\ entry.valid <= m_validLength
         /\ left \in 0 .. XMaxTransfer /\ m_curPosition \in X!Position
         /\ m_curCluster \in X!Cluster \cup {0}
         /\ others \subseteq allocated /\ X!Owned \subseteq allocated /\ X!Owned \cap others = {}
         /\ m_firstCluster = FirstOf(chain)
BY DEF XIInv, Calls, LengthsOK, EntryOK, Writing, Live, X!TypeOK, X!NoClusterShared, ChainOK

(* The cluster of the position is found, and nothing else changes. *)
LEMMA WriteMoved ==
  ASSUME X!FileAssumption, XIInv, pc = "write", pc' = "write_io", FileKept,
         UNCHANGED <<m_curPosition, left, toFill>>, left > 0,
         m_curPosition < Len(chain) * X!BytesPerCluster,
         m_curCluster' = chain[m_curPosition \div X!BytesPerCluster + 1]
  PROVE  XIInv'
<1> DEFINE q == m_curPosition \div X!BytesPerCluster
<1> USE DEF FileKept, X!lengths, X!bitmap, X!data
<1>1. q \in Nat /\ q < Len(chain) /\ q + 1 \in DOMAIN chain /\ m_curCluster' \in X!Cluster
  <2>1. q \in Nat /\ q < Len(chain)
    BY WriteOpen, Here
  <2> QED BY <2>1, TypeFacts
<1>2. X!RightCluster'
  BY DEF X!RightCluster
<1>3. CountOK'
  <2>1. pc = "write" /\ InLast => q + 1 = Len(chain)
    <3> SUFFICES ASSUME m_curPosition # 0, X!Index(m_curPosition) + 1 = Len(chain)
                 PROVE  q + 1 = Len(chain)
      BY DEF InLast
    <3>1. CASE X!AtCluster
      <4>1. X!Index(m_curPosition) + 1 = q
        BY <3>1, TypeFacts, PositionIndex DEF X!AtCluster, X!CursorOffset
      <4> HIDE DEF q
      <4> QED BY <1>1, <4>1, TypeFacts
    <3>2. CASE ~X!AtCluster
      <4>1. X!Index(m_curPosition) = q
        BY <3>2, TypeFacts, PositionIndex DEF X!AtCluster, X!CursorOffset
      <4> QED BY <4>1
    <3> QED BY <3>1, <3>2
  <2>2. InLast' <=> q + 1 = Len(chain)
    BY DEF InLast
  <2> HIDE DEF q
  <2>3. InLast => InLast'
    BY <2>1, <2>2
  <2> HIDE DEF InLast
  <2>4. X!ClusterCount(m_dataLength)' = X!ClusterCount(m_dataLength)
    BY DEF X!ClusterCount, X!Index
  <2> QED BY <2>3, <2>4, WriteOpen DEF XIInv, CountOK, X!Contiguous, Writing, Settled
<1> HIDE DEF q
<1>4. X!TypeOK'
  BY <1>1 DEF XIInv, X!TypeOK
<1>5. Calls' /\ ChainOK' /\ CursorOK'
  BY <1>2, WriteOpen DEF XIInv, Calls, ChainOK, Distinct, CursorOK, InTransferStep, Live
<1>6. LengthsOK' /\ EntryOK'
  BY WriteOpen DEF XIInv, LengthsOK, EntryOK, Agrees, X!Contiguous, Live, Settled, Writing
<1>7. ContentsOK' /\ X!ContiguousHolds' /\ X!NoClusterShared' /\ X!SearchReaches'
  BY WriteOpen, ContentsKept, VolumeKept DEF XIInv, X!ContiguousHolds, X!Contiguous, X!Linked, Live
<1> QED BY <1>3, <1>4, <1>5, <1>6, <1>7 DEF XIInv

(* bitmapFind for one cluster, and its bit. *)
TakeStart(cluster, find) == IF cluster = 0 THEN find - 2 ELSE m_bitmapStart
Taking(cluster, find, b) ==
  /\ find = X!bitmapFind(cluster, 1) /\ find \in X!Cluster
  /\ b \in X!bitmapModify(find, 1, TRUE, TakeStart(cluster, find))

LEMMA ClusterTaken ==
  ASSUME X!FileAssumption, XIInv, NEW cluster \in Nat \ {1}, NEW find, NEW b,
         Taking(cluster, find, b)
  PROVE  /\ find \notin allocated
         /\ b.bits \subseteq X!Cluster /\ allocated \subseteq b.bits
         /\ b.ok => b.bits = allocated \cup {find}
         /\ b.start \in 0 .. X!m_clusterCount - 1
         /\ ~ioFails => NoneFreeBelow(b.start, b.bits)
<1> DEFINE start == TakeStart(cluster, find)
<1>0. /\ find = X!bitmapFind(cluster, 1) /\ find \in X!Cluster
      /\ b \in X!bitmapModify(find, 1, TRUE, start)
      /\ start = IF cluster = 0 THEN find - 2 ELSE m_bitmapStart
  BY DEF Taking, TakeStart
<1> HIDE DEF start
<1>1. 1 \in Nat \ {0} /\ BitmapOK /\ X!bitmapFind(cluster, 1) \in X!Cluster /\ find \in Nat
      /\ find >= 2 /\ find - 2 \in 0 .. X!m_clusterCount - 1
  <2>1. BitmapOK /\ X!bitmapFind(cluster, 1) \in X!Cluster
    BY <1>0, TypeFacts
  <2>2. find \in Nat /\ find >= 2 /\ find - 2 \in 0 .. X!m_clusterCount - 1
    BY <1>0, Cluster0 DEF X!Cluster, X!m_clusterCount
  <2> QED BY <2>1, <2>2
<1>2. /\ find + 1 - 1 <= m_lastCluster
      /\ find .. find + 1 - 1 \subseteq X!Cluster \ allocated
      /\ cluster = 0 /\ NoneFreeBelow(m_bitmapStart, allocated) =>
           \A c \in X!Cluster : c < find => c \in allocated
  BY <1>0, <1>1, BitmapFindIs
<1>3. GroupOK(find, 1) /\ Group(find, 1) = {find}
  BY <1>0, <1>1, <1>2 DEF GroupOK, Group
<1>4. find \notin allocated
  BY <1>1, <1>2
<1>5. start \in 0 .. X!m_clusterCount - 1
  BY <1>0, <1>1 DEF BitmapOK
<1>6. ~ioFails => NoneFreeBelow(start, allocated)
  <2> SUFFICES ASSUME ~ioFails, NEW c \in X!Cluster, c - 2 < start PROVE c \in allocated
    BY DEF NoneFreeBelow
  <2>1. NoneFreeBelow(m_bitmapStart, allocated)
    BY DEF NoneFreeBelow, XIInv, X!SearchReaches
  <2>2. CASE cluster = 0
    <3>1. c < find
      BY <1>0, <1>1, <2>2, Cluster0
    <3> QED BY <1>2, <2>1, <2>2, <3>1
  <2>3. CASE cluster # 0
    BY <1>0, <2>1, <2>3 DEF NoneFreeBelow
  <2> QED BY <2>2, <2>3
<1>7. /\ b.bits \subseteq X!Cluster /\ allocated \subseteq b.bits
      /\ b.ok => b.bits = allocated \cup Group(find, 1)
      /\ b.start \in 0 .. X!m_clusterCount - 1
      /\ ~b.ok => ioFails
      /\ b.ok /\ NoneFreeBelow(start, allocated \cup Group(find, 1)) =>
           NoneFreeBelow(b.start, b.bits)
  <2>1. Group(find, 1) \cap allocated = {}
    BY <1>3, <1>4
  <2>2. BitmapOK /\ GroupOK(find, 1) /\ b \in X!bitmapModify(find, 1, TRUE, start)
    BY <1>0, <1>1, <1>3
  <2> QED BY <1>5, <2>1, <2>2, GroupTaken, Zenon
<1>8. ~ioFails => NoneFreeBelow(b.start, b.bits)
  <2> SUFFICES ASSUME ~ioFails PROVE NoneFreeBelow(b.start, b.bits)
    OBVIOUS
  <2>1. NoneFreeBelow(start, allocated \cup Group(find, 1))
    BY <1>6 DEF NoneFreeBelow
  <2> QED BY <1>7, <2>1
<1> QED BY <1>3, <1>4, <1>7, <1>8

-----------------------------------------------------------------------------
(* addCluster().  What the entries put into the FAT make of it. *)

PutKeys(puts, k) == {puts[i][1] : i \in 1 .. k}
OnePutEach(puts, k) == \A i, j \in 1 .. k : puts[i][1] = puts[j][1] => i = j

LEMMA PutFirstIs ==
  ASSUME NEW puts, NEW k \in Nat, OnePutEach(puts, k)
  PROVE  LET f == X!PutFirst(puts, k) IN
         /\ DOMAIN f = DOMAIN fat \cup PutKeys(puts, k)
         /\ \A i \in 1 .. k : f[puts[i][1]] = puts[i][2]
         /\ \A c \in DOMAIN fat : c \notin PutKeys(puts, k) => f[c] = fat[c]
<1> DEFINE keys == PutKeys(puts, k)
           last(c) == puts[CHOOSE i \in 1 .. k : puts[i][1] = c][2]
           f == [c \in DOMAIN fat \cup keys |-> IF c \in keys THEN last(c) ELSE fat[c]]
<1>1. X!PutFirst(puts, k) = f
  BY DEF X!PutFirst, PutKeys
<1>2. ASSUME NEW i \in 1 .. k PROVE last(puts[i][1]) = puts[i][2] /\ puts[i][1] \in keys
  <2> DEFINE j == CHOOSE j \in 1 .. k : puts[j][1] = puts[i][1]
  <2>1. j \in 1 .. k /\ puts[j][1] = puts[i][1]
    OBVIOUS
  <2>2. j = i
    BY <2>1 DEF OnePutEach
  <2> QED BY <2>2 DEF PutKeys
<1> HIDE DEF keys, last
<1>3. /\ DOMAIN f = DOMAIN fat \cup keys
      /\ \A i \in 1 .. k : f[puts[i][1]] = puts[i][2]
      /\ \A c \in DOMAIN fat : c \notin keys => f[c] = fat[c]
  BY <1>2
<1> QED BY <1>1, <1>3, Zenon DEF keys

(* With entries of the volume the FAT stays one, however far they are put. *)
LEMMA PutTyped ==
  ASSUME FatOK, NEW puts, NEW k \in Nat,
         \A i \in 1 .. k : puts[i][1] \in X!Cluster /\ puts[i][2] \in X!Cluster \cup {EOC}
  PROVE  LET f == X!PutFirst(puts, k) IN
         DOMAIN f \subseteq X!Cluster /\ \A c \in DOMAIN f : f[c] \in X!Cluster \cup {EOC}
<1> DEFINE keys == {puts[i][1] : i \in 1 .. k}
           last(c) == puts[CHOOSE i \in 1 .. k : puts[i][1] = c][2]
<1>1. X!PutFirst(puts, k) = [c \in DOMAIN fat \cup keys |-> IF c \in keys THEN last(c) ELSE fat[c]]
  BY DEF X!PutFirst
<1>2. ASSUME NEW c \in keys PROVE c \in X!Cluster /\ last(c) \in X!Cluster \cup {EOC}
  <2> DEFINE j == CHOOSE j \in 1 .. k : puts[j][1] = c
  <2>1. j \in 1 .. k /\ puts[j][1] = c
    OBVIOUS
  <2> QED BY <2>1
<1> HIDE DEF keys, last
<1> QED BY <1>1, <1>2 DEF FatOK

LEMMA TwoBehind ==
  ASSUME NEW S, NEW s \in Seq(S), NEW x \in S, NEW y \in S
  PROVE  LET t == s \o <<x, y>> IN
         /\ Len(t) = Len(s) + 2
         /\ \A i \in 1 .. Len(s) : t[i] = s[i]
         /\ t[Len(s) + 1] = x /\ t[Len(s) + 2] = y
OBVIOUS

Adding(c) ==
  /\ pc = "write" /\ left > 0 /\ X!AtCluster
  /\ m_curPosition \div X!BytesPerCluster = Len(chain)
  /\ c \in X!Cluster \ allocated

LEMMA AddFacts ==
  ASSUME X!FileAssumption, XIInv, NEW c, Adding(c)
  PROVE  /\ c \notin X!Owned /\ c \in Nat /\ c # 0
         /\ Len(chain) * X!BytesPerCluster = m_curPosition
         /\ m_curCluster = 0 => chain = <<>> /\ Len(chain) = 0
         /\ m_curCluster # 0 =>
              /\ Len(chain) \in Nat \ {0} /\ Len(chain) \in DOMAIN chain
              /\ m_curCluster = chain[Len(chain)] /\ m_firstCluster = chain[1]
              /\ m_firstCluster # 0 /\ m_firstCluster \in Nat
              /\ X!Contiguous => \A i \in DOMAIN chain : chain[i] = m_firstCluster + i - 1
              /\ ~X!Contiguous => X!Linked
<1> DEFINE p == m_curPosition
           N == Len(chain)
           B == X!BytesPerCluster
<1>1. c \notin X!Owned /\ c \in Nat /\ c # 0
  BY WriteOpen, Cluster0 DEF Adding
<1>2. p \div B = N /\ p % B = 0 /\ p \in Nat /\ N \in Nat /\ B \in Nat \ {0}
  BY TypeFacts, Cluster0 DEF Adding, X!AtCluster, X!CursorOffset
<1>3. N * B = p
  <2> HIDE DEF p, N, B
  <2>1. p % B = p - B * (p \div B)
    BY <1>2, L!DivMod
  <2>2. B * N = N * B /\ B * N \in Nat
    BY <1>2
  <2> QED BY <1>2, <2>1, <2>2
<1>4. p = 0 => m_curCluster = 0 /\ N = 0
  BY <1>2, WriteOpen, Here DEF Adding
<1>5. p # 0 => N \in DOMAIN chain /\ m_curCluster = chain[N] /\ m_curCluster # 0
  BY <1>2, WriteOpen, Here, Cluster0 DEF Adding
<1>6. m_curCluster = 0 => chain = <<>> /\ N = 0
  BY <1>4, <1>5, TypeFacts
<1>7. ASSUME m_curCluster # 0
      PROVE  /\ N \in Nat \ {0} /\ N \in DOMAIN chain
             /\ m_curCluster = chain[N] /\ m_firstCluster = chain[1]
             /\ m_firstCluster # 0 /\ m_firstCluster \in Nat
             /\ X!Contiguous => \A i \in DOMAIN chain : chain[i] = m_firstCluster + i - 1
             /\ ~X!Contiguous => X!Linked
  <2>1. N \in Nat \ {0} /\ N \in DOMAIN chain /\ m_curCluster = chain[N]
    BY <1>4, <1>5, <1>7, TypeFacts
  <2>2. chain # <<>> /\ 1 \in DOMAIN chain
    BY <2>1, TypeFacts
  <2>3. m_firstCluster = chain[1] /\ m_firstCluster \in X!Cluster
    BY <2>2, WriteOpen, TypeFacts DEF Adding, FirstOf
  <2>4. m_firstCluster # 0 /\ m_firstCluster \in Nat
    BY <2>3, Cluster0
  <2> QED BY <2>1, <2>3, <2>4, WriteOpen DEF Adding, XIInv, X!ContiguousHolds, Live
<1> QED BY <1>1, <1>3, <1>6, <1>7

(* The links of the file as far as it counted, the end, and the link to it. *)
Counted == IF X!Contiguous THEN Len(chain) - 1 ELSE 0

LEMMA PutsAre ==
  ASSUME X!FileAssumption, XIInv, NEW c, Adding(c), m_curCluster # 0,
         ~(X!Contiguous /\ c = m_curCluster + 1)
  PROVE  /\ Counted \in 0 .. Len(chain) - 1
         /\ Len(X!Puts(c)) = Counted + 2
         /\ \A i \in 1 .. Counted : X!Puts(c)[i] = <<chain[i], chain[i + 1]>>
         /\ X!Puts(c)[Counted + 1] = <<c, EOC>>
         /\ X!Puts(c)[Counted + 2] = <<chain[Len(chain)], c>>
<1> DEFINE n == Len(chain)
           f == m_firstCluster
           s == IF X!Contiguous THEN X!ChainPuts(c) ELSE <<>>
           S == Nat \X Nat
<1>1. n \in Nat \ {0}
  BY AddFacts
<1>2. m_curCluster = chain[n] /\ n \in DOMAIN chain /\ f \in Nat
  BY AddFacts
<1>3. X!Contiguous => \A i \in 1 .. n : chain[i] = f + i - 1
  BY AddFacts, TypeFacts
<1>4. Counted \in 0 .. n - 1
  BY <1>1 DEF Counted
<1>5. s \in Seq(S) /\ Len(s) = Counted
      /\ \A i \in 1 .. Counted : s[i] = <<chain[i], chain[i + 1]>>
  <2>1. CASE ~X!Contiguous
    BY <2>1 DEF Counted
  <2>2. CASE X!Contiguous
    <3>1. m_curCluster - f = n - 1
      <4>1. chain[n] = f + n - 1
        BY <1>1, <1>3, <2>2
      <4> HIDE DEF f, n
      <4> QED BY ONLY <1>1, <1>2, <4>1
    <3>2. s = [i \in 1 .. n - 1 |-> <<f + i - 1, f + i>>]
      BY <2>2, <3>1 DEF X!ChainPuts
    <3> HIDE DEF n, f, s
    <3>3. n - 1 \in Nat /\ Counted = n - 1
      BY <1>1, <2>2 DEF Counted, n
    <3>4. s \in Seq(S) /\ Len(s) = n - 1
      <4>1. \A i \in 1 .. n - 1 : <<f + i - 1, f + i>> \in S
        BY <1>1, <1>2
      <4> QED BY <3>2, <3>3, <4>1
    <3>5. ASSUME NEW i \in 1 .. n - 1 PROVE s[i] = <<chain[i], chain[i + 1]>>
      <4>1. i \in 1 .. n /\ i + 1 \in 1 .. n
        BY <1>1
      <4>2. chain[i] = f + i - 1 /\ chain[i + 1] = f + (i + 1) - 1
        BY <1>3, <2>2, <4>1
      <4>3. f + (i + 1) - 1 = f + i
        BY <1>1, <1>2
      <4> QED BY <3>2, <4>2, <4>3
    <3> QED BY <3>3, <3>4, <3>5
  <2> QED BY <2>1, <2>2
<1>6. <<c, EOC>> \in S /\ <<m_curCluster, c>> \in S
  <2>1. m_curCluster \in Nat
    BY Cluster0 DEF XIInv, X!TypeOK
  <2> QED BY <2>1, AddFacts, Cluster0
<1>7. X!Puts(c) = s \o <<<<c, EOC>>, <<m_curCluster, c>>>>
  BY DEF X!Puts, X!LinkPuts
<1> HIDE DEF s, n, S
<1>8. /\ Len(X!Puts(c)) = Len(s) + 2
      /\ \A i \in 1 .. Len(s) : X!Puts(c)[i] = s[i]
      /\ X!Puts(c)[Len(s) + 1] = <<c, EOC>> /\ X!Puts(c)[Len(s) + 2] = <<m_curCluster, c>>
  BY <1>5, <1>6, <1>7, TwoBehind
<1> QED BY <1>2, <1>4, <1>5, <1>8 DEF n

LEMMA PutsTyped ==
  ASSUME X!FileAssumption, XIInv, NEW c, Adding(c)
  PROVE  /\ Len(X!Puts(c)) \in Nat
         /\ \A i \in 1 .. Len(X!Puts(c)) :
              X!Puts(c)[i][1] \in X!Cluster /\ X!Puts(c)[i][2] \in X!Cluster \cup {EOC}
<1>1. CASE m_curCluster = 0 \/ (X!Contiguous /\ c = m_curCluster + 1)
  <2>1. X!Puts(c) = <<>>
    BY <1>1 DEF X!Puts
  <2> QED BY <2>1
<1>2. CASE ~(m_curCluster = 0 \/ (X!Contiguous /\ c = m_curCluster + 1))
  <2> DEFINE n == Len(chain)
             U == X!Puts(c)
             m == Counted
  <2>1. /\ m \in 0 .. n - 1 /\ Len(U) = m + 2
        /\ \A i \in 1 .. m : U[i] = <<chain[i], chain[i + 1]>>
        /\ U[m + 1] = <<c, EOC>> /\ U[m + 2] = <<chain[n], c>>
    BY <1>2, PutsAre
  <2>2. n \in Nat \ {0} /\ \A i \in 1 .. n : chain[i] \in X!Cluster
    BY <1>2, AddFacts, TypeFacts
  <2>3. c \in X!Cluster
    BY DEF Adding
  <2> HIDE DEF n, U, m
  <2>4. ASSUME NEW i \in 1 .. m + 2 PROVE U[i][1] \in X!Cluster /\ U[i][2] \in X!Cluster \cup {EOC}
    <3>1. CASE i \in 1 .. m
      <4>1. i \in 1 .. n /\ i + 1 \in 1 .. n
        BY <2>1, <2>2, <3>1
      <4> QED BY <2>1, <2>2, <3>1, <4>1
    <3>2. CASE i = m + 1
      BY <2>1, <2>3, <3>2
    <3>3. CASE i = m + 2
      <4>1. n \in 1 .. n
        BY <2>2
      <4> QED BY <2>1, <2>2, <2>3, <3>3, <4>1
    <3> QED BY <2>1, <2>2, <3>1, <3>2, <3>3
  <2>5. m + 2 \in Nat
    BY <2>1, <2>2
  <2> QED BY <2>1, <2>4, <2>5 DEF U
<1> QED BY <1>1, <1>2

(* A file that counted and a file that had its links have them all then.   *)
LEMMA LinkedBehind ==
  ASSUME X!FileAssumption, XIInv, NEW c, Adding(c), m_curCluster # 0,
         ~(X!Contiguous /\ c = m_curCluster + 1),
         chain' = Append(chain, c), fat' = X!PutFirst(X!Puts(c), Len(X!Puts(c)))
  PROVE  X!Linked'
<1> DEFINE n == Len(chain)
           U == X!Puts(c)
           m == Counted
           keys == {U[i][1] : i \in 1 .. m + 2}
<1>1. /\ m \in 0 .. n - 1 /\ Len(U) = m + 2
      /\ \A i \in 1 .. m : U[i] = <<chain[i], chain[i + 1]>>
      /\ U[m + 1] = <<c, EOC>> /\ U[m + 2] = <<chain[n], c>>
  BY PutsAre
<1>2. n \in Nat \ {0} /\ DOMAIN chain = 1 .. n
  BY AddFacts, TypeFacts
<1>3. \A i \in 1 .. n : chain[i] # c
  BY AddFacts, TypeFacts DEF X!Owned
<1>4. \A i, j \in 1 .. n : chain[i] = chain[j] => i = j
  BY TypeFacts DEF Distinct
<1>5. ~X!Contiguous => X!Linked /\ m = 0
  BY AddFacts DEF Counted
<1>6. X!Contiguous => m = n - 1
  BY DEF Counted
<1>7. DOMAIN chain' = 1 .. n + 1 /\ Len(chain') = n + 1 /\ chain'[n + 1] = c
      /\ \A i \in 1 .. n : chain'[i] = chain[i]
  BY TypeFacts, <1>2
<1> HIDE DEF n, U, m
<1>8. ASSUME NEW i \in 1 .. m + 2, NEW j \in 1 .. m + 2, U[i][1] = U[j][1] PROVE i = j
  <2>1. \A x \in 1 .. m : x \in 1 .. n /\ U[x][1] = chain[x]
    BY <1>1, <1>2
  <2>2. U[m + 1][1] = c /\ U[m + 2][1] = chain[n] /\ n \in 1 .. n /\ m < n
    BY <1>1, <1>2
  <2>3. i \in 1 .. m \/ i = m + 1 \/ i = m + 2
    BY <1>1, <1>2
  <2>4. j \in 1 .. m \/ j = m + 1 \/ j = m + 2
    BY <1>1, <1>2
  <2>5. n \notin 1 .. m
    BY <1>1, <1>2
  <2> QED BY <1>3, <1>4, <1>8, <2>1, <2>2, <2>3, <2>4, <2>5
<1>9. m + 2 \in Nat /\ fat' = X!PutFirst(U, m + 2)
  BY <1>1, <1>2 DEF U
<1>10. /\ DOMAIN fat' = DOMAIN fat \cup keys
       /\ \A i \in 1 .. m + 2 : fat'[U[i][1]] = U[i][2]
       /\ \A x \in DOMAIN fat : x \notin keys => fat'[x] = fat[x]
  <2>1. OnePutEach(U, m + 2)
    BY <1>8 DEF OnePutEach
  <2>2. /\ DOMAIN X!PutFirst(U, m + 2) = DOMAIN fat \cup PutKeys(U, m + 2)
        /\ \A i \in 1 .. m + 2 : X!PutFirst(U, m + 2)[U[i][1]] = U[i][2]
        /\ \A x \in DOMAIN fat :
             x \notin PutKeys(U, m + 2) => X!PutFirst(U, m + 2)[x] = fat[x]
    BY <1>9, <2>1, PutFirstIs, Zenon
  <2> QED BY <1>9, <2>2 DEF PutKeys
<1>11. m + 1 \in 1 .. m + 2 /\ m + 2 \in 1 .. m + 2 /\ \A i \in 1 .. m : i \in 1 .. m + 2
  BY <1>1, <1>2
<1>12. c \in DOMAIN fat' /\ fat'[c] = EOC /\ chain[n] \in DOMAIN fat' /\ fat'[chain[n]] = c
  <2>1. ASSUME NEW i \in 1 .. m + 2, NEW x, NEW y, U[i] = <<x, y>>
        PROVE  x \in DOMAIN fat' /\ fat'[x] = y
    <3>1. U[i][1] = x /\ U[i][2] = y
      BY <2>1
    <3>2. x \in keys
      BY <3>1
    <3>3. fat'[U[i][1]] = U[i][2]
      BY <1>10
    <3> QED BY <1>10, <3>1, <3>2, <3>3
  <2> QED BY <1>1, <1>11, <2>1
<1>13. ASSUME NEW i \in 1 .. n - 1
       PROVE  chain[i] \in DOMAIN fat' /\ fat'[chain[i]] = chain[i + 1]
  <2>1. CASE X!Contiguous
    <3>1. i \in 1 .. m
      BY <1>6, <2>1
    <3>2. i \in 1 .. m + 2 /\ U[i][1] = chain[i] /\ U[i][2] = chain[i + 1]
      BY <1>1, <1>11, <3>1
    <3>3. chain[i] \in keys
      BY <3>2
    <3>4. fat'[U[i][1]] = U[i][2]
      BY <1>10, <3>2
    <3> QED BY <1>10, <3>2, <3>3, <3>4
  <2>2. CASE ~X!Contiguous
    <3>1. i \in 1 .. n /\ i # n /\ n \in 1 .. n
      BY <1>2
    <3>2. chain[i] \in DOMAIN fat /\ fat[chain[i]] = chain[i + 1]
      BY <1>2, <1>5, <2>2, <3>1 DEF X!Linked, n
    <3>3. keys = {c, chain[n]}
      <4>1. m = 0
        BY <1>5, <2>2
      <4>2. \A x \in 1 .. m + 2 : x = 1 \/ x = 2
        BY <4>1
      <4>3. U[1] = <<c, EOC>> /\ U[2] = <<chain[n], c>> /\ 1 \in 1 .. m + 2 /\ 2 \in 1 .. m + 2
        BY <1>1, <4>1
      <4> QED BY <4>2, <4>3
    <3>4. chain[i] \notin keys
      BY <1>3, <1>4, <3>1, <3>3
    <3> HIDE DEF keys
    <3> QED BY <1>10, <3>2, <3>4
  <2> QED BY <2>1, <2>2
<1> SUFFICES ASSUME NEW i \in 1 .. n + 1
             PROVE  /\ chain'[i] \in DOMAIN fat'
                    /\ fat'[chain'[i]] = IF i = n + 1 THEN EOC ELSE chain'[i + 1]
  BY <1>7, Zenon DEF X!Linked
<1>14. CASE i = n + 1
  BY <1>7, <1>12, <1>14
<1>15. CASE i = n
  <2>1. i # n + 1 /\ n \in 1 .. n
    BY <1>2, <1>15
  <2> QED BY <1>7, <1>12, <1>15, <2>1
<1>16. CASE i \in 1 .. n - 1
  <2>1. i # n + 1 /\ i \in 1 .. n /\ i + 1 \in 1 .. n
    BY <1>2, <1>16
  <2> QED BY <1>7, <1>13, <1>16, <2>1
<1> QED BY <1>2, <1>14, <1>15, <1>16

(* A cluster behind the last: the file goes on in it. *)
LEMMA AddedIInv ==
  ASSUME X!FileAssumption, XIInv, NEW c, Adding(c),
         allocated' = allocated \cup {c}, m_bitmapStart' \in 0 .. X!m_clusterCount - 1,
         X!SearchReaches', m_flags' = X!AddFlags(c), fat' = X!PutFirst(X!Puts(c), Len(X!Puts(c))),
         m_curCluster' = c,
         m_firstCluster' = IF m_curCluster = 0 THEN c ELSE m_firstCluster,
         chain' = Append(chain, c), pc' = "write_io",
         UNCHANGED <<ioFails, open, m_curPosition, X!lengths, entry, left, toFill, others, X!data>>
  PROVE  XIInv'
<1> DEFINE N == Len(chain)
           B == X!BytesPerCluster
           p == m_curPosition
<1> USE DEF X!lengths, X!data
<1>1. /\ c \notin X!Owned /\ c \in Nat /\ c # 0 /\ N * B = p /\ c \in X!Cluster
      /\ pc = "write" /\ left > 0 /\ p \div B = N
  BY AddFacts DEF Adding
<1>2. /\ N \in Nat /\ Len(chain') = N + 1 /\ DOMAIN chain' = 1 .. N + 1 /\ chain'[N + 1] = c
      /\ chain' \in Seq(X!Cluster)
      /\ \A i \in 1 .. N : chain'[i] = chain[i] /\ i \in DOMAIN chain /\ i \in DOMAIN chain'
      /\ DOMAIN chain = 1 .. N
  BY SMTT(30), <1>1, TypeFacts
<1>3. N * B \in Nat /\ (N + 1) * B \in Nat /\ N * B < (N + 1) * B
  <2>1. B \in Nat \ {0}
    BY Cluster0
  <2> HIDE DEF N, B
  <2>2. (N + 1) * B = N * B + B /\ N * B \in Nat
    BY <1>2, <2>1
  <2> QED BY <2>1, <2>2
<1>4. /\ open /\ Writing /\ Live /\ p <= m_validLength /\ m_validLength <= N * B
      /\ m_dataLength <= N * B /\ entry.valid <= m_validLength
      /\ others \subseteq allocated /\ X!Owned \subseteq allocated /\ X!Owned \cap others = {}
      /\ p \in Nat /\ m_validLength \in Nat /\ m_dataLength \in Nat
      /\ entry.valid \in Nat /\ byte \in Nat
  BY <1>1, WriteOpen, TypeFacts
<1>5. m_flags' \subseteq X!Flags
  BY DEF X!AddFlags, XIInv, X!TypeOK, X!Flags
<1>6. X!TypeOK'
  <2>1. FatOK
    BY DEF XIInv, X!TypeOK, FatOK
  <2>2. DOMAIN fat' \subseteq X!Cluster /\ \A x \in DOMAIN fat' : fat'[x] \in X!Cluster \cup {EOC}
    BY <2>1, PutsTyped, PutTyped
  <2>3. allocated' \subseteq X!Cluster
    BY <1>1 DEF XIInv, X!TypeOK
  <2> HIDE DEF N, B, p
  <2> QED BY <1>1, <1>2, <1>5, <2>2, <2>3 DEF XIInv, X!TypeOK
<1>7. Calls'
  BY <1>1, <1>4 DEF Calls, InTransferStep
<1>8. Distinct'
  <2>1. \A i \in 1 .. N : chain'[i] # c
    BY <1>1, <1>2 DEF X!Owned
  <2> SUFFICES ASSUME NEW i \in 1 .. N + 1, NEW j \in 1 .. N + 1, chain'[i] = chain'[j]
               PROVE  i = j
    BY <1>2 DEF Distinct
  <2> HIDE DEF N
  <2>2. (i \in 1 .. N \/ i = N + 1) /\ (j \in 1 .. N \/ j = N + 1)
    BY <1>2
  <2> QED BY <1>2, <2>1, <2>2, TypeFacts DEF Distinct
<1>9. m_firstCluster' = FirstOf(chain)'
  <2>1. chain' # <<>> /\ FirstOf(chain)' = chain'[1]
    BY <1>2 DEF FirstOf
  <2>2. CASE m_curCluster = 0
    <3>1. N = 0
      BY <2>2, AddFacts
    <3> QED BY <1>2, <2>1, <2>2, <3>1
  <2>3. CASE m_curCluster # 0
    <3>1. m_firstCluster = chain[1] /\ N \in Nat \ {0}
      BY <2>3, AddFacts
    <3>2. chain'[1] = chain[1]
      BY <1>2, <3>1
    <3> QED BY <2>1, <2>3, <3>1, <3>2
  <2> QED BY <2>2, <2>3
<1>10. CursorOK'
  <2>1. p < (N + 1) * B
    BY <1>1, <1>3
  <2>2. X!RightCluster'
    BY <1>1, <1>2, <2>1 DEF X!RightCluster
  <2> QED BY <2>2 DEF CursorOK
<1>11. LengthsOK'
  <2> HIDE DEF N, B, p
  <2>1. m_validLength <= (N + 1) * B /\ m_dataLength <= (N + 1) * B
    BY <1>3, <1>4
  <2>2. Len(chain') * X!BytesPerCluster = (N + 1) * B
    BY <1>2 DEF B
  <2>3. /\ m_validLength <= m_dataLength \/ m_validLength = m_curPosition
        /\ toFill > 0 => m_curPosition = m_validLength
    BY <1>4 DEF XIInv, LengthsOK
  <2> QED BY <1>4, <2>1, <2>2, <2>3 DEF LengthsOK, Settled, p
<1>12. CountOK'
  <2>1. X!ClusterCount(m_dataLength) \in Nat /\ X!ClusterCount(m_dataLength) <= N
    BY <1>2, <1>4, CountBound
  <2>2. X!ClusterCount(m_dataLength)' = X!ClusterCount(m_dataLength)
    BY DEF X!ClusterCount, X!Index
  <2>3. InLast'
    BY <1>1, <1>2 DEF InLast
  <2> HIDE DEF N, InLast
  <2>4. X!ClusterCount(m_dataLength)' <= Len(chain')
    BY <1>2, <2>1, <2>2
  <2> QED BY <2>3, <2>4 DEF CountOK, Settled
<1>13. EntryOK'
  <2>1. m_curPosition' >= m_validLength'
    BY <1>1, <1>4
  <2> QED BY <1>4, <2>1 DEF EntryOK, Settled
<1>14. ContentsOK'
  <2>1. ASSUME byte < N * B PROVE X!ByteAt' = X!ByteAt /\ InChain(byte) /\ InChain(byte)'
    <3> DEFINE q == byte \div B
    <3>1. q \in Nat /\ q < N
      <4>1. q \in Nat
        BY <1>4, Cluster0, L!DivMod
      <4> QED BY <1>2, <1>4, <2>1, <4>1, Cluster0, L!Mono
    <3>2. chain'[q + 1] = chain[q + 1]
      <4>1. q + 1 \in 1 .. N
        BY <1>2, <3>1
      <4> QED BY <1>2, <4>1
    <3>3. InChain(byte) /\ InChain(byte)'
      BY <1>2, <1>3, <1>4, <2>1 DEF InChain
    <3> QED BY <3>2, <3>3 DEF X!ByteAt
  <2>2. X!WrittenInPlace'
    BY <1>4, <2>1 DEF XIInv, ContentsOK, X!WrittenInPlace, InChain
  <2>3. X!NothingStale'
    <3> SUFFICES ASSUME byte < m_validLength PROVE X!ByteAt' \in own
      BY DEF X!NothingStale
    <3>1. byte < N * B
      BY <1>3, <1>4
    <3> QED BY <1>4, <2>1, <3>1 DEF XIInv, ContentsOK, X!NothingStale
  <2>4. EntryStored'
    <3> SUFFICES ASSUME byte < entry.valid PROVE X!ByteAt' \in own
      BY DEF EntryStored
    <3>1. byte < N * B
      BY <1>3, <1>4
    <3> QED BY <1>4, <2>1, <3>1 DEF XIInv, ContentsOK, EntryStored
  <2> QED BY <2>2, <2>3, <2>4 DEF ContentsOK
<1>15. X!ContiguousHolds'
  <2>1. CASE m_curCluster = 0
    <3>1. N = 0 /\ m_firstCluster' = c
      BY <2>1, AddFacts
    <3>2. X!Contiguous'
      BY <2>1 DEF X!Contiguous, X!AddFlags
    <3>3. \A i \in DOMAIN chain' : chain'[i] = m_firstCluster' + i - 1
      BY <1>1, <1>2, <3>1
    <3> QED BY <3>2, <3>3 DEF X!ContiguousHolds
  <2>2. CASE m_curCluster # 0 /\ X!Contiguous /\ c = m_curCluster + 1
    <3>1. N \in Nat \ {0} /\ m_curCluster = chain[N] /\ m_firstCluster \in Nat
      BY <2>2, AddFacts
    <3>2. \A i \in 1 .. N : chain[i] = m_firstCluster + i - 1
      BY <1>2, <2>2, AddFacts
    <3>3. X!Contiguous' /\ m_firstCluster' = m_firstCluster
      BY <2>2 DEF X!Contiguous, X!AddFlags
    <3> HIDE DEF N
    <3>4. c = m_firstCluster + N
      <4>1. chain[N] = m_firstCluster + N - 1
        BY <3>1, <3>2
      <4> QED BY <2>2, <3>1, <4>1
    <3>5. ASSUME NEW i \in 1 .. N + 1 PROVE chain'[i] = m_firstCluster + i - 1
      <4>1. CASE i \in 1 .. N
        BY <1>2, <3>2, <4>1
      <4>2. CASE i = N + 1
        <5>1. chain'[i] = m_firstCluster + N
          BY <1>2, <3>4, <4>2
        <5>2. m_firstCluster + N = m_firstCluster + i - 1
          BY <3>1, <4>2
        <5> QED BY <5>1, <5>2
      <4>3. N \in Nat
        BY <3>1
      <4>4. i \in 1 .. N \/ i = N + 1
        BY <4>3
      <4> QED BY <4>1, <4>2, <4>4
    <3> QED BY <1>2, <3>3, <3>5 DEF X!ContiguousHolds
  <2>3. CASE m_curCluster # 0 /\ ~(X!Contiguous /\ c = m_curCluster + 1)
    <3>1. X!Linked'
      BY <2>3, LinkedBehind
    <3>2. ~X!Contiguous'
      BY <2>3 DEF X!Contiguous, X!AddFlags
    <3> QED BY <3>1, <3>2 DEF X!ContiguousHolds
  <2> QED BY <2>1, <2>2, <2>3
<1>16. X!NoClusterShared'
  <2>1. X!Owned' \subseteq X!Owned \cup {c}
    <3> SUFFICES ASSUME NEW i \in 1 .. N + 1 PROVE chain'[i] \in X!Owned \cup {c}
      BY <1>2 DEF X!Owned
    <3>1. i \in 1 .. N \/ i = N + 1
      BY <1>2
    <3> QED BY <1>2, <3>1 DEF X!Owned
  <2>2. c \notin allocated
    BY DEF Adding
  <2> QED BY <1>4, <2>1, <2>2 DEF X!NoClusterShared
<1> QED BY <1>6, <1>7, <1>8, <1>9, <1>10, <1>11, <1>12, <1>13, <1>14, <1>15, <1>16
        DEF XIInv, ChainOK

(* The bit may be set, and some entries put, when the call fails. *)
LEMMA AddFailed ==
  ASSUME X!FileAssumption, ~Retries, XIInv, pc = "write", X!Fail,
         allocated \subseteq allocated', allocated' \subseteq X!Cluster,
         m_bitmapStart' \in 0 .. X!m_clusterCount - 1, X!SearchReaches',
         m_flags' \subseteq X!Flags, FatOK',
         UNCHANGED <<ioFails, open, X!cursor, X!lengths, m_firstCluster, entry, chain, others, X!data>>
  PROVE  XIInv'
<1> USE DEF X!cursor, X!lengths, X!data
<1>1. pc' = "close" /\ left' = 0 /\ toFill' = 0
  BY DEF X!Fail, X!AfterFailure
<1>2. 0 \in X!Position /\ 0 \in 0 .. XMaxTransfer
  BY SMTT(30), TypeFacts DEF X!FileAssumption
<1>3. X!TypeOK'
  BY <1>1, <1>2 DEF XIInv, X!TypeOK, FatOK
<1>4. open /\ others \subseteq allocated
  BY WriteOpen
<1>5. ContentsOK' /\ Distinct'
  BY <1>4, ContentsKept DEF XIInv, ChainOK, Distinct
<1> QED BY <1>1, <1>3, <1>4, <1>5, GivenUpIInv

(* addCluster at the end of the chain. *)
LEMMA AddClusterStep ==
  ASSUME X!FileAssumption, ~Retries, XIInv, pc = "write", left > 0, X!AtCluster,
         m_curPosition \div X!BytesPerCluster = Len(chain), X!addCluster,
         UNCHANGED <<ioFails, open, m_curPosition, X!lengths, entry, others, X!data>>
  PROVE  XIInv'
<1> DEFINE cluster == IF m_curCluster = 0 THEN 0 ELSE m_curCluster + 1
           find == X!bitmapFind(cluster, 1)
           start == IF m_curCluster = 0 THEN find - 2 ELSE m_bitmapStart
<1>1. /\ Live /\ open /\ others \subseteq allocated
      /\ m_curPosition \in X!Position /\ m_curCluster \in X!Cluster \cup {0}
  BY WriteOpen
<1>2. cluster \in Nat \ {1} /\ (cluster = 0 <=> m_curCluster = 0)
  BY <1>1, Cluster0
<1>3. FatOK /\ m_flags \subseteq X!Flags
  BY DEF XIInv, X!TypeOK, FatOK
<1>4. CASE /\ find = X!Never /\ pc' = "hung"
           /\ UNCHANGED <<m_curCluster, m_flags, m_firstCluster, chain, X!bitmap, fat, left, toFill>>
  <2> HIDE DEF find
  <2> QED BY <1>1, <1>4, HungIInv DEF X!cursor
<1>5. CASE /\ find = 1 \/ ioFails
           /\ X!Fail
           /\ UNCHANGED <<m_curCluster, m_flags, m_firstCluster, chain, X!bitmap, fat>>
  <2> HIDE DEF find
  <2>1. pc' = "close" /\ left' = 0 /\ toFill' = 0
    BY <1>5 DEF X!Fail, X!AfterFailure
  <2>2. FileKept /\ m_curPosition' \in X!Position /\ m_curCluster' \in X!Cluster \cup {0}
    BY <1>1, <1>5 DEF FileKept
  <2> QED BY <1>1, <2>1, <2>2, CallFailed
<1>6. ASSUME find \in X!Cluster, NEW b \in X!bitmapModify(find, 1, TRUE, start),
             allocated' = b.bits, m_bitmapStart' = b.start,
             \/ /\ ~b.ok /\ X!Fail
                /\ UNCHANGED <<m_curCluster, m_flags, m_firstCluster, chain, fat>>
             \/ /\ b.ok /\ m_flags' = X!AddFlags(find)
                /\ fat' = X!PutFirst(X!Puts(find), Len(X!Puts(find)))
                /\ m_curCluster' = find
                /\ m_firstCluster' = IF m_curCluster = 0 THEN find ELSE m_firstCluster
                /\ chain' = Append(chain, find)
                /\ pc' = "write_io" /\ UNCHANGED <<left, toFill>>
             \/ /\ b.ok /\ ioFails /\ m_flags' = X!AddFlags(find)
                /\ \E k \in 0 .. Len(X!Puts(find)) - 1 : fat' = X!PutFirst(X!Puts(find), k)
                /\ X!Fail /\ UNCHANGED <<m_curCluster, m_firstCluster, chain>>
      PROVE  XIInv'
  <2>1. /\ find \notin allocated
        /\ b.bits \subseteq X!Cluster /\ allocated \subseteq b.bits
        /\ b.ok => b.bits = allocated \cup {find}
        /\ b.start \in 0 .. X!m_clusterCount - 1
        /\ ~ioFails => NoneFreeBelow(b.start, b.bits)
    <3>1. Taking(cluster, find, b)
      BY <1>2, <1>6 DEF Taking, TakeStart
    <3> HIDE DEF cluster, find
    <3> QED BY <1>2, <3>1, ClusterTaken
  <2> HIDE DEF find, start
  <2>2. Adding(find)
    BY <1>6, <2>1 DEF Adding
  <2>3. X!SearchReaches'
    BY <1>6, <2>1 DEF X!SearchReaches, NoneFreeBelow
  <2>4. X!AddFlags(find) \subseteq X!Flags
    BY <1>3 DEF X!AddFlags, X!Flags
  <2>5. CASE ~b.ok /\ X!Fail /\ UNCHANGED <<m_curCluster, m_flags, m_firstCluster, chain, fat>>
    <3>1. FatOK' /\ m_flags' \subseteq X!Flags
      BY <1>3, <2>5 DEF FatOK
    <3> QED BY <1>6, <2>1, <2>3, <2>5, <3>1, AddFailed DEF X!cursor
  <2>6. CASE /\ b.ok /\ m_flags' = X!AddFlags(find)
             /\ fat' = X!PutFirst(X!Puts(find), Len(X!Puts(find)))
             /\ m_curCluster' = find
             /\ m_firstCluster' = IF m_curCluster = 0 THEN find ELSE m_firstCluster
             /\ chain' = Append(chain, find)
             /\ pc' = "write_io" /\ UNCHANGED <<left, toFill>>
    <3>1. allocated' = allocated \cup {find} /\ m_bitmapStart' \in 0 .. X!m_clusterCount - 1
      BY <1>6, <2>1, <2>6
    <3> QED BY <2>2, <2>3, <2>6, <3>1, AddedIInv
  <2>7. CASE /\ b.ok /\ ioFails /\ m_flags' = X!AddFlags(find)
             /\ \E k \in 0 .. Len(X!Puts(find)) - 1 : fat' = X!PutFirst(X!Puts(find), k)
             /\ X!Fail /\ UNCHANGED <<m_curCluster, m_firstCluster, chain>>
    <3>1. PICK k \in 0 .. Len(X!Puts(find)) - 1 : fat' = X!PutFirst(X!Puts(find), k)
      BY <2>7
    <3>2. /\ Len(X!Puts(find)) \in Nat
          /\ \A i \in 1 .. Len(X!Puts(find)) :
               X!Puts(find)[i][1] \in X!Cluster /\ X!Puts(find)[i][2] \in X!Cluster \cup {EOC}
      BY <2>2, PutsTyped
    <3>3. k \in Nat /\ \A i \in 1 .. k : i \in 1 .. Len(X!Puts(find))
      BY <3>2
    <3>4. FatOK'
      <4>1. /\ DOMAIN X!PutFirst(X!Puts(find), k) \subseteq X!Cluster
            /\ \A x \in DOMAIN X!PutFirst(X!Puts(find), k) :
                 X!PutFirst(X!Puts(find), k)[x] \in X!Cluster \cup {EOC}
        BY <1>3, <3>2, <3>3, PutTyped
      <4> QED BY <3>1, <4>1 DEF FatOK
    <3> QED BY <1>6, <2>1, <2>3, <2>4, <2>7, <3>4, AddFailed DEF X!cursor
  <2> QED BY <1>6, <2>5, <2>6, <2>7
<1> QED BY <1>4, <1>5, <1>6 DEF X!addCluster

LEMMA Below ==
  ASSUME NEW n \in Nat, NEW q \in 1 .. n, q # n
  PROVE  q < n /\ q + 1 \in 1 .. n
OBVIOUS

LEMMA WriteClusterStep == ASSUME X!FileAssumption, ~Retries, XIInv, X!WriteCluster PROVE XIInv'
<1> DEFINE q == m_curPosition \div X!BytesPerCluster
<1>1. /\ pc = "write" /\ left > 0
      /\ UNCHANGED <<ioFails, open, m_curPosition, X!lengths, entry, others, X!data>>
  BY DEF X!WriteCluster
<1>2. /\ open /\ Live /\ m_firstCluster = FirstOf(chain) /\ m_curPosition \in Nat
      /\ m_curPosition \in X!Position /\ m_curCluster \in X!Cluster \cup {0}
  BY <1>1, WriteOpen, TypeFacts
<1>3. /\ q \in Nat
      /\ ~X!AtCluster => q + 1 \in DOMAIN chain /\ m_curCluster = chain[q + 1]
      /\ X!AtCluster /\ m_curPosition # 0 => q \in DOMAIN chain /\ m_curCluster = chain[q]
      /\ m_curPosition = 0 => X!AtCluster /\ q = 0 /\ m_curCluster = 0
      /\ m_curPosition # 0 => m_curCluster \in X!Cluster
      /\ m_curPosition < Len(chain) * X!BytesPerCluster <=> q < Len(chain)
  BY <1>1, <1>2, Here
<1>4. m_curPosition = 0 <=> m_curCluster = 0
  BY <1>3, Cluster0
<1>5. Len(chain) \in Nat /\ DOMAIN chain = 1 .. Len(chain)
  BY TypeFacts
<1>6. ASSUME X!AtCluster, m_curPosition # 0, X!Contiguous
      PROVE  /\ q <= Len(chain)
             /\ m_firstCluster # 0
             /\ X!NextNumber => q < Len(chain)
             /\ ~X!NextNumber => q = Len(chain)
  <2>1. q \in 1 .. Len(chain) /\ m_curCluster = chain[q]
    BY <1>3, <1>5, <1>6
  <2>2. m_firstCluster # 0 /\ m_firstCluster \in Nat
    <3>1. Len(chain) # 0
      BY <1>5, <2>1
    <3> QED BY <1>2, <3>1, OwnedFacts, Cluster0 DEF XIInv, X!TypeOK
  <2>3. m_curCluster = m_firstCluster + q - 1
    <3>1. \A i \in DOMAIN chain : chain[i] = m_firstCluster + i - 1
      BY <1>2, <1>6, <2>2 DEF XIInv, X!ContiguousHolds, Live
    <3> QED BY <1>5, <2>1, <3>1
  <2> DEFINE d == X!ClusterCount(m_dataLength)
  <2>4. d \in Nat /\ d <= Len(chain)
        /\ (Len(chain) = d \/ X!Index(m_curPosition) + 1 = Len(chain))
    <3>1. d \in Nat
      BY TypeFacts, CountBound
    <3>2. d <= Len(chain) /\ (Len(chain) = d \/ InLast)
      BY <1>1, <1>2, <1>6, <2>2 DEF XIInv, CountOK, Writing
    <3>3. InLast => X!Index(m_curPosition) + 1 = Len(chain)
      BY <1>1 DEF InLast
    <3> QED BY <3>1, <3>2, <3>3
  <2>5. X!Index(m_curPosition) + 1 = q
    BY <1>2, <1>6, PositionIndex DEF X!AtCluster, X!CursorOffset
  <2>6. X!NextNumber <=> m_curCluster < m_firstCluster + d - 1
    BY <1>6 DEF X!NextNumber, X!LastCluster
  <2> HIDE DEF d, q
  <2>7. X!NextNumber <=> q < d
    <3>1. q \in Nat
      BY <1>3
    <3>2. d \in Nat
      BY SMTT(30), <2>4
    <3> QED BY ONLY <2>2, <2>3, <2>6, <3>1, <3>2
  <2> DEFINE n == Len(chain)
  <2>8. n \in Nat /\ q \in 1 .. n /\ d \in Nat /\ d <= n /\ (n = d \/ q = n)
    BY <1>5, <2>1, <2>4, <2>5
  <2> HIDE DEF n
  <2>9. q <= n /\ (X!NextNumber => q < n) /\ (~X!NextNumber => q = n)
    BY ONLY <2>7, <2>8
  <2> QED BY <2>2, <2>9 DEF n
<1>7. CASE /\ ~X!AtCluster /\ pc' = "write_io"
           /\ UNCHANGED <<m_curCluster, m_flags, m_firstCluster, chain, X!bitmap, fat, left, toFill>>
  <2>1. q < Len(chain)
    BY <1>3, <1>5, <1>7
  <2> QED BY <1>1, <1>3, <1>7, <2>1, WriteMoved DEF FileKept
<1>8. CASE /\ X!AtCluster
           /\ m_curCluster' \in X!NextClusters \ {EOC}
           /\ pc' = "write_io"
           /\ UNCHANGED <<m_flags, m_firstCluster, chain, X!bitmap, fat, left, toFill>>
  <2>1. q < Len(chain) /\ m_curCluster' = chain[q + 1]
    <3>1. CASE m_curPosition = 0
      <4>1. m_firstCluster # 0 /\ m_curCluster' = m_firstCluster
        BY <1>4, <1>8, <3>1 DEF X!NextClusters
      <4>2. Len(chain) # 0 /\ m_firstCluster = chain[1]
        BY <1>2, <4>1, OwnedFacts DEF FirstOf
      <4>3. q = 0
        BY <1>3, <3>1
      <4> QED BY <1>5, <4>1, <4>2, <4>3
    <3>2. CASE m_curPosition # 0 /\ X!Contiguous
      <4>1. X!NextNumber /\ m_curCluster' = m_curCluster + 1
        BY <1>4, <1>8, <3>2 DEF X!NextClusters
      <4>2. q < Len(chain)
        BY <1>6, <1>8, <3>2, <4>1
      <4>3. chain[q + 1] = m_curCluster + 1
        BY <1>1, <1>2, <1>8, <3>2, <4>2, NextIs
      <4> QED BY <4>1, <4>2, <4>3
    <3>3. CASE m_curPosition # 0 /\ ~X!Contiguous
      <4>1. X!FatValues(m_curCluster) = {IF q = Len(chain) THEN EOC ELSE chain[q + 1]}
        BY <1>1, <1>2, <1>8, <3>3, NextIs
      <4>2. X!NextClusters = X!FatValues(m_curCluster)
        BY <1>4, <3>3 DEF X!NextClusters, X!NextNumber
      <4>3. q # Len(chain) /\ m_curCluster' = chain[q + 1]
        BY <1>8, <4>1, <4>2
      <4>4. q \in 1 .. Len(chain)
        BY SMTT(30), <1>3, <1>5, <1>8, <3>3
      <4> HIDE DEF q
      <4>5. q < Len(chain)
        BY <1>5, <4>3, <4>4, Below
      <4> QED BY <4>3, <4>5
    <3> QED BY <3>1, <3>2, <3>3
  <2>2. m_curPosition < Len(chain) * X!BytesPerCluster
    BY <1>3, <2>1
  <2> QED BY <1>1, <1>8, <2>1, <2>2, WriteMoved DEF FileKept
<1>9. CASE X!AtCluster /\ EOC \in X!NextClusters /\ X!addCluster
  <2>1. q = Len(chain)
    <3>1. CASE m_curPosition = 0
      <4>1. m_firstCluster = 0
        <5>1. m_firstCluster # EOC
          BY Cluster0 DEF XIInv, X!TypeOK
        <5> QED BY <1>4, <1>9, <3>1, <5>1 DEF X!NextClusters
      <4> QED BY <1>2, <1>3, <1>5, <3>1, <4>1, OwnedFacts
    <3>2. CASE m_curPosition # 0 /\ X!Contiguous
      <4>1. X!NextNumber => X!NextClusters = {m_curCluster + 1}
        BY <1>4, <3>2 DEF X!NextClusters
      <4>2. X!NextNumber => m_curCluster + 1 # EOC
        <5> SUFFICES ASSUME X!NextNumber PROVE m_curCluster + 1 # EOC
          OBVIOUS
        <5>1. q < Len(chain)
          BY <1>6, <1>9, <3>2
        <5>2. chain[q + 1] = m_curCluster + 1 /\ q + 1 \in 1 .. Len(chain)
          BY <1>1, <1>2, <1>3, <1>5, <1>9, <3>2, <5>1, NextIs
        <5>3. chain[q + 1] \in X!Cluster
          BY <5>2, TypeFacts
        <5> QED BY <5>2, <5>3, Cluster0
      <4> QED BY <1>6, <1>9, <3>2, <4>1, <4>2
    <3>3. CASE m_curPosition # 0 /\ ~X!Contiguous
      <4>1. X!FatValues(m_curCluster) = {IF q = Len(chain) THEN EOC ELSE chain[q + 1]}
        BY <1>1, <1>2, <1>9, <3>3, NextIs
      <4>2. X!NextClusters = X!FatValues(m_curCluster)
        BY <1>4, <3>3 DEF X!NextClusters, X!NextNumber
      <4>3. ASSUME q # Len(chain) PROVE FALSE
        <5>1. q \in 1 .. Len(chain)
          BY SMTT(30), <1>3, <1>5, <1>9, <3>3
        <5> HIDE DEF q
        <5>2. q + 1 \in 1 .. Len(chain)
          BY <1>5, <4>3, <5>1, Below
        <5>3. chain[q + 1] \in X!Cluster
          BY <5>2, TypeFacts
        <5> QED BY <1>9, <4>1, <4>2, <4>3, <5>3, Cluster0 DEF q
      <4> QED BY <4>3
    <3> QED BY <3>1, <3>2, <3>3
  <2> QED BY <1>1, <1>9, <2>1, AddClusterStep
<1>10. CASE /\ X!AtCluster /\ ioFails /\ m_curCluster # 0 /\ ~X!Contiguous
            /\ X!Fail /\ UNCHANGED <<m_curCluster, m_flags, m_firstCluster, chain, X!bitmap, fat>>
  <2>1. pc' = "close" /\ left' = 0 /\ toFill' = 0
    BY <1>10 DEF X!Fail, X!AfterFailure
  <2> QED BY <1>1, <1>2, <1>10, <2>1, CallFailed DEF FileKept
<1> QED BY <1>7, <1>8, <1>9, <1>10 DEF X!WriteCluster

-----------------------------------------------------------------------------
(* The transfer of a write. *)

InTransfer(k) == byte \in m_curPosition .. m_curPosition + k - 1

LEMMA ChunkFits ==
  ASSUME X!FileAssumption, XIInv, pc = "write_io"
  PROVE  /\ X!Chunk \in Nat \ {0} /\ X!CursorOffset + X!Chunk <= X!BytesPerCluster
         /\ X!CursorOffset \in Nat
         /\ toFill > 0 => X!Chunk <= toFill
         /\ ~(toFill > 0) => X!Chunk <= left
<1>1. /\ X!WholeSectors \in 1 .. left /\ X!CursorOffset + X!WholeSectors <= X!BytesPerCluster
      /\ X!CursorOffset \in 0 .. X!BytesPerCluster - 1
      /\ \A n \in Nat \ {0} : /\ X!PartOfSector(n) \in 1 .. n
                              /\ X!CursorOffset + X!PartOfSector(n) <= X!BytesPerCluster
  BY TransferFits DEF InTransferStep
<1>2. toFill \in Nat /\ left \in Nat
  BY TypeFacts
<1>3. CASE toFill > 0
  <2>1. X!Chunk = X!PartOfSector(toFill) /\ toFill \in Nat \ {0}
    BY <1>2, <1>3 DEF X!Chunk
  <2>2. X!PartOfSector(toFill) \in 1 .. toFill
        /\ X!CursorOffset + X!PartOfSector(toFill) <= X!BytesPerCluster
    BY <1>1, <2>1
  <2> QED BY <1>1, <1>3, <2>1, <2>2
<1>4. CASE ~(toFill > 0)
  <2>1. X!Chunk = X!WholeSectors
    BY <1>4 DEF X!Chunk
  <2> QED BY <1>1, <1>2, <1>4, <2>1
<1> QED BY <1>3, <1>4

(* Whatever covers the byte's place in the cluster of the cursor covers    *)
(* the byte.                                                               *)
LEMMA AtCursorMeans ==
  ASSUME X!FileAssumption, XIInv, pc = "write_io", InChain(byte), NEW k \in Nat,
         X!ByteAt \in X!AtCursor(k)
  PROVE  InTransfer(k)
<1> DEFINE b == X!BytesPerCluster
           p == m_curPosition \div b
           q == byte \div b
<1>1. /\ chain[q + 1] = m_curCluster
      /\ byte % b \in X!CursorOffset .. X!CursorOffset + k - 1
  BY DEF X!AtCursor, X!ByteAt
<1>2. q \in Nat /\ q < Len(chain)
  <2>1. q \in Nat
    BY TypeFacts, Cluster0, L!DivMod
  <2>2. q < Len(chain)
    BY <2>1, TypeFacts, Cluster0, L!Mono DEF InChain
  <2> QED BY <2>1, <2>2
<1>3. p \in Nat /\ p + 1 \in DOMAIN chain /\ m_curCluster = chain[p + 1]
  BY ChunkFits, AfterTransfer DEF InTransferStep
<1>4. q + 1 \in DOMAIN chain
  BY <1>2, TypeFacts
<1>5. p = q
  <2>1. p + 1 = q + 1
    BY <1>1, <1>3, <1>4, TypeFacts DEF Distinct
  <2> QED BY <1>2, <1>3, <2>1
<1>6. X!CursorOffset = m_curPosition - b * p
  BY TypeFacts, Cluster0, L!DivMod DEF X!CursorOffset
<1>7. byte % b = byte - b * q
  BY TypeFacts, Cluster0, L!DivMod
<1>8. b * p \in Nat /\ b * q = b * p
  BY <1>3, <1>5, Cluster0
<1>9. byte \in Nat /\ m_curPosition \in Nat
  BY TypeFacts
<1> DEFINE x == byte % b
<1>10. x \in X!CursorOffset .. X!CursorOffset + k - 1 /\ x = byte - b * q
  BY <1>1, <1>7
<1> HIDE DEF p, q, b, x
<1> QED BY ONLY <1>6, <1>8, <1>9, <1>10, k \in Nat DEF InTransfer

(* Where a byte of the transfer is stored. *)
LEMMA InTransferMeans ==
  ASSUME X!FileAssumption, XIInv, pc = "write_io", NEW k \in Nat \ {0},
         X!CursorOffset + k <= X!BytesPerCluster, InTransfer(k)
  PROVE  InChain(byte) /\ X!ByteAtCursor(k) = {X!ByteAt}
<1> DEFINE i == byte - m_curPosition
           n == m_curPosition \div X!BytesPerCluster
<1>1. /\ n \in Nat /\ n + 1 \in DOMAIN chain /\ m_curCluster = chain[n + 1]
      /\ X!CursorOffset \in Nat
  BY ChunkFits, AfterTransfer DEF InTransferStep
<1>2. m_curPosition \in Nat /\ byte \in Nat /\ X!BytesPerCluster \in Nat \ {0}
  BY TypeFacts, Cluster0
<1>3. i \in Nat /\ X!CursorOffset + i < X!BytesPerCluster /\ byte = m_curPosition + i
  BY <1>1, <1>2 DEF InTransfer
<1>4. byte \div X!BytesPerCluster = n /\ byte % X!BytesPerCluster = X!CursorOffset + i
  <2> HIDE DEF i
  <2> QED BY <1>2, <1>3, L!SameCluster DEF X!CursorOffset
<1>5. InChain(byte)
  <2>1. n < Len(chain)
    <3> HIDE DEF n
    <3> QED BY <1>1, TypeFacts
  <2> QED BY <1>2, <1>4, <2>1, TypeFacts, L!Mono DEF InChain
<1>6. X!ByteAtCursor(k) = {<<m_curCluster, X!CursorOffset + byte - m_curPosition>>}
  BY DEF X!ByteAtCursor, InTransfer
<1>7. X!CursorOffset + byte - m_curPosition = X!CursorOffset + i
  BY <1>1, <1>2
<1> QED BY <1>1, <1>4, <1>5, <1>6, <1>7 DEF X!ByteAt

(* A sector that is reserved without reading holds no byte below the valid *)
(* length, and a transfer stores its bytes.                                *)
LEMMA OutsideKeeps ==
  ASSUME X!FileAssumption, XIInv, pc = "write_io", NEW S, NEW old \in X!Outside(S),
         InChain(byte), X!ByteAt \in S, byte < m_validLength
  PROVE  X!ByteAt \in old
<1>1. CASE old = S
  BY <1>1
<1>2. CASE X!Reserve /\ old = S \ X!AtCursor(BytesPerSector)
  <2>1. ASSUME X!ByteAt \in X!AtCursor(BytesPerSector) PROVE FALSE
    <3>1. BytesPerSector \in Nat
      BY Cluster0
    <3>2. InTransfer(BytesPerSector)
      BY <2>1, <3>1, AtCursorMeans
    <3> QED BY <1>2, <3>1, <3>2, TypeFacts DEF X!Reserve, InTransfer
  <2> QED BY <1>2, <2>1
<1> QED BY <1>1, <1>2 DEF X!Outside

LEMMA StoredKeeps ==
  ASSUME X!FileAssumption, XIInv, pc = "write_io", NEW old,
         InTransfer(X!Chunk) \/ (InChain(byte) /\ X!ByteAt \in old)
  PROVE  InChain(byte) /\ X!ByteAt \in X!Stored(old, X!Chunk)
<1>1. CASE InTransfer(X!Chunk)
  BY <1>1, ChunkFits, InTransferMeans DEF X!Stored
<1>2. CASE ~InTransfer(X!Chunk)
  <2>1. X!ByteAt \notin X!AtCursor(X!Chunk)
    BY <1>2, ChunkFits, AtCursorMeans
  <2> QED BY <1>2, <2>1 DEF X!Stored
<1> QED BY <1>1, <1>2

LEMMA StoredTyped ==
  ASSUME X!FileAssumption, XIInv, pc = "write_io", NEW S, S \subseteq X!Cluster \X X!Offset
  PROVE  /\ X!Stored(S, X!Chunk) \subseteq X!Cluster \X X!Offset
         /\ \A old \in X!Outside(S) : old \subseteq X!Cluster \X X!Offset
<1>1. \A old \in X!Outside(S) : old \subseteq X!Cluster \X X!Offset
  BY DEF X!Outside
<1>2. X!ByteAtCursor(X!Chunk) \subseteq X!Cluster \X X!Offset
  <2>1. CASE InTransfer(X!Chunk)
    <3>1. X!ByteAtCursor(X!Chunk) = {X!ByteAt} /\ InChain(byte)
      BY <2>1, ChunkFits, InTransferMeans
    <3>2. X!ByteAt \in X!Cluster \X X!Offset
      <4> DEFINE q == byte \div X!BytesPerCluster
                 o == byte % X!BytesPerCluster
      <4>1. q \in Nat /\ o \in 0 .. X!BytesPerCluster - 1
        BY TypeFacts, Cluster0, L!DivMod
      <4>2. q < Len(chain)
        BY <3>1, <4>1, TypeFacts, Cluster0, L!Mono DEF InChain
      <4>3. X!ByteAt = <<chain[q + 1], o>>
        BY DEF X!ByteAt
      <4> HIDE DEF q, o
      <4>4. q + 1 \in 1 .. Len(chain)
        BY <4>1, <4>2, TypeFacts
      <4> QED BY <4>1, <4>3, <4>4, TypeFacts DEF X!Offset
    <3> QED BY <3>1, <3>2
  <2>2. CASE ~InTransfer(X!Chunk)
    BY <2>2 DEF InTransfer, X!ByteAtCursor
  <2> QED BY <2>1, <2>2
<1> QED BY <1>1, <1>2 DEF X!Stored

LEMMA TransferDone ==
  ASSUME X!FileAssumption, XIInv, pc = "write_io",
         NEW p \in X!Outside(place),
         place' = IF X!Data THEN X!Stored(p, X!Chunk) ELSE p \ X!AtCursor(X!Chunk),
         NEW w \in X!Outside(own), own' = X!Stored(w, X!Chunk),
         written' = (written \/ (X!Data /\ X!ByteAtCursor(X!Chunk) # {})),
         m_curPosition' = m_curPosition + X!Chunk,
         left' = (IF X!Data THEN left - X!Chunk ELSE left),
         toFill' = (IF X!Data THEN 0 ELSE toFill - X!Chunk),
         pc' = "write", X!ValidAfter(m_curPosition + X!Chunk),
         UNCHANGED <<ioFails, open, m_curCluster, m_dataLength, m_firstCluster, entry, X!bitmap,
                     fat, chain, others, byte>>
  PROVE  XIInv'
<1> DEFINE pos == m_curPosition + X!Chunk
<1> USE DEF X!bitmap
<1>1. /\ open /\ Writing /\ Live /\ m_curPosition <= m_validLength
      /\ m_validLength <= Len(chain) * X!BytesPerCluster
      /\ m_dataLength <= Len(chain) * X!BytesPerCluster
      /\ entry.valid <= m_validLength /\ left \in 0 .. XMaxTransfer
  BY WriteOpen
<1>2. /\ m_curPosition \in Nat /\ m_validLength \in Nat /\ m_dataLength \in Nat
      /\ byte \in Nat /\ toFill \in Nat /\ left \in Nat /\ entry.valid \in Nat
      /\ Len(chain) * X!BytesPerCluster \in Nat /\ XMaxTransfer \in Nat
  BY TypeFacts DEF X!FileAssumption
<1>3. /\ X!Chunk \in Nat \ {0} /\ X!CursorOffset + X!Chunk <= X!BytesPerCluster
      /\ toFill > 0 => X!Chunk <= toFill
      /\ ~(toFill > 0) => X!Chunk <= left
  BY ChunkFits
<1>4. /\ AtPos(pos, m_curCluster) /\ pos <= Len(chain) * X!BytesPerCluster
      /\ X!Index(pos) = m_curPosition \div X!BytesPerCluster
  BY <1>3, AfterTransfer DEF InTransferStep
<1>5. /\ m_validLength <= m_dataLength \/ m_validLength = m_curPosition
      /\ toFill > 0 => m_curPosition = m_validLength
  BY <1>1 DEF XIInv, LengthsOK
<1>6. pos \in Nat /\ pos > m_curPosition /\ pos # 0 /\ m_curPosition' = pos
  BY <1>2, <1>3
<1>7. X!Data <=> ~(toFill > 0)
  BY <1>2 DEF X!Data
<1>8. \/ pos > m_validLength /\ m_validLength' = pos /\ m_flags' = m_flags \cup {"DIR_DIRTY"}
      \/ ~(pos > m_validLength) /\ m_validLength' = m_validLength /\ m_flags' = m_flags
  BY DEF X!ValidAfter
<1> HIDE DEF pos
<1>9. /\ m_validLength' \in Nat /\ m_validLength <= m_validLength' /\ pos <= m_validLength'
      /\ m_validLength' <= Len(chain) * X!BytesPerCluster
      /\ m_validLength' <= m_dataLength \/ m_validLength' = pos
  BY <1>1, <1>2, <1>4, <1>5, <1>6, <1>8
<1>10. left' \in 0 .. XMaxTransfer /\ toFill' \in Nat /\ toFill' <= toFill
  BY <1>1, <1>2, <1>3, <1>7
<1>11. toFill' > 0 => pos = m_validLength'
  BY <1>2, <1>5, <1>6, <1>7, <1>8
<1>12. InTransfer(X!Chunk) => byte < pos /\ ~(byte < m_curPosition)
  BY <1>2, <1>3, <1>6 DEF InTransfer, pos
<1>13. byte < pos /\ ~(byte < m_curPosition) => InTransfer(X!Chunk)
  BY <1>2, <1>3, <1>6 DEF InTransfer, pos
<1>14. X!ByteAt' = X!ByteAt /\ InChain(byte)' = InChain(byte) /\ byte' = byte /\ open'
  BY <1>1 DEF X!ByteAt, InChain
<1>15. X!WrittenInPlace'
  <2> SUFFICES ASSUME written'
               PROVE  InChain(byte) /\ X!ByteAt \in place' /\ byte < m_validLength'
    BY <1>1, <1>14, Zenon DEF X!WrittenInPlace, InChain
  <2>1. written => InChain(byte) /\ X!ByteAt \in place /\ byte < m_validLength
    BY <1>1 DEF XIInv, ContentsOK, X!WrittenInPlace, InChain
  <2>2. written => X!ByteAt \in p
    BY <2>1, OutsideKeeps
  <2>3. CASE X!Data /\ InTransfer(X!Chunk)
    <3>1. InChain(byte) /\ X!ByteAt \in X!Stored(p, X!Chunk)
      BY <2>3, StoredKeeps
    <3>2. byte < m_validLength'
      BY <1>2, <1>6, <1>9, <1>12, <2>3
    <3> QED BY <2>3, <3>1, <3>2
  <2>4. CASE X!Data /\ ~InTransfer(X!Chunk)
    <3>1. X!ByteAtCursor(X!Chunk) = {}
      BY <2>4 DEF X!ByteAtCursor, InTransfer
    <3>2. written
      BY <3>1, Zenon
    <3>3. X!ByteAt \in X!Stored(p, X!Chunk)
      BY <2>1, <2>2, <3>2, StoredKeeps
    <3>4. byte < m_validLength'
      BY <1>2, <1>9, <2>1, <3>2
    <3> QED BY <2>1, <2>4, <3>2, <3>3, <3>4
  <2>5. CASE ~X!Data
    <3>1. written
      BY <2>5, Zenon
    <3>2. ~InTransfer(X!Chunk)
      BY <1>2, <1>5, <1>7, <1>12, <2>1, <2>5, <3>1
    <3>3. X!ByteAt \notin X!AtCursor(X!Chunk)
      BY <1>3, <2>1, <3>1, <3>2, AtCursorMeans
    <3>4. byte < m_validLength'
      BY <1>2, <1>9, <2>1, <3>1
    <3> QED BY <2>1, <2>2, <2>5, <3>1, <3>3, <3>4
  <2> QED BY <2>3, <2>4, <2>5
<1>16. ASSUME byte < m_validLength', InChain(byte) PROVE X!ByteAt \in own'
  <2>1. CASE InTransfer(X!Chunk)
    BY <2>1, StoredKeeps
  <2>2. CASE ~InTransfer(X!Chunk)
    <3>1. byte < m_validLength
      BY <1>1, <1>2, <1>6, <1>8, <1>13, <1>16, <2>2
    <3>2. X!ByteAt \in own
      BY <1>1, <1>16, <3>1 DEF XIInv, ContentsOK, X!NothingStale, InChain
    <3>3. X!ByteAt \in w
      BY <1>16, <3>1, <3>2, OutsideKeeps
    <3> QED BY <1>16, <3>3, StoredKeeps
  <2> QED BY <2>1, <2>2
<1>17. X!NothingStale' /\ EntryStored'
  <2>1. X!NothingStale'
    BY <1>14, <1>16 DEF X!NothingStale, InChain
  <2>2. entry.valid <= m_validLength'
    BY <1>1, <1>2, <1>9
  <2>3. EntryStored'
    <3> SUFFICES ASSUME byte < entry.valid, InChain(byte) PROVE X!ByteAt \in own'
      BY <1>14 DEF EntryStored
    <3>1. byte < m_validLength'
      BY <1>2, <1>9, <2>2
    <3> QED BY <1>16, <3>1
  <2> QED BY <2>1, <2>3
<1>18. X!TypeOK'
  <2>1. m_curPosition' \in X!Position /\ m_validLength' \in X!Position /\ toFill' \in X!Position
    <3> DEFINE Z == Len(chain) * X!BytesPerCluster
               C == X!m_clusterCount * X!BytesPerCluster
               U == (X!m_clusterCount + 1) * X!BytesPerCluster
    <3>1. X!Position = 0 .. U /\ U \in Nat /\ toFill \in X!Position
      <4>1. U \in Nat
        BY Cluster0
      <4>2. X!Position = 0 .. U
        BY DEF X!Position
      <4> QED BY <4>1, <4>2 DEF XIInv, X!TypeOK
    <3>2. Z \in Nat /\ C \in Nat /\ Z <= C /\ 0 .. C \subseteq X!Position
      BY TypeFacts, Zenon
    <3>3. pos <= Z /\ m_validLength' <= Z
      BY <1>4, <1>9
    <3> HIDE DEF Z, C, U
    <3>4. pos \in 0 .. C /\ m_validLength' \in 0 .. C
      BY <1>6, <1>9, <3>2, <3>3
    <3>5. toFill' \in 0 .. U
      BY <1>2, <1>10, <3>1
    <3> QED BY <1>6, <3>1, <3>2, <3>4, <3>5
  <2>2. written' \in BOOLEAN
    BY Zenon
  <2>3. place' \subseteq X!Cluster \X X!Offset /\ own' \subseteq X!Cluster \X X!Offset
    <3>1. place \subseteq X!Cluster \X X!Offset /\ own \subseteq X!Cluster \X X!Offset
      BY DEF XIInv, X!TypeOK
    <3>2. p \subseteq X!Cluster \X X!Offset /\ w \subseteq X!Cluster \X X!Offset
      BY <3>1, StoredTyped
    <3>3. X!Stored(p, X!Chunk) \subseteq X!Cluster \X X!Offset
          /\ X!Stored(w, X!Chunk) \subseteq X!Cluster \X X!Offset
      BY <3>2, StoredTyped
    <3> QED BY <3>2, <3>3
  <2>4. m_flags' \subseteq X!Flags
    BY <1>8 DEF XIInv, X!TypeOK, X!Flags
  <2> QED BY <1>10, <2>1, <2>2, <2>3, <2>4 DEF XIInv, X!TypeOK
<1>19. Calls' /\ ChainOK'
  BY <1>1 DEF XIInv, Calls, ChainOK, Distinct, InTransferStep, Live
<1>20. CursorOK'
  BY <1>4, <1>6 DEF CursorOK, AtPos, X!RightCluster
<1>21. LengthsOK'
  BY <1>1, <1>6, <1>9, <1>11 DEF LengthsOK, Settled
<1>22. CountOK'
  <2>1. InLast => InLast'
    BY <1>4, <1>6 DEF InLast
  <2>2. X!Contiguous' = X!Contiguous
    BY <1>8 DEF X!Contiguous
  <2>3. X!ClusterCount(m_dataLength)' = X!ClusterCount(m_dataLength)
    BY DEF X!ClusterCount, X!Index
  <2> HIDE DEF InLast
  <2> QED BY <1>1, <2>1, <2>2, <2>3 DEF XIInv, CountOK, Settled
<1>23. EntryOK'
  <2>1. ASSUME "DIR_DIRTY" \notin m_flags' PROVE Agrees'
    <3>1. /\ m_validLength' = m_validLength /\ m_flags' = m_flags
          /\ ~(m_curPosition >= m_validLength)
      BY <1>2, <1>6, <1>8, <2>1
    <3>2. Agrees
      BY <1>1, <2>1, <3>1 DEF XIInv, EntryOK
    <3> QED BY <3>1, <3>2 DEF Agrees, X!Contiguous
  <2>2. entry'.valid <= m_validLength'
    BY <1>1, <1>2, <1>9
  <2> QED BY <2>1, <2>2 DEF EntryOK, Settled
<1>24. X!ContiguousHolds' /\ X!NoClusterShared' /\ X!SearchReaches'
  <2>1. X!Contiguous' = X!Contiguous
    BY <1>8 DEF X!Contiguous
  <2> QED BY <1>1, <2>1, VolumeKept DEF XIInv, X!ContiguousHolds, X!Linked, Live
<1> QED BY <1>15, <1>17, <1>18, <1>19, <1>20, <1>21, <1>22, <1>23, <1>24 DEF XIInv, ContentsOK

LEMMA WriteTransferStep == ASSUME X!FileAssumption, ~Retries, XIInv, X!WriteTransfer PROVE XIInv'
<1>1. /\ pc = "write_io"
      /\ UNCHANGED <<ioFails, open, m_curCluster, m_dataLength, m_firstCluster, entry, X!bitmap,
                     fat, chain, others, byte>>
  BY DEF X!WriteTransfer
<1>2. CASE /\ \E p \in X!Outside(place) :
                place' = IF X!Data THEN X!Stored(p, X!Chunk) ELSE p \ X!AtCursor(X!Chunk)
           /\ \E p \in X!Outside(own) : own' = X!Stored(p, X!Chunk)
           /\ written' = (written \/ (X!Data /\ X!ByteAtCursor(X!Chunk) # {}))
           /\ m_curPosition' = m_curPosition + X!Chunk
           /\ left' = (IF X!Data THEN left - X!Chunk ELSE left)
           /\ toFill' = (IF X!Data THEN 0 ELSE toFill - X!Chunk)
           /\ pc' = "write"
           /\ X!ValidAfter(m_curPosition + X!Chunk)
  <2>1. PICK p \in X!Outside(place) :
          place' = IF X!Data THEN X!Stored(p, X!Chunk) ELSE p \ X!AtCursor(X!Chunk)
    BY <1>2
  <2>2. PICK w \in X!Outside(own) : own' = X!Stored(w, X!Chunk)
    BY <1>2
  <2> QED BY <1>1, <1>2, <2>1, <2>2, TransferDone
<1>3. CASE /\ place' \in {place, place \ X!AtCursor(X!Chunk)}
           /\ own' \in {own, X!Stored(own, X!Chunk)}
           /\ written' = (written /\ X!ByteAtCursor(X!Chunk) = {})
           /\ X!Fail
           /\ UNCHANGED <<m_curPosition, m_validLength, m_flags>>
  <2> USE DEF X!bitmap
  <2>1. pc' = "close" /\ left' = 0 /\ toFill' = 0
    BY <1>3 DEF X!Fail, X!AfterFailure
  <2>2. open /\ entry.valid <= m_validLength /\ others \subseteq allocated
    BY <1>1, WriteOpen
  <2>3. X!Chunk \in Nat
    BY <1>1, ChunkFits
  <2>4. written' \in BOOLEAN
    BY <1>3, Zenon
  <2>5. 0 \in X!Position /\ 0 \in 0 .. XMaxTransfer
    BY SMTT(30), TypeFacts DEF X!FileAssumption
  <2>6. place' \subseteq X!Cluster \X X!Offset /\ own' \subseteq X!Cluster \X X!Offset
    <3>1. place \subseteq X!Cluster \X X!Offset /\ own \subseteq X!Cluster \X X!Offset
      BY DEF XIInv, X!TypeOK
    <3>2. X!Stored(own, X!Chunk) \subseteq X!Cluster \X X!Offset
      BY <1>1, <3>1, StoredTyped
    <3> QED BY <1>3, <3>1, <3>2
  <2>7. X!TypeOK'
    BY <1>1, <1>3, <2>1, <2>4, <2>5, <2>6 DEF XIInv, X!TypeOK
  <2>8. X!ByteAt' = X!ByteAt /\ InChain(byte)' = InChain(byte) /\ open'
    BY <1>1, <2>2 DEF X!ByteAt, InChain
  <2>9. X!WrittenInPlace'
    <3> SUFFICES ASSUME written'
                 PROVE  InChain(byte) /\ X!ByteAt \in place' /\ byte < m_validLength
      BY <1>1, <1>3, <2>8, Zenon DEF X!WrittenInPlace, InChain
    <3>1. written /\ X!ByteAtCursor(X!Chunk) = {}
      BY <1>3, Zenon
    <3>2. InChain(byte) /\ X!ByteAt \in place /\ byte < m_validLength
      BY <2>2, <3>1 DEF XIInv, ContentsOK, X!WrittenInPlace, InChain
    <3>3. ~InTransfer(X!Chunk)
      BY <3>1 DEF X!ByteAtCursor, InTransfer
    <3>4. X!ByteAt \notin X!AtCursor(X!Chunk)
      BY <1>1, <2>3, <3>2, <3>3, AtCursorMeans
    <3> QED BY <1>3, <3>2, <3>4
  <2>10. InChain(byte) /\ X!ByteAt \in own => X!ByteAt \in own'
    BY <1>1, <1>3, StoredKeeps
  <2>11. X!NothingStale' /\ EntryStored'
    <3>1. X!NothingStale'
      BY <1>1, <1>3, <2>2, <2>8, <2>10 DEF XIInv, ContentsOK, X!NothingStale, InChain
    <3>2. EntryStored'
      BY <1>1, <1>3, <2>8, <2>10 DEF XIInv, ContentsOK, EntryStored
    <3> QED BY <3>1, <3>2
  <2>12. Distinct' /\ others' \subseteq allocated' /\ X!SearchReaches'
    BY <1>1, <2>2 DEF XIInv, ChainOK, Distinct, X!SearchReaches
  <2> QED BY <2>1, <2>7, <2>8, <2>9, <2>11, <2>12, GivenUpIInv DEF ContentsOK
<1> QED BY <1>2, <1>3 DEF X!WriteTransfer

LEMMA WriteEndsStep == ASSUME X!FileAssumption, XIInv, X!WriteEnds PROVE XIInv'
<1> DEFINE p == m_curPosition
           d == m_dataLength
           N == Len(chain)
           B == X!BytesPerCluster
<1> USE DEF X!cursor, X!bitmap, X!data
<1>1. /\ pc = "write" /\ left = 0 /\ left' = 0 /\ toFill' = 0 /\ pc' = "idle"
      /\ UNCHANGED <<ioFails, open, X!cursor, m_validLength, m_firstCluster, entry, X!bitmap, fat,
                     chain, others, X!data>>
  BY DEF X!WriteEnds
<1>2. \/ p > d /\ m_dataLength' = p /\ m_flags' = m_flags \cup {"DIR_DIRTY"}
      \/ ~(p > d) /\ m_dataLength' = d /\ m_flags' = m_flags
  BY DEF X!WriteEnds
<1>3. /\ open /\ Writing /\ Live /\ p <= m_validLength
      /\ m_validLength <= N * B /\ d <= N * B /\ entry.valid <= m_validLength
      /\ p \in Nat /\ d \in Nat /\ m_validLength \in Nat /\ N * B \in Nat /\ N \in Nat
      /\ p \in X!Position /\ d \in X!Position
      /\ m_validLength <= d \/ m_validLength = p
  BY <1>1, WriteOpen, TypeFacts DEF XIInv, LengthsOK, X!TypeOK
<1>4. /\ m_dataLength' \in Nat /\ m_dataLength' \in X!Position /\ m_dataLength' <= N * B
      /\ p <= m_dataLength' /\ m_validLength <= m_dataLength' /\ d <= m_dataLength'
  <2> HIDE DEF p, d, N, B
  <2> QED BY <1>2, <1>3
<1>5. AtPos(p, m_curCluster)
  BY <1>1, <1>3 DEF XIInv, CursorOK
<1>6. X!TypeOK'
  <2>1. m_flags' \subseteq X!Flags
    BY <1>2 DEF XIInv, X!TypeOK, X!Flags
  <2>2. 0 \in X!Position /\ 0 \in 0 .. XMaxTransfer
    BY TypeFacts DEF X!FileAssumption
  <2> HIDE DEF p, d, N, B
  <2> QED BY <1>1, <1>4, <2>1, <2>2 DEF XIInv, X!TypeOK
<1>7. Calls' /\ ChainOK'
  BY <1>1, <1>3 DEF XIInv, Calls, ChainOK, Distinct, InTransferStep, Live
<1>8. CursorOK'
  BY <1>1, <1>5 DEF CursorOK, AtPos, X!RightCluster
<1>9. LengthsOK'
  <2>1. m_curPosition' + left' + toFill' <= m_dataLength'
    BY <1>1, <1>3, <1>4
  <2> HIDE DEF p, d
  <2> QED BY <1>1, <1>4, <2>1 DEF LengthsOK, Writing
<1>10. CountOK'
  <2> DEFINE x == m_dataLength'
  <2> SUFFICES ASSUME X!Contiguous', m_firstCluster # 0 PROVE N = X!ClusterCount(x)
    <3>1. X!ClusterCount(m_dataLength)' = X!ClusterCount(x)
      BY DEF X!ClusterCount, X!Index
    <3> HIDE DEF x
    <3> QED BY <1>1, <3>1 DEF CountOK, Writing
  <2>1. X!Contiguous
    BY <1>2 DEF X!Contiguous
  <2>2. X!ClusterCount(d) <= N /\ (N = X!ClusterCount(d) \/ (p # 0 /\ X!Index(p) + 1 = N))
    BY <1>1, <1>3, <2>1 DEF XIInv, CountOK, InLast
  <2>3. N # 0
    BY <1>3, OwnedFacts
  <2> DEFINE m == N - 1
  <2>4. m \in Nat /\ N = m + 1
    BY <1>3, <2>3
  <2> HIDE DEF N, x, p, d, m
  <2>5. x \in Nat
    BY <1>4 DEF x
  <2>6. X!ClusterCount(x) <= N
    BY <1>3, <1>4, <2>5, CountBound DEF x, B
  <2>7. ~(X!ClusterCount(x) <= m)
    <3> SUFFICES ASSUME X!ClusterCount(x) <= m PROVE FALSE
      OBVIOUS
    <3>1. x <= m * B /\ m * B \in Nat
      BY <2>4, <2>5, Cluster0, CountBound DEF B
    <3>2. d <= m * B /\ p <= m * B
      BY <1>3, <1>4, <2>5, <3>1 DEF x
    <3>3. X!ClusterCount(d) \in Nat /\ X!ClusterCount(d) <= m
      BY <1>3, <2>4, <3>2, CountBound DEF B
    <3>4. N # X!ClusterCount(d)
      BY <2>4, <3>3
    <3>5. p # 0 /\ X!Index(p) + 1 = N
      BY <2>2, <3>4
    <3>6. X!Index(p) < m /\ X!Index(p) \in Nat
      BY <1>3, <2>4, <3>2, <3>5, PositionIndex DEF B
    <3> QED BY <2>4, <3>5, <3>6
  <2>8. X!ClusterCount(x) \in Nat
    BY <2>5, <1>3, CountBound
  <2> QED BY <2>4, <2>6, <2>7, <2>8
<1>11. EntryOK'
  <2>1. ASSUME "DIR_DIRTY" \notin m_flags' PROVE Agrees'
    <3>1. m_dataLength' = m_dataLength /\ m_flags' = m_flags
      BY <1>2, <2>1
    <3>2. Agrees
      BY <1>1, <1>3, <2>1, <3>1 DEF XIInv, EntryOK
    <3> QED BY <1>1, <3>1, <3>2 DEF Agrees, X!Contiguous
  <2> QED BY <1>1, <1>3, <2>1 DEF EntryOK, Settled
<1>12. ContentsOK' /\ X!ContiguousHolds' /\ X!NoClusterShared' /\ X!SearchReaches'
  <2>1. X!Contiguous' = X!Contiguous
    BY <1>2 DEF X!Contiguous
  <2> HIDE DEF p, d
  <2> QED BY <1>1, <1>3, <2>1, ContentsKept, VolumeKept
          DEF XIInv, X!ContiguousHolds, X!Linked, Live
<1> QED BY <1>6, <1>7, <1>8, <1>9, <1>10, <1>11, <1>12 DEF XIInv

-----------------------------------------------------------------------------
(* Other files, and the step of the whole. *)

OthersMoved ==
  UNCHANGED <<ioFails, open, m_flags, X!cursor, X!lengths, m_firstCluster, entry, fat, pc, left,
              toFill, chain, X!data>>

LEMMA BitmapChanged ==
  ASSUME XIInv, pc = "idle", OthersMoved, allocated' \subseteq X!Cluster,
         m_bitmapStart' \in 0 .. X!m_clusterCount - 1, others' \subseteq X!Cluster,
         others' \subseteq allocated',
         open => X!Owned \subseteq allocated' /\ X!Owned \cap others' = {},
         X!SearchReaches'
  PROVE  XIInv'
<1> USE DEF OthersMoved, X!cursor, X!lengths, X!data
<1>1. X!TypeOK' /\ Calls' /\ ChainOK' /\ CursorOK'
  BY DEF XIInv, X!TypeOK, Calls, ChainOK, Distinct, Live, InTransferStep, CursorOK, AtPos,
     X!RightCluster
<1>2. LengthsOK' /\ CountOK' /\ EntryOK'
  BY DEF XIInv, LengthsOK, Settled, Writing, CountOK, InLast, X!Contiguous, EntryOK, Agrees, Live
<1>3. ContentsOK' /\ X!ContiguousHolds'
  BY DEF XIInv, ContentsOK, X!WrittenInPlace, X!NothingStale, EntryStored, InChain, X!ByteAt,
     X!ContiguousHolds, X!Contiguous, X!Linked
<1>4. X!NoClusterShared'
  BY DEF X!NoClusterShared, X!Owned
<1> QED BY <1>1, <1>2, <1>3, <1>4 DEF XIInv

LEMMA OtherAllocatesStep == ASSUME X!FileAssumption, XIInv, X!otherAllocates PROVE XIInv'
<1>1. PICK cluster \in {0} \cup X!Cluster :
        LET find == X!bitmapFind(cluster, 1)
            start == IF cluster = 0 THEN find - 2 ELSE m_bitmapStart IN
        /\ find \in X!Cluster
        /\ \E b \in X!bitmapModify(find, 1, TRUE, start) :
             /\ allocated' = b.bits /\ m_bitmapStart' = b.start
             /\ others' = IF b.ok THEN others \cup {find} ELSE others
  BY DEF X!otherAllocates
<1> DEFINE find == X!bitmapFind(cluster, 1)
<1>2. PICK b : /\ Taking(cluster, find, b)
               /\ allocated' = b.bits /\ m_bitmapStart' = b.start
               /\ others' = IF b.ok THEN others \cup {find} ELSE others
  BY <1>1 DEF Taking, TakeStart
<1> HIDE DEF find
<1>3. cluster \in Nat \ {1}
  BY Cluster0
<1>4. /\ find \notin allocated
      /\ b.bits \subseteq X!Cluster /\ allocated \subseteq b.bits
      /\ b.ok => b.bits = allocated \cup {find}
      /\ b.start \in 0 .. X!m_clusterCount - 1
      /\ ~ioFails => NoneFreeBelow(b.start, b.bits)
  BY <1>2, <1>3, ClusterTaken
<1>5. find \in X!Cluster
  BY <1>2 DEF Taking
<1>6. pc = "idle" /\ OthersMoved
  BY DEF X!otherAllocates, X!BetweenCalls, OthersMoved
<1>7. /\ others \subseteq X!Cluster /\ others \subseteq allocated
      /\ open => X!Owned \subseteq allocated /\ X!Owned \cap others = {}
  BY <1>6 DEF XIInv, X!TypeOK, X!NoClusterShared
<1>8. X!SearchReaches'
  BY <1>2, <1>4, <1>6 DEF X!SearchReaches, NoneFreeBelow, OthersMoved
<1>9. /\ others' \subseteq X!Cluster /\ others' \subseteq allocated'
      /\ open => X!Owned \subseteq allocated' /\ X!Owned \cap others' = {}
  BY <1>2, <1>4, <1>5, <1>7
<1> QED BY <1>2, <1>4, <1>6, <1>8, <1>9, BitmapChanged

LEMMA OtherFreesStep == ASSUME X!FileAssumption, XIInv, X!otherFrees PROVE XIInv'
<1>1. PICK c \in others : \E b \in X!bitmapModify(c, 1, FALSE, m_bitmapStart) :
        /\ allocated' = b.bits /\ m_bitmapStart' = b.start
        /\ others' = others \ {c}
  BY DEF X!otherFrees
<1>2. PICK b \in X!bitmapModify(c, 1, FALSE, m_bitmapStart) :
        /\ allocated' = b.bits /\ m_bitmapStart' = b.start
        /\ others' = others \ {c}
  BY <1>1
<1>3. pc = "idle" /\ OthersMoved
  BY DEF X!otherFrees, X!BetweenCalls, OthersMoved
<1>4. /\ others \subseteq X!Cluster /\ others \subseteq allocated /\ allocated \subseteq X!Cluster
      /\ open => X!Owned \subseteq allocated /\ X!Owned \cap others = {}
  BY <1>3 DEF XIInv, X!TypeOK, X!NoClusterShared
<1>5. BitmapOK /\ GroupOK(c, 1) /\ Group(c, 1) = {c}
  <2>1. c \in X!Cluster
    BY <1>4
  <2> QED BY <2>1, TypeFacts, Cluster0 DEF GroupOK, Group, X!Cluster
<1>6. /\ b.bits \subseteq allocated /\ allocated \ {c} \subseteq b.bits
      /\ b.ok => b.bits = allocated \ {c}
      /\ b.start \in 0 .. X!m_clusterCount - 1
      /\ ~b.ok => ioFails
      /\ b.ok /\ NoneFreeBelow(m_bitmapStart, allocated) => NoneFreeBelow(b.start, b.bits)
  <2>1. Group(c, 1) \subseteq allocated
    BY <1>4, <1>5
  <2>2. /\ b.bits \subseteq allocated /\ allocated \ Group(c, 1) \subseteq b.bits
        /\ b.ok => b.bits = allocated \ Group(c, 1)
        /\ b.start \in 0 .. X!m_clusterCount - 1
        /\ ~b.ok => ioFails
        /\ b.ok /\ NoneFreeBelow(m_bitmapStart, allocated) => NoneFreeBelow(b.start, b.bits)
    BY <1>5, <2>1, GroupFreed, Zenon
  <2> QED BY <1>5, <2>2
<1>7. X!SearchReaches'
  <2>1. ~ioFails => NoneFreeBelow(m_bitmapStart, allocated)
    BY DEF XIInv, X!SearchReaches, NoneFreeBelow
  <2> QED BY <1>2, <1>3, <1>6, <2>1 DEF X!SearchReaches, NoneFreeBelow, OthersMoved
<1>8. /\ others' \subseteq X!Cluster /\ others' \subseteq allocated' /\ allocated' \subseteq X!Cluster
      /\ open => X!Owned \subseteq allocated' /\ X!Owned \cap others' = {}
  BY <1>2, <1>4, <1>6
<1> QED BY <1>2, <1>3, <1>6, <1>7, <1>8, BitmapChanged

LEMMA XNextIInv == ASSUME X!FileAssumption, ~Retries, XIInv, X!Next PROVE XIInv'
<1>1. ASSUME NEW append \in SUBSET {"APPEND"}, NEW step \in {"idle", "truncate"},
             X!openFile(append, step)
      PROVE  XIInv'
  BY <1>1, OpenFileStep
<1>2. ASSUME NEW pos \in {0} \cup X!Length, X!seekSet(pos) \/ X!fsetpos(pos) PROVE XIInv'
  <2>1. pos \in Nat /\ pos \in X!Position
    <3> DEFINE C == X!m_clusterCount * X!BytesPerCluster
    <3>1. C \in Nat /\ 0 .. C \subseteq X!Position /\ X!Length = 1 .. C
      BY TypeFacts DEF X!Length
    <3> HIDE DEF C
    <3> QED BY <3>1
  <2> QED BY <1>2, <2>1, SeekSetStep, FsetposStep
<1>3. ASSUME NEW length \in X!Length, X!preAllocate(length) PROVE XIInv'
  BY <1>3, PreAllocateStep
<1>4. ASSUME NEW n \in 1 .. XMaxTransfer, X!readCall(n) \/ X!writeCall(n) PROVE XIInv'
  BY <1>4, ReadCallStep, WriteCallStep
<1>5. CASE X!repair \/ X!sync \/ X!close \/ X!truncate \/ X!remove
  BY <1>5, RepairStep, SyncStep, CloseStep, TruncateStep, RemoveStep
<1>6. CASE X!ReadCluster \/ X!ReadTransfer \/ X!ReadEnds \/ X!WriteCluster \/ X!WriteTransfer \/ X!WriteEnds
  BY <1>6, ReadClusterStep, ReadTransferStep, ReadEndsStep, WriteClusterStep, WriteTransferStep,
     WriteEndsStep
<1>7. CASE X!otherAllocates \/ X!otherFrees \/ X!reset
  BY <1>7, OtherAllocatesStep, OtherFreesStep, ResetStep
<1> QED BY <1>1, <1>2, <1>3, <1>4, <1>5, <1>6, <1>7 DEF X!Next

(* An open exFAT file whose program gives it up after a failed call reads  *)
(* and writes the cluster of its position, counted or followed in the FAT; *)
(* a byte that was written stays where a read looks for it until the file  *)
(* is cut, and a read below the valid length returns only what the file    *)
(* stored, the zeros of a gap included; the change from a contiguous file  *)
(* to a FAT chain leaves all its links; no read goes past the data length; *)
(* the entry is behind the file only while DIR_DIRTY is set; no cluster of *)
(* another file is taken or loses its bit; and with a device that works no *)
(* cluster before m_bitmapStart is free.                                   *)
THEOREM ExFatFileCorrect ==
  X!FileAssumption /\ ~Retries /\ X!Spec =>
    [](X!TypeOK /\ X!RightCluster /\ X!WrittenInPlace /\ X!NothingStale /\ X!ContiguousHolds
         /\ X!InsideFile /\ X!EntryAgrees /\ X!NoClusterShared /\ X!SearchReaches)
<1> DEFINE Safe == X!TypeOK /\ X!RightCluster /\ X!WrittenInPlace /\ X!NothingStale /\ X!ContiguousHolds
                     /\ X!InsideFile /\ X!EntryAgrees /\ X!NoClusterShared /\ X!SearchReaches
<1> SUFFICES ASSUME X!FileAssumption, ~Retries PROVE X!Spec => []Safe
  OBVIOUS
<1>1. X!Init => XIInv
  BY XInitIInv
<1>2. XIInv /\ [X!Next]_(X!vars) => XIInv'
  BY XNextIInv, XStutterIInv
<1>3. XIInv => Safe
  BY XIInvSafe
<1> QED BY <1>1, <1>2, <1>3, PTL DEF X!Spec

-----------------------------------------------------------------------------
(* The invariant: the one of the file that the volume has. *)
IInv ==
  /\ volume \in {"fat", "exfat"}
  /\ m_fVol => P!IInv
  /\ m_xVol => XIInv

(* A program that gives a file up after a failed call and asks a FAT file  *)
(* for no position it was not given.                                       *)
OneCaller == ~Retries /\ ~EarlySetPos

LEMMA Assumptions == P!FileAssumption /\ X!FileAssumption
BY FatAssumption, ExFatAssumption, FatStatesSame

LEMMA InitIInv == Init => IInv
<1>1. ASSUME volume = "fat", F!Init PROVE IInv
  <2>1. P!IInv
    BY <1>1, Assumptions, FatStatesSame, P!InitIInv
  <2> QED BY <1>1, <2>1 DEF IInv, m_fVol, m_xVol
<1>2. ASSUME volume = "exfat", X!Init PROVE IInv
  <2>1. XIInv
    BY <1>2, Assumptions, XInitIInv
  <2> QED BY <1>2, <2>1 DEF IInv, m_fVol, m_xVol
<1> QED BY <1>1, <1>2 DEF Init

LEMMA NextIInv == ASSUME OneCaller, IInv, [Next]_vars PROVE IInv'
<1>1. CASE FatCall
  <2>1. P!IInv /\ P!Next /\ UNCHANGED volume /\ volume = "fat"
    BY <1>1, FatNextSame DEF FatCall, IInv, m_fVol
  <2>2. P!OneCaller
    BY DEF OneCaller, P!OneCaller
  <2>3. P!IInv'
    BY <2>1, <2>2, Assumptions, P!NextIInv
  <2> QED BY <2>1, <2>3 DEF IInv, m_fVol, m_xVol
<1>2. CASE ExFatCall
  <2>1. XIInv /\ X!Next /\ UNCHANGED volume /\ volume = "exfat"
    BY <1>2 DEF ExFatCall, IInv, m_xVol
  <2>2. XIInv'
    BY <2>1, Assumptions, XNextIInv DEF OneCaller
  <2> QED BY <2>1, <2>2 DEF IInv, m_fVol, m_xVol
<1>3. CASE UNCHANGED vars
  <2>1. UNCHANGED <<volume, F!vars, exFatOnly>>
    BY <1>3 DEF vars
  <2>2. UNCHANGED P!vars /\ UNCHANGED X!vars
    BY <2>1 DEF exFatOnly, F!vars, F!cursor, F!entry, F!data, P!vars, P!cursor, P!entry, P!data,
       X!vars, X!cursor, X!lengths, X!bitmap, X!data
  <2>3. m_fVol => P!IInv'
    BY <2>2, P!StutterIInv DEF IInv
  <2>4. m_xVol => XIInv'
    BY <2>2, XStutterIInv DEF IInv
  <2> QED BY <2>1, <2>3, <2>4 DEF IInv, m_fVol, m_xVol
<1> QED BY <1>1, <1>2, <1>3 DEF Next

LEMMA IInvSafe ==
  ASSUME IInv
  PROVE  /\ TypeOK /\ RightCluster /\ WrittenInPlace /\ ContiguousHolds /\ InsideFile
         /\ EntryAgrees /\ NothingStale /\ NoClusterShared /\ SearchReaches
<1> USE DEF TypeOK, RightCluster, WrittenInPlace, ContiguousHolds, InsideFile, EntryAgrees,
            NothingStale, NoClusterShared, SearchReaches
<1>1. CASE m_fVol
  <2>1. P!IInv
    BY <1>1 DEF IInv
  <2>2. P!TypeOK /\ P!RightCluster /\ P!WrittenInPlace /\ P!ContiguousHolds /\ P!InsideFile
        /\ P!EntryAgrees
    BY ONLY <2>1, P!IInvSafe
  <2> QED BY <1>1, <2>2, FatStatesSame DEF IInv, m_fVol, m_xVol
<1>2. CASE m_xVol
  <2>1. XIInv
    BY <1>2 DEF IInv
  <2>2. /\ X!TypeOK /\ X!RightCluster /\ X!WrittenInPlace /\ X!ContiguousHolds /\ X!InsideFile
        /\ X!EntryAgrees /\ X!NothingStale /\ X!NoClusterShared /\ X!SearchReaches
    BY ONLY <2>1, Assumptions, XIInvSafe
  <2> QED BY <1>2, <2>2 DEF IInv, m_fVol, m_xVol
<1> QED BY <1>1, <1>2 DEF IInv, m_fVol, m_xVol

LEMMA Invariant == OneCaller /\ Spec => []IInv
<1>1. Init => IInv
  BY InitIInv
<1>2. OneCaller /\ IInv /\ [Next]_vars => IInv'
  BY NextIInv
<1>3. OneCaller => OneCaller'
  BY DEF OneCaller
<1> QED BY <1>1, <1>2, <1>3, PTL DEF Spec

-----------------------------------------------------------------------------
(* The types of either file: every cluster number that a FatFile or an     *)
(* ExFatFile keeps or writes into an entry is one of the volume.           *)
THEOREM FsFileTypes == OneCaller /\ Spec => []TypeOK
<1>1. IInv => TypeOK
  BY IInvSafe
<1> QED BY <1>1, Invariant, PTL

(* What read() and write() of either file transfer goes to the cluster of  *)
(* the file that holds the position, whether they counted, followed the    *)
(* FAT, or came there by seekSet(), fsetpos(), truncate() or a new         *)
(* cluster.                                                                *)
THEOREM TransferInFile == OneCaller /\ Spec => []RightCluster
<1>1. IInv => RightCluster
  BY IInvSafe
<1> QED BY <1>1, Invariant, PTL

(* A byte that a write() has stored and no truncate() or failed close()    *)
(* has cut off is where the next read() looks for it.                      *)
THEOREM NoByteLost == OneCaller /\ Spec => []WrittenInPlace
<1>1. IInv => WrittenInPlace
  BY IInvSafe
<1> QED BY <1>1, Invariant, PTL

(* While the flag for a contiguous file is set, counting clusters is       *)
(* right; an exFAT file without it has its links in the FAT.               *)
THEOREM CountingIsRight == OneCaller /\ Spec => []ContiguousHolds
<1>1. IInv => ContiguousHolds
  BY IInvSafe
<1> QED BY <1>1, Invariant, PTL

(* Between two calls the valid length, the data length and the clusters    *)
(* are in their order, and read() stops at the end of the file.            *)
THEOREM LengthsOrdered == OneCaller /\ Spec => []InsideFile
<1>1. IInv => InsideFile
  BY IInvSafe
<1> QED BY <1>1, Invariant, PTL

(* The directory entry is behind the file only while the dirty flag is     *)
(* set, so a sync() or close() that succeeds loses neither a length nor a  *)
(* cluster.                                                                *)
THEOREM EntryNotBehind == OneCaller /\ Spec => []EntryAgrees
<1>1. IInv => EntryAgrees
  BY IInvSafe
<1> QED BY <1>1, Invariant, PTL

(* A read() of an exFAT file returns data it wrote or the zeros of a gap,  *)
(* never what a cluster held before.                                       *)
THEOREM GapsFilled == OneCaller /\ Spec => []NothingStale
<1>1. IInv => NothingStale
  BY IInvSafe
<1> QED BY <1>1, Invariant, PTL

(* Whatever an exFAT file allocates, truncates or removes, other files     *)
(* keep the bits of their clusters, and the file those of its own.         *)
THEOREM OthersUntouched == OneCaller /\ Spec => []NoClusterShared
<1>1. IInv => NoClusterShared
  BY IInvSafe
<1> QED BY <1>1, Invariant, PTL

(* With a device that works, no cluster in front of m_bitmapStart is free. *)
THEOREM FreeClustersFound == OneCaller /\ Spec => []SearchReaches
<1>1. IInv => SearchReaches
  BY IInvSafe
<1> QED BY <1>1, Invariant, PTL
=============================================================================
