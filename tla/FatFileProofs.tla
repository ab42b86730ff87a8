--------------------------- MODULE FatFileProofs ---------------------------
(***************************************************************************)
(* Proofs about FatFile: for every size of the volume, its sectors and     *)
(* its clusters, every length of a call and every point at which the       *)
(* device fails, the cursor of an open file is in the cluster that holds   *)
(* its position, no byte that was written is lost, and the entry of the    *)
(* directory is behind the file only while DIR_DIRTY is set.               *)
(*                                                                         *)
(* The inductive invariant IInv says where the cursor is at each point of  *)
(* a call: at the end of the cluster before the position when a call       *)
(* begins or a transfer has ended, in the cluster that holds the position  *)
(* when a transfer begins.  There is one lemma for each action.  The steps *)
(* of a program that goes on after a failed call (Retries), or that uses   *)
(* fsetpos in a file it has just preallocated (EarlySetPos), are left out: *)
(* the runs file_retry and file_setpos show what such a program loses.     *)
(***************************************************************************)
EXTENDS FatFile, TLAPS, WellFoundedInduction

-----------------------------------------------------------------------------
(* Arithmetic of positions. *)

LEMMA LeastNat ==
  ASSUME NEW T, T \subseteq Nat, T # {}
  PROVE  \E i \in T : \A m \in T : i <= m
<1> DEFINE R == OpToRel(<, Nat)
<1>1. IsWellFoundedOn(R, Nat)
  BY NatLessThanWellFounded
<1> HIDE DEF R
<1>2. PICK i \in T : \A m \in T : <<m, i>> \notin R
  BY <1>1, WFMin
<1>3. ASSUME NEW m \in T PROVE i <= m
  <2>1. m \in Nat /\ i \in Nat
    OBVIOUS
  <2>2. <<m, i>> \notin R
    BY <1>2
  <2>3. ~(m < i)
    BY <2>1, <2>2 DEF R, OpToRel
  <2> QED BY <2>1, <2>3
<1> QED BY <1>3

LEMMA DivMod ==
  ASSUME NEW p \in Nat, NEW b \in Nat \ {0}
  PROVE  p \div b \in Nat /\ p % b \in 0 .. b - 1 /\ p % b = p - b * (p \div b)
<1>1. p \div b \in Nat /\ p % b \in 0 .. b - 1
  OBVIOUS
<1>2. p % b = p - b * (p \div b)
  OBVIOUS
<1> QED BY <1>1, <1>2

LEMMA DivUnique ==
  ASSUME NEW p \in Nat, NEW b \in Nat \ {0}, NEW q \in Nat, NEW r \in 0 .. b - 1,
         p = b * q + r
  PROVE  p \div b = q /\ p % b = r
OBVIOUS

LEMMA Mono ==
  ASSUME NEW p \in Nat, NEW b \in Nat \ {0}, NEW n \in Nat
  PROVE  p < n * b <=> p \div b < n
OBVIOUS

LEMMA SameCluster ==
  ASSUME NEW p \in Nat, NEW b \in Nat \ {0}, NEW k \in Nat, (p % b) + k < b
  PROVE  (p + k) \div b = p \div b /\ (p + k) % b = (p % b) + k
OBVIOUS

LEMMA Index0 ==
  ASSUME NEW p \in Nat, NEW b \in Nat \ {0}, p % b # 0
  PROVE  (p - 1) \div b = p \div b /\ p > 0
OBVIOUS

LEMMA Index1 ==
  ASSUME NEW p \in Nat, NEW b \in Nat \ {0}, p % b = 0, p # 0
  PROVE  (p - 1) \div b + 1 = p \div b
OBVIOUS

(* Which block of B bytes the byte in front of a position is in. *)
LEMMA BlockBefore ==
  ASSUME NEW pos \in Nat, NEW B \in Nat \ {0}
  PROVE  /\ pos # 0 => (pos - 1) \div B \in Nat
         /\ \A n \in Nat : pos # 0 /\ pos <= n * B => (pos - 1) \div B < n
         /\ \A n \in Nat : pos # 0 /\ (pos - 1) \div B < n => pos <= n * B
         /\ pos % B # 0 => pos # 0 /\ (pos - 1) \div B = pos \div B
         /\ pos % B = 0 /\ pos # 0 => (pos - 1) \div B + 1 = pos \div B
         /\ \A k \in Nat \ {0} : (pos % B) + k <= B => (pos + k - 1) \div B = pos \div B
<1>1. pos # 0 => pos - 1 \in Nat
  OBVIOUS
<1>2. pos # 0 => (pos - 1) \div B \in Nat
  BY <1>1, DivMod
<1>3. ASSUME NEW n \in Nat, pos # 0
      PROVE  pos <= n * B <=> (pos - 1) \div B < n
  <2>1. pos - 1 < n * B <=> (pos - 1) \div B < n
    BY <1>1, <1>3, Mono
  <2>2. n * B \in Nat
    OBVIOUS
  <2> QED BY <2>1, <2>2
<1>4. ASSUME pos % B # 0 PROVE pos # 0 /\ (pos - 1) \div B = pos \div B
  <2>1. (pos - 1) \div B = pos \div B
    BY <1>4, Index0
  <2>2. pos # 0
    BY <1>4
  <2> QED BY <2>1, <2>2
<1>5. ASSUME pos % B = 0, pos # 0 PROVE (pos - 1) \div B + 1 = pos \div B
  BY <1>5, Index1
<1>6. ASSUME NEW k \in Nat \ {0}, (pos % B) + k <= B
      PROVE  (pos + k - 1) \div B = pos \div B
  <2>1. k - 1 \in Nat /\ pos % B \in Nat /\ (pos % B) + (k - 1) < B
    BY <1>6, DivMod
  <2>2. (pos + (k - 1)) \div B = pos \div B
    BY <2>1, SameCluster
  <2> QED BY <2>2
<1> QED BY <1>2, <1>3, <1>4, <1>5, <1>6

LEMMA SectorOfOffset ==
  ASSUME NEW p \in Nat, NEW s \in Nat \ {0}, NEW n \in Nat \ {0}
  PROVE  (p % (s * n)) % s = p % s
<1> DEFINE m == s * n
           q == p \div m
           o == p % m
           u == o \div s
           v == o % s
<1>1. m \in Nat \ {0}
  OBVIOUS
<1>2. q \in Nat /\ o \in Nat /\ o = p - m * q
  <2> HIDE DEF m
  <2> QED BY SMTT(30), <1>1, DivMod
<1> HIDE DEF q, o
<1>3. u \in Nat /\ v \in 0 .. s - 1 /\ v = o - s * u
  BY <1>2, DivMod
<1> HIDE DEF u, v
<1>4. n * q + u \in Nat
  BY <1>2, <1>3
<1>5. p = s * (n * q + u) + v
  BY <1>2, <1>3
<1>6. p % s = v
  BY <1>3, <1>4, <1>5, DivUnique
<1> QED BY <1>6 DEF o, v

LEMMA RoomInCluster ==
  ASSUME NEW o \in Nat, NEW s \in Nat \ {0}, NEW n \in Nat \ {0}, o < s * n
  PROVE  o + s - (o % s) <= s * n
<1> DEFINE u == o \div s
           v == o % s
<1>1. u \in Nat /\ v \in 0 .. s - 1 /\ o = s * u + v
  BY DivMod
<1>2. u < n
  <2> SUFFICES ASSUME n <= u PROVE FALSE
    BY <1>1
  <2>1. s * n <= s * u
    BY <1>1
  <2> QED BY <1>1, <2>1
<1>3. s * (u + 1) <= s * n
  BY <1>1, <1>2
<1>4. s * (u + 1) = s * u + s
  BY <1>1
<1> QED BY <1>1, <1>3, <1>4

LEMMA Cluster0 ==
  ASSUME FileAssumption
  PROVE  /\ BytesPerCluster \in Nat \ {0}
         /\ 0 \notin Cluster /\ EOC \notin Cluster /\ EOC # 0 /\ EOC \in Nat
         /\ Cluster \subseteq Nat
BY DEF FileAssumption, BytesPerCluster, Cluster

LEMMA ChunkFits ==
  ASSUME FileAssumption, m_curPosition \in Nat, left \in Nat \ {0},
         NEW k \in {PartOfSector, Chunk}
  PROVE  k \in 1 .. left /\ CursorOffset + k <= BytesPerCluster
<1> DEFINE B == BytesPerCluster
           S == BytesPerSector
<1>1. B \in Nat \ {0} /\ S \in Nat \ {0} /\ SectorsPerCluster \in Nat \ {0}
  BY Cluster0 DEF FileAssumption
<1>2. CursorOffset \in 0 .. B - 1 /\ SectorOffset \in 0 .. S - 1
  BY <1>1, DivMod DEF CursorOffset, SectorOffset
<1>3. CursorOffset + S - SectorOffset <= B
  <2>1. CursorOffset % S = SectorOffset
    BY <1>1, SectorOfOffset DEF CursorOffset, SectorOffset, BytesPerCluster
  <2>2. CursorOffset \in Nat /\ CursorOffset < S * SectorsPerCluster
    BY <1>1, <1>2 DEF BytesPerCluster
  <2>3. CursorOffset + S - (CursorOffset % S) <= S * SectorsPerCluster
    <3> HIDE DEF S
    <3>1. \A o \in Nat : o < S * SectorsPerCluster =>
             o + S - (o % S) <= S * SectorsPerCluster
      BY <1>1, RoomInCluster
    <3> QED BY <2>2, <3>1
  <2> QED BY <2>1, <2>3, Zenon DEF BytesPerCluster
<1>4. PartOfSector \in 1 .. left /\ CursorOffset + PartOfSector <= B
  BY <1>1, <1>2, <1>3 DEF PartOfSector, Smaller
<1>5. CASE Partial
  BY <1>4, <1>5 DEF Chunk
<1>6. CASE ~Partial
  <2>1. left >= S
    BY <1>1, <1>6 DEF Partial
  <2>2. left % S \in 0 .. S - 1
    BY <1>1, DivMod
  <2>3. Chunk = Smaller(left - (left % S), B - CursorOffset)
    BY <1>6 DEF Chunk
  <2>4. Chunk \in 1 .. left /\ CursorOffset + Chunk <= B
    BY <1>1, <1>2, <2>1, <2>2, <2>3 DEF Smaller
  <2> QED BY <1>4, <2>4
<1> QED BY <1>5, <1>6

-----------------------------------------------------------------------------
(* The chain and the operators that walk it. *)

Distinct == \A i, j \in DOMAIN chain : chain[i] = chain[j] => i = j
Behind(j, k) == IF j + k <= Len(chain) THEN chain[j + k] ELSE EOC

LEMMA FatValueIs ==
  ASSUME FileAssumption, chain \in Seq(Cluster), Distinct, NEW j \in DOMAIN chain
  PROVE  FatValue(chain[j]) = Behind(j, 1) /\ FatValue(EOC) = EOC
<1>1. chain[j] \in Owned /\ j \in 1 .. Len(chain) /\ Len(chain) \in Nat
  BY DEF Owned
<1>2. (CHOOSE i \in DOMAIN chain : chain[i] = chain[j]) = j
  BY DEF Distinct
<1>3. EOC \notin Cluster /\ EOC \notin Owned
  BY Cluster0 DEF Owned
<1>4. FatValue(EOC) = EOC
  BY <1>3 DEF FatValue
<1>5. FatValue(chain[j]) = IF j = Len(chain) THEN EOC ELSE chain[j + 1]
  <2> DEFINE c == chain[j]
  <2>1. FatValue(c) = LET i == CHOOSE n \in DOMAIN chain : chain[n] = c
                      IN IF i = Len(chain) THEN EOC ELSE chain[i + 1]
    BY <1>1, Zenon DEF FatValue
  <2> QED BY <1>2, <2>1, Zenon
<1> QED BY <1>1, <1>4, <1>5 DEF Behind

LEMMA FollowIs ==
  ASSUME FileAssumption, chain \in Seq(Cluster), Distinct, NEW j \in DOMAIN chain, NEW k \in Nat
  PROVE  Follow(chain[j], k) = Behind(j, k)
<1> DEFINE c == chain[j]
           Eq(f) == f = [i \in 0 .. k |-> IF i = 0 THEN c ELSE FatValue(f[i - 1])]
           h == [i \in 0 .. k |-> Behind(j, i)]
           at[i \in 0 .. k] == IF i = 0 THEN c ELSE FatValue(at[i - 1])
<1>1. j \in 1 .. Len(chain) /\ Len(chain) \in Nat
  OBVIOUS
<1>2. \A i \in 0 .. k : i # 0 => FatValue(Behind(j, i - 1)) = Behind(j, i)
  <2> SUFFICES ASSUME NEW i \in 0 .. k, i # 0 PROVE FatValue(Behind(j, i - 1)) = Behind(j, i)
    OBVIOUS
  <2>1. CASE j + (i - 1) <= Len(chain)
    <3>1. j + (i - 1) \in DOMAIN chain /\ (j + (i - 1)) + 1 = j + i
      BY <1>1, <2>1
    <3> QED BY <3>1, <2>1, FatValueIs DEF Behind
  <2>2. CASE ~(j + (i - 1) <= Len(chain))
    BY <1>1, <2>2, FatValueIs DEF Behind
  <2> QED BY <2>1, <2>2
<1>3. Eq(h)
  <2> DEFINE rhs == [i \in 0 .. k |-> IF i = 0 THEN c ELSE FatValue(h[i - 1])]
  <2>1. \A i \in 0 .. k : h[i] = rhs[i]
    <3> SUFFICES ASSUME NEW i \in 0 .. k PROVE h[i] = rhs[i]
      OBVIOUS
    <3>1. CASE i = 0
      BY <1>1, <3>1 DEF Behind
    <3>2. CASE i # 0
      <4>1. i - 1 \in 0 .. k
        BY <3>2
      <4>2. h[i-1] = Behind(j, i - 1)
        BY <4>1
      <4>3. rhs[i] = FatValue(h[i-1])
        BY <3>2
      <4>4. h[i] = Behind(j, i)
         OBVIOUS
      <4> QED BY ONLY <1>2, <3>2, <4>2, <4>3, <4>4, i \in 0 .. k
    <3> QED BY <3>1, <3>2
  <2> QED BY <2>1
<1>4. at = CHOOSE f : Eq(f)
  OBVIOUS
<1> HIDE DEF at
<1>5. Eq(at)
  <2> HIDE DEF Eq, h
  <2> QED BY <1>3, <1>4
<1>6. at[k] = h[k]
  <2> DEFINE T == {i \in 0 .. k : at[i] # h[i]}
  <2>1. SUFFICES ASSUME T # {} PROVE FALSE
    BY <2>1
  <2>2. PICK i \in T : \A m \in T : i <= m
    <3> T \subseteq Nat
      OBVIOUS
    <3> HIDE DEF T
    <3> QED BY <2>1, LeastNat
  <2>3. i # 0
    BY <1>5, <1>3, <2>2
  <2>4. i - 1 \in 0 .. k /\ i - 1 \notin T
    BY <2>2, <2>3
  <2>5. at[i-1] = h[i-1]
    BY <2>4
  <2>6. at[i] = FatValue(at[i-1])
    BY <1>5, <2>3
  <2>7. h[i] = FatValue(h[i-1])
    BY <1>3, <2>3
  <2> QED BY <2>2, <2>5, <2>6, <2>7
<1> QED BY <1>6 DEF Follow, at

-----------------------------------------------------------------------------
(* The inductive invariant. *)

(* A program that gives a file up after a failed call, and that asks for   *)
(* no position it was not given.                                           *)
OneCaller == ~Retries /\ ~EarlySetPos

FirstOf(c) == IF c = <<>> THEN 0 ELSE c[1]
InRead == pc \in {"read", "read_io"}
InWrite == pc \in {"write", "write_io"}
InTransferStep == pc \in {"read_io", "write_io"}
Live == open /\ pc # "close"

Calls ==
  /\ ~open => pc = "idle" /\ m_flags = {}
  /\ pc \in {"idle", "close"} => left = 0
  /\ InTransferStep => left > 0
EntryOK == open => (dirFirst = 0 => dirSize = 0)
ChainOK == Distinct /\ (open => m_firstCluster = FirstOf(chain))
AtPos(pos, c) ==
  IF pos = 0 THEN c = 0 ELSE Index(pos) \in 0 .. Len(chain) - 1 /\ c = chain[Index(pos) + 1]
CursorOK ==
  Live => IF InTransferStep THEN RightCluster ELSE AtPos(m_curPosition, m_curCluster)
SizesOK ==
  Live => /\ m_fileSize <= Len(chain) * BytesPerCluster
          /\ InWrite => m_curPosition + left < Word
          /\ ~InWrite => m_curPosition + left <= m_fileSize
WrittenBelow ==
  written => /\ ~open => byte < dirSize
             /\ Live => byte < m_fileSize \/ (InWrite /\ byte < m_curPosition)
             /\ Live /\ "PREALLOCATE" \in m_flags => byte < m_curPosition

IInv ==
  /\ TypeOK /\ Calls /\ EntryOK /\ ChainOK /\ CursorOK /\ SizesOK /\ WrittenBelow
  /\ WrittenInPlace /\ ContiguousHolds /\ EntryAgrees

LEMMA InitIInv == ASSUME FileAssumption, Init PROVE IInv
<1>1. Len(chain) = 0 /\ DOMAIN chain = {} /\ chain \in Seq(Cluster)
  BY DEF Init
<1>2. byte \in Position /\ 0 \in Position /\ 0 \in 0 .. MaxTransfer
  BY DEF Init, FileAssumption, Position
<1>3. TypeOK
  BY <1>1, <1>2, Zenon DEF Init, TypeOK
<1>4. Distinct
  BY <1>1 DEF Distinct
<1>5. ~open /\ ~written /\ pc = "idle" /\ left = 0 /\ m_flags = {}
  BY DEF Init
<1>6. Calls /\ EntryOK /\ ChainOK /\ CursorOK /\ SizesOK /\ WrittenBelow
  BY <1>4, <1>5, Zenon DEF Calls, EntryOK, ChainOK, CursorOK, SizesOK, WrittenBelow, Live,
     InTransferStep
<1> QED
  BY <1>3, <1>5, <1>6, Zenon DEF IInv, WrittenInPlace, ContiguousHolds, EntryAgrees

LEMMA PositionIndex ==
  ASSUME FileAssumption, NEW pos \in Nat
  PROVE  /\ pos # 0 => Index(pos) \in Nat
         /\ \A n \in Nat : pos # 0 /\ pos <= n * BytesPerCluster => Index(pos) < n
         /\ \A n \in Nat : pos # 0 /\ Index(pos) < n => pos <= n * BytesPerCluster
         /\ pos % BytesPerCluster # 0 => pos # 0 /\ Index(pos) = pos \div BytesPerCluster
         /\ pos % BytesPerCluster = 0 /\ pos # 0 => Index(pos) + 1 = pos \div BytesPerCluster
         /\ \A k \in Nat \ {0} : (pos % BytesPerCluster) + k <= BytesPerCluster =>
              Index(pos + k) = pos \div BytesPerCluster
<1> DEFINE B == BytesPerCluster
<1>1. B \in Nat \ {0}
  BY Cluster0
<1> HIDE DEF B
<1>2. \A k \in Nat \ {0} : Index(pos + k) = (pos + k - 1) \div B
  BY DEF B, Index
<1>3. Index(pos) = (pos - 1) \div B
  BY DEF B, Index
<1> SUFFICES /\ pos # 0 => (pos - 1) \div B \in Nat
             /\ \A n \in Nat : pos # 0 /\ pos <= n * B => (pos - 1) \div B < n
             /\ \A n \in Nat : pos # 0 /\ (pos - 1) \div B < n => pos <= n * B
             /\ pos % B # 0 => pos # 0 /\ (pos - 1) \div B = pos \div B
             /\ pos % B = 0 /\ pos # 0 => (pos - 1) \div B + 1 = pos \div B
             /\ \A k \in Nat \ {0} : (pos % B) + k <= B =>
                  (pos + k - 1) \div B = pos \div B
  BY <1>2, <1>3, Zenon DEF B
<1> QED BY <1>1, BlockBefore

LEMMA SeekFindsCluster ==
  ASSUME FileAssumption, IInv, Usable, NEW pos \in 1 .. m_fileSize
  PROVE  /\ AtPos(pos, SeekCluster(pos))
         /\ SeekCluster(pos) \in Cluster
<1> DEFINE n == Index(pos)
           at == Index(m_curPosition)
<1>1. /\ chain \in Seq(Cluster) /\ Len(chain) \in Nat /\ m_curPosition \in Nat
      /\ m_fileSize \in Nat /\ m_fileSize <= Len(chain) * BytesPerCluster
      /\ Distinct /\ ContiguousHolds /\ open
      /\ m_firstCluster = FirstOf(chain) /\ AtPos(m_curPosition, m_curCluster)
  BY DEF IInv, TypeOK, SizesOK, ChainOK, CursorOK, Usable, Live, InTransferStep, Position
<1>2. n \in 0 .. Len(chain) - 1
  <2>1. pos \in Nat /\ pos # 0 /\ pos <= m_fileSize
    BY <1>1
  <2>2. Len(chain) * BytesPerCluster \in Nat
    BY <1>1, Cluster0
  <2>3. pos <= Len(chain) * BytesPerCluster
    BY <1>1, <2>1, <2>2
  <2>4. n \in Nat /\ n < Len(chain)
    BY <1>1, <2>1, <2>3, PositionIndex
  <2> QED BY <2>4, <1>1
<1> HIDE DEF n, at
<1>3. DOMAIN chain = 1 .. Len(chain) /\ n + 1 \in DOMAIN chain /\ 1 \in DOMAIN chain
      /\ chain # <<>> /\ m_firstCluster = chain[1]
  BY <1>1, <1>2 DEF FirstOf
<1>4. SeekCluster(pos) = chain[n + 1]
  <2>1. CASE Contiguous
    <3>1. chain[n + 1] = m_firstCluster + (n + 1) - 1
      BY <1>1, <1>3, <2>1 DEF ContiguousHolds
    <3>2. m_firstCluster \in Nat
      BY <1>1, <1>3, Cluster0
    <3>3. SeekCluster(pos) = m_firstCluster + n
      BY <2>1 DEF SeekCluster, n
    <3> QED BY <3>1, <3>2, <3>3, <1>2
  <2>2. CASE ~Contiguous /\ (m_curPosition = 0 \/ n < at)
    <3>1. SeekCluster(pos) = Follow(chain[1], n)
      BY <1>3, <2>2 DEF SeekCluster, n, at
    <3>2. Follow(chain[1], n) = Behind(1, n)
      BY <1>1, <1>2, <1>3, FollowIs
    <3> QED BY <3>1, <3>2, <1>1, <1>2 DEF Behind
  <2>3. CASE ~Contiguous /\ ~(m_curPosition = 0 \/ n < at)
    <3>1. SeekCluster(pos) = Follow(m_curCluster, n - at)
      BY <2>3 DEF SeekCluster, n, at
    <3>2. at \in 0 .. Len(chain) - 1 /\ m_curCluster = chain[at + 1]
      BY <1>1, <2>3 DEF AtPos, at
    <3>3. at + 1 \in DOMAIN chain /\ n - at \in Nat
      BY <1>2, <1>3, <2>3, <3>2
    <3>4. Follow(m_curCluster, n - at) = Behind(at + 1, n - at)
      BY <1>1, <3>2, <3>3, FollowIs
    <3> QED BY <3>1, <3>2, <3>3, <3>4, <1>1, <1>2 DEF Behind
  <2> QED BY <2>1, <2>2, <2>3
<1>5. SeekCluster(pos) \in Cluster
  BY <1>1, <1>3, <1>4
<1> QED BY <1>2, <1>4, <1>5 DEF AtPos, n

LEMMA SeekOutcome ==
  ASSUME FileAssumption, IInv, Usable, NEW pos \in Position, NEW o \in seekOutcomes(pos)
  PROVE  /\ o.flags \in {m_flags, m_flags \ {"PREALLOCATE"}}
         /\ o.pos \in 0 .. m_fileSize /\ o.cluster \in Cluster \cup {0}
         /\ AtPos(o.pos, o.cluster)
         /\ o.pos = m_curPosition \/ "PREALLOCATE" \notin o.flags
         /\ o.ok => o.pos = pos
<1>1. /\ m_curPosition \in 0 .. m_fileSize /\ m_curCluster \in Cluster \cup {0}
      /\ AtPos(m_curPosition, m_curCluster) /\ m_fileSize \in Nat /\ pos \in Nat
  BY DEF IInv, TypeOK, SizesOK, CursorOK, Usable, Live, InTransferStep, Position, InWrite, Calls
<1>2. CASE pos = m_curPosition
  BY <1>1, <1>2 DEF seekOutcomes, Sought
<1>3. CASE pos # m_curPosition /\ pos = 0
  BY <1>1, <1>3 DEF seekOutcomes, Sought, SeekFlags, Clear, AtPos
<1>4. CASE pos # m_curPosition /\ pos # 0 /\ pos > m_fileSize
  BY <1>1, <1>4 DEF seekOutcomes, Sought, NotSought
<1>5. CASE pos # m_curPosition /\ pos # 0 /\ ~(pos > m_fileSize)
  <2>1. pos \in 1 .. m_fileSize
    BY <1>1, <1>5
  <2>2. AtPos(pos, SeekCluster(pos)) /\ SeekCluster(pos) \in Cluster
    BY <2>1, SeekFindsCluster
  <2>3. o \in {Sought(TRUE, pos, SeekCluster(pos), SeekFlags), NotSought}
    BY <1>5 DEF seekOutcomes
  <2> QED BY <1>1, <2>1, <2>2, <2>3 DEF Sought, NotSought, SeekFlags, Clear
<1> QED BY <1>2, <1>3, <1>4, <1>5

LEMMA SyncOutcome ==
  ASSUME NEW flags, NEW first, NEW size, NEW o \in SyncOutcomes(flags, first, size)
  PROVE  /\ o.flags \in {flags, flags \ {"DIR_DIRTY"}}
         /\ \/ o.first = first /\ o.size = size /\ "DIR_DIRTY" \in flags
            \/ o.first = dirFirst /\ o.size = dirSize
         /\ o.ok /\ "DIR_DIRTY" \in flags => o.first = first /\ o.size = size
         /\ "DIR_DIRTY" \in flags /\ o.first = dirFirst /\ o.size = dirSize /\ o.ok =>
               o.first = first /\ o.size = size
BY DEF SyncOutcomes, Synced, Clear

-----------------------------------------------------------------------------
(* The steps of the file, one lemma for each. *)

LEMMA IntactEntry ==
  ASSUME FileAssumption, IInv, Intact, dirFirst = 0
  PROVE  dirSize = 0
<1>1. DOMAIN chain = 1 .. Len(chain) /\ Len(chain) \in Nat
  BY DEF IInv, TypeOK
<1>2. chain = <<>>
  BY <1>1, Cluster0 DEF Intact, IInv, TypeOK
<1>3. Len(chain) * BytesPerCluster = 0
  BY <1>2, Cluster0
<1> QED BY <1>3 DEF IInv, TypeOK, Position, Intact

LEMMA OpenFileStep ==
  ASSUME FileAssumption, IInv, NEW append \in SUBSET {"APPEND"}, openFile(append)
  PROVE  IInv'
<1> USE DEF openFile, Opened, data
<1>1. TypeOK'
  BY DEF IInv, TypeOK, Flags, cursor, entry, FileAssumption, Position
<1>2. Calls'
  BY DEF IInv, Calls, InTransferStep, entry
<1>3. EntryOK' /\ ChainOK'
  <2>2. dirFirst = 0 => dirSize = 0
    BY IntactEntry
  <2> QED BY <2>2 DEF IInv, EntryOK, ChainOK, Distinct, FirstOf, Intact, entry
<1>4. CursorOK' /\ SizesOK'
  BY DEF IInv, TypeOK, Calls, CursorOK, SizesOK, Live, InTransferStep, InWrite, AtPos, Intact,
     Position
<1>5. WrittenBelow' /\ WrittenInPlace'
  BY DEF IInv, WrittenBelow, WrittenInPlace, Live, InWrite, Calls
<1>6. ContiguousHolds' /\ EntryAgrees'
  BY DEF ContiguousHolds, Contiguous, EntryAgrees, entry
<1> QED BY <1>1, <1>2, <1>3, <1>4, <1>5, <1>6 DEF IInv

LEMMA EmptyChain ==
  ASSUME FileAssumption, chain' = <<>>, CutTo(0), IInv
  PROVE  /\ chain' \in Seq(Cluster) /\ Distinct' /\ Len(chain') * BytesPerCluster = 0
         /\ byte' = byte /\ written' \in BOOLEAN /\ ~written' /\ place' = {} /\ FirstOf(chain') = 0
         /\ WrittenInPlace' /\ DOMAIN chain' = {}
<1>1. byte \in Nat
  BY DEF IInv, TypeOK, Position, FileAssumption
<1>2. place' = {} /\ byte' = byte /\ written' \in BOOLEAN /\ ~written'
  <2>1. ~(byte < 0)
    BY <1>1
  <2>2. place' = {} /\ byte' = byte
    BY <2>1 DEF CutTo
  <2>3. written' \in BOOLEAN /\ ~written'
    BY <2>1, Zenon DEF CutTo
  <2> QED BY <2>2, <2>3
<1>3. /\ chain' \in Seq(Cluster) /\ Len(chain') = 0 /\ DOMAIN chain' = {}
      /\ FirstOf(chain') = 0 /\ Len(chain') * BytesPerCluster = 0
  BY Cluster0 DEF FirstOf
<1>4. Distinct' /\ WrittenInPlace'
  BY <1>2, <1>3, Zenon DEF Distinct, WrittenInPlace
<1> QED BY <1>2, <1>3, <1>4

LEMMA OpenTruncateStep ==
  ASSUME FileAssumption, IInv, NEW append \in SUBSET {"APPEND"}, openTruncate(append)
  PROVE  IInv'
<1>1. chain' = <<>> /\ CutTo(0) /\ ~open
  BY DEF openTruncate
<1>2. /\ chain' \in Seq(Cluster) /\ Distinct' /\ Len(chain') * BytesPerCluster = 0
      /\ byte' = byte /\ written' \in BOOLEAN /\ ~written' /\ place' = {} /\ FirstOf(chain') = 0
      /\ WrittenInPlace' /\ DOMAIN chain' = {}
  BY <1>1, EmptyChain
<1>3. CASE Opened(append \cup {"DIR_DIRTY"}, 0, 0)
  <2> USE DEF Opened, entry
  <2>1. TypeOK'
    <3>1. open' \in BOOLEAN
      BY <1>3, Zenon
    <3>2. 0 \in Position
      BY DEF FileAssumption, Position
    <3>3. m_flags' \subseteq Flags
      BY <1>3 DEF Flags
    <3> QED BY <1>2, <1>3, <3>1, <3>2, <3>3 DEF IInv, TypeOK
  <2>2. Calls' /\ EntryOK' /\ ChainOK'
    <3>1. dirFirst = 0 => dirSize = 0
      BY IntactEntry DEF openTruncate
    <3> QED BY <1>1, <1>2, <1>3, <3>1 DEF IInv, Calls, InTransferStep, EntryOK, ChainOK
  <2>3. CursorOK' /\ WrittenBelow'
    BY <1>1, <1>2, <1>3 DEF IInv, CursorOK, InTransferStep, AtPos, Calls, WrittenBelow
  <2>4. SizesOK'
    BY <1>1, <1>2, <1>3 DEF IInv, SizesOK, InWrite, Calls
  <2>5. ContiguousHolds' /\ EntryAgrees'
    BY <1>1, <1>2, <1>3 DEF ContiguousHolds, Contiguous, EntryAgrees
  <2> QED BY <1>2, <2>1, <2>2, <2>3, <2>4, <2>5 DEF IInv
<1>4. CASE UNCHANGED <<open, m_flags, cursor, m_fileSize, m_firstCluster, entry, pc, left>>
  <2> USE DEF cursor, entry
  <2>1. TypeOK'
    BY <1>1, <1>2, <1>4 DEF IInv, TypeOK
  <2>2. Calls' /\ EntryOK' /\ ChainOK'
    BY <1>1, <1>2, <1>4 DEF IInv, Calls, InTransferStep, EntryOK, ChainOK
  <2>3. CursorOK' /\ SizesOK' /\ WrittenBelow' /\ ContiguousHolds' /\ EntryAgrees'
    BY <1>1, <1>2, <1>4 DEF CursorOK, SizesOK, Live, WrittenBelow, ContiguousHolds, EntryAgrees
  <2> QED BY <1>2, <2>1, <2>2, <2>3 DEF IInv
<1> QED BY <1>3, <1>4 DEF openTruncate

LEMMA CreateStep == ASSUME FileAssumption, IInv, create PROVE IInv'
<1>1. chain' = <<>> /\ CutTo(0) /\ ~open /\ dirFirst' = 0 /\ dirSize' = 0
      /\ UNCHANGED <<open, m_flags, cursor, m_fileSize, m_firstCluster, pc, left>>
  BY DEF create
<1> USE DEF cursor
<1>2. /\ chain' \in Seq(Cluster) /\ Distinct'
      /\ byte' = byte /\ written' \in BOOLEAN /\ ~written' /\ place' = {} /\ WrittenInPlace'
  BY <1>1, EmptyChain
<1>3. TypeOK'
  <2> 0 \in Position
    BY DEF FileAssumption, Position
  <2> QED BY <1>1, <1>2 DEF IInv, TypeOK
<1>4. Calls' /\ EntryOK' /\ ChainOK'
  BY <1>1, <1>2 DEF IInv, Calls, InTransferStep, EntryOK, ChainOK
<1>5. CursorOK' /\ SizesOK' /\ WrittenBelow' /\ ContiguousHolds' /\ EntryAgrees'
  BY <1>1, <1>2 DEF CursorOK, SizesOK, Live, WrittenBelow, ContiguousHolds, EntryAgrees
<1> QED BY <1>2, <1>3, <1>4, <1>5 DEF IInv

(* A call that leaves the contents alone, and ends between two calls or in *)
(* the failure of the file.                                                *)
LEMMA WrittenKept ==
  ASSUME IInv, Live, UNCHANGED data, open', m_fileSize' = m_fileSize,
         ~InWrite, "PREALLOCATE" \in m_flags' => "PREALLOCATE" \in m_flags,
         "PREALLOCATE" \in m_flags' => m_curPosition' >= m_curPosition,
         m_curPosition \in Nat, m_curPosition' \in Nat
  PROVE  WrittenBelow' /\ WrittenInPlace'
<1>1. byte \in Int
  BY DEF IInv, TypeOK, Position
<1> QED BY <1>1 DEF IInv, WrittenBelow, WrittenInPlace, Live, InWrite, data

LEMMA SyncStep == ASSUME FileAssumption, OneCaller, IInv, sync PROVE IInv'
<1>1. PICK o \in SyncOutcomes(m_flags, m_firstCluster, m_fileSize) :
        /\ m_flags' = o.flags /\ dirFirst' = o.first /\ dirSize' = o.size
        /\ pc' = After(o.ok)
  BY DEF sync
<1>2. Usable /\ UNCHANGED <<open, cursor, m_fileSize, m_firstCluster, data, left>>
  BY DEF sync
<1>3. /\ o.flags \in {m_flags, m_flags \ {"DIR_DIRTY"}}
      /\ \/ o.first = m_firstCluster /\ o.size = m_fileSize
         \/ o.first = dirFirst /\ o.size = dirSize
      /\ o.ok /\ "DIR_DIRTY" \in m_flags => o.first = m_firstCluster /\ o.size = m_fileSize
      /\ "DIR_DIRTY" \notin m_flags => o.first = dirFirst /\ o.size = dirSize
  BY SyncOutcome
<1>4. pc' = IF o.ok THEN "idle" ELSE "close"
  BY <1>1 DEF After, AfterFailure, OneCaller
<1> USE DEF cursor, data, entry, Usable
<1>5. TypeOK'
  BY <1>1, <1>2, <1>3, <1>4 DEF IInv, TypeOK
<1>6. Calls' /\ ChainOK'
  BY <1>1, <1>2, <1>3, <1>4 DEF IInv, Calls, InTransferStep, ChainOK, Distinct
<1>7. EntryOK'
  <2>1. m_firstCluster = 0 => m_fileSize = 0
    <3> SUFFICES ASSUME m_firstCluster = 0 PROVE m_fileSize = 0
      OBVIOUS
    <3>1. Len(chain) = 0
      BY <1>2, Cluster0 DEF IInv, ChainOK, FirstOf, TypeOK
    <3> QED BY <1>2, <3>1, Cluster0 DEF IInv, SizesOK, Live, TypeOK, Position
  <2> QED BY <1>1, <1>2, <1>3, <2>1 DEF IInv, EntryOK
<1>8. CursorOK' /\ SizesOK'
  BY <1>1, <1>2, <1>4 DEF IInv, CursorOK, SizesOK, Live, InTransferStep, InWrite, AtPos
<1>9. WrittenBelow' /\ WrittenInPlace'
  <2>1. m_curPosition \in Nat
    BY DEF IInv, TypeOK, Position
  <2> QED BY <1>1, <1>2, <1>3, <2>1, WrittenKept DEF Live, InWrite
<1>10. ContiguousHolds'
  BY <1>1, <1>2, <1>3 DEF IInv, ContiguousHolds, Contiguous
<1>11. EntryAgrees'
  BY <1>1, <1>2, <1>3, <1>4 DEF IInv, EntryAgrees
<1> QED BY <1>5, <1>6, <1>7, <1>8, <1>9, <1>10, <1>11 DEF IInv

LEMMA CloseStep == ASSUME FileAssumption, OneCaller, IInv, close PROVE IInv'
<1>1. PICK o \in SyncOutcomes(m_flags, m_firstCluster, m_fileSize) :
        /\ dirFirst' = o.first /\ dirSize' = o.size
        /\ chain' = IF o.first = 0 THEN <<>> ELSE chain
        /\ CutTo(o.size)
  BY DEF close
<1>2. /\ open /\ pc \in {"idle", "close"} /\ pc' = "idle" /\ open' = FALSE /\ m_flags' = {}
      /\ m_curPosition' = 0 /\ m_curCluster' = 0 /\ m_fileSize' = 0 /\ m_firstCluster' = 0
      /\ left' = left
  BY DEF close
<1>3. \/ o.first = m_firstCluster /\ o.size = m_fileSize
      \/ o.first = dirFirst /\ o.size = dirSize
  BY SyncOutcome
<1>4. byte \in Nat /\ byte' = byte /\ written' = (written /\ byte < o.size)
      /\ place' = IF byte < o.size THEN place ELSE {}
  BY <1>1 DEF CutTo, IInv, TypeOK, Position
<1>5. o.first = 0 => ~written'
  <2> SUFFICES ASSUME o.first = 0, written PROVE ~(byte < o.size)
    BY <1>4
  <2>1. byte < Len(chain) * BytesPerCluster
    BY DEF IInv, WrittenInPlace
  <2>2. CASE o.first = m_firstCluster
    <3>1. Len(chain) = 0
      BY <1>2, <2>2, Cluster0 DEF IInv, ChainOK, FirstOf, TypeOK
    <3> QED BY <1>4, <2>1, <3>1, Cluster0
  <2>3. CASE o.first = dirFirst /\ o.size = dirSize
    BY <1>2, <1>4, <2>3 DEF IInv, EntryOK
  <2> QED BY <1>3, <2>2, <2>3
<1>6. TypeOK'
  <2>1. chain' \in Seq(Cluster) /\ place' \subseteq Cluster \X Offset
    BY <1>1, <1>4 DEF IInv, TypeOK
  <2>2. written' \in BOOLEAN /\ open' \in BOOLEAN
    BY <1>2, <1>4, Zenon
  <2>3. 0 \in Position
    BY DEF FileAssumption, Position
  <2>4. dirFirst' \in Cluster \cup {0} /\ dirSize' \in Position
    BY <1>1, <1>3 DEF IInv, TypeOK
  <2> QED BY <1>2, <1>4, <2>1, <2>2, <2>3, <2>4 DEF IInv, TypeOK
<1>7. Calls' /\ EntryOK'
  BY <1>2 DEF IInv, Calls, EntryOK, InTransferStep
<1>8. ChainOK'
  BY <1>1, <1>2 DEF IInv, ChainOK, Distinct
<1>9. CursorOK' /\ SizesOK' /\ ContiguousHolds' /\ EntryAgrees'
  BY <1>2 DEF CursorOK, SizesOK, ContiguousHolds, EntryAgrees, Live
<1>10. WrittenBelow'
  BY <1>1, <1>2, <1>4 DEF WrittenBelow, Live
<1>11. WrittenInPlace'
  BY <1>1, <1>4, <1>5 DEF IInv, WrittenInPlace
<1> QED BY <1>6, <1>7, <1>8, <1>9, <1>10, <1>11 DEF IInv

LEMMA IdleFacts ==
  ASSUME FileAssumption, IInv, Usable
  PROVE  /\ Live /\ left = 0 /\ ~InWrite /\ ~InTransferStep /\ pc = "idle" /\ open
         /\ AtPos(m_curPosition, m_curCluster)
         /\ m_curPosition \in 0 .. m_fileSize /\ m_fileSize \in Nat
         /\ m_fileSize <= Len(chain) * BytesPerCluster
         /\ Len(chain) \in Nat /\ Len(chain) * BytesPerCluster \in Nat
         /\ DOMAIN chain = 1 .. Len(chain)
         /\ m_firstCluster = FirstOf(chain)
         /\ 0 \in Position /\ 0 .. m_fileSize \subseteq Position
<1>1. /\ Live /\ left = 0 /\ ~InWrite /\ ~InTransferStep /\ pc = "idle" /\ open
      /\ m_firstCluster = FirstOf(chain)
  BY DEF Usable, Live, InTransferStep, InWrite, IInv, Calls, ChainOK
<1>2. AtPos(m_curPosition, m_curCluster)
  BY <1>1 DEF IInv, CursorOK
<1>3. Len(chain) \in Nat /\ DOMAIN chain = 1 .. Len(chain)
  BY DEF IInv, TypeOK
<1>4. Len(chain) * BytesPerCluster \in Nat
  BY <1>3, Cluster0
<1>5. /\ m_curPosition \in 0 .. m_fileSize /\ m_fileSize \in Nat
      /\ m_fileSize <= Len(chain) * BytesPerCluster
  BY <1>1 DEF IInv, TypeOK, Position, SizesOK
<1>6. 0 \in Position /\ 0 .. m_fileSize \subseteq Position
  BY DEF IInv, TypeOK, Position, FileAssumption
<1> QED BY <1>1, <1>2, <1>3, <1>4, <1>5, <1>6

LEMMA SeekSetStep ==
  ASSUME FileAssumption, OneCaller, IInv, NEW pos \in Position, seekSet(pos)
  PROVE  IInv'
<1>1. Usable /\ UNCHANGED <<open, m_fileSize, m_firstCluster, entry, data, left>>
  BY DEF seekSet
<1>2. PICK o \in seekOutcomes(pos) :
        /\ m_curPosition' = o.pos /\ m_curCluster' = o.cluster /\ m_flags' = o.flags
        /\ pc' = After(o.ok \/ pos > m_fileSize)
  BY DEF seekSet
<1>3. /\ o.flags \in {m_flags, m_flags \ {"PREALLOCATE"}}
      /\ o.pos \in 0 .. m_fileSize /\ o.cluster \in Cluster \cup {0}
      /\ AtPos(o.pos, o.cluster)
      /\ o.pos = m_curPosition \/ "PREALLOCATE" \notin o.flags
  BY <1>1, SeekOutcome
<1>4. pc' \in {"idle", "close"}
  BY <1>2 DEF After, AfterFailure, OneCaller
<1> USE DEF data, entry
<1>5. TypeOK'
  BY <1>1, <1>2, <1>3, <1>4, IdleFacts DEF IInv, TypeOK
<1>6. Calls' /\ EntryOK' /\ ChainOK'
  BY <1>1, <1>3, <1>4, IdleFacts DEF IInv, Calls, InTransferStep, EntryOK, ChainOK, Distinct
<1>7. CursorOK' /\ SizesOK'
  BY <1>1, <1>2, <1>3, <1>4, IdleFacts DEF CursorOK, SizesOK, InTransferStep, InWrite, AtPos
<1>8. WrittenBelow' /\ WrittenInPlace'
  BY <1>1, <1>2, <1>3, IdleFacts, WrittenKept
<1>9. ContiguousHolds' /\ EntryAgrees'
  BY <1>1, <1>2, <1>3, <1>4, IdleFacts DEF IInv, ContiguousHolds, Contiguous, EntryAgrees
<1> QED BY <1>5, <1>6, <1>7, <1>8, <1>9 DEF IInv

LEMMA FsetposStep ==
  ASSUME FileAssumption, OneCaller, IInv, NEW pos \in Position, fsetpos(pos)
  PROVE  IInv'
<1>1. /\ Usable /\ UNCHANGED <<open, m_flags, m_fileSize, m_firstCluster, entry, data, pc, left>>
      /\ "PREALLOCATE" \notin m_flags
      /\ pos <= m_fileSize /\ pos <= Len(chain) * BytesPerCluster
      /\ m_curPosition' = pos
      /\ m_curCluster' = IF pos = 0 THEN 0 ELSE chain[Index(pos) + 1]
  BY DEF fsetpos, OneCaller
<1>2. pos \in 0 .. m_fileSize /\ pos \in Nat
  BY <1>1 DEF Position
<1>3. AtPos(pos, m_curCluster') /\ m_curCluster' \in Cluster \cup {0}
  <2>1. CASE pos = 0
    BY <1>1, <2>1 DEF AtPos
  <2>2. CASE pos # 0
    <3>1. Index(pos) \in Nat /\ Index(pos) < Len(chain)
      BY <1>1, <1>2, <2>2, IdleFacts, PositionIndex
    <3>2. Index(pos) \in 0 .. Len(chain) - 1 /\ Index(pos) + 1 \in DOMAIN chain
      BY <1>1, <3>1, IdleFacts
    <3> QED BY <1>1, <2>2, <3>2 DEF AtPos, IInv, TypeOK
  <2> QED BY <2>1, <2>2
<1> USE DEF data, entry
<1>4. TypeOK'
  BY <1>1, <1>2, <1>3, IdleFacts DEF IInv, TypeOK
<1>5. Calls' /\ EntryOK' /\ ChainOK'
  BY <1>1, IdleFacts DEF IInv, Calls, InTransferStep, EntryOK, ChainOK, Distinct
<1>6. CursorOK' /\ SizesOK'
  BY <1>1, <1>2, <1>3, IdleFacts DEF CursorOK, SizesOK, InTransferStep, InWrite, AtPos
<1>7. WrittenBelow' /\ WrittenInPlace'
  BY <1>1, <1>2, IdleFacts, WrittenKept
<1>8. ContiguousHolds' /\ EntryAgrees'
  BY <1>1, IdleFacts DEF IInv, ContiguousHolds, Contiguous, EntryAgrees
<1> QED BY <1>4, <1>5, <1>6, <1>7, <1>8 DEF IInv

LEMMA ContiguousRangeStep ==
  ASSUME FileAssumption, OneCaller, IInv, contiguousRange
  PROVE  IInv'
<1>1. /\ Usable /\ UNCHANGED <<open, cursor, m_fileSize, m_firstCluster, entry, data, left>>
      /\ \/ Consecutive /\ m_flags' = m_flags \cup {"CONTIGUOUS"} /\ pc' = pc
         \/ pc' = "close" /\ m_flags' = m_flags
      /\ m_firstCluster # 0
  BY DEF contiguousRange, OneCaller, AfterFailure
<1> USE DEF data, entry, cursor
<1>2. TypeOK'
  BY <1>1, IdleFacts DEF IInv, TypeOK, Flags
<1>3. Calls' /\ EntryOK' /\ ChainOK'
  BY <1>1, IdleFacts DEF IInv, Calls, InTransferStep, EntryOK, ChainOK, Distinct
<1>4. CursorOK' /\ SizesOK'
  BY <1>1, IdleFacts DEF CursorOK, SizesOK, InTransferStep, InWrite, AtPos
<1>5. WrittenBelow' /\ WrittenInPlace'
  BY <1>1, IdleFacts, WrittenKept
<1>6. ContiguousHolds' /\ EntryAgrees'
  BY <1>1, IdleFacts DEF IInv, ContiguousHolds, Contiguous, EntryAgrees, Consecutive, FirstOf
<1> QED BY <1>2, <1>3, <1>4, <1>5, <1>6 DEF IInv

LEMMA PreAllocateStep ==
  ASSUME FileAssumption, OneCaller, IInv, NEW length \in 1 .. Word - 1, NEW b \in Cluster,
         preAllocate(length, b)
  PROVE  IInv'
<1> DEFINE need == 1 + Index(length)
           flags == m_flags \cup {"PREALLOCATE", "CONTIGUOUS", "DIR_DIRTY"}
<1>1. /\ Usable /\ m_firstCluster = 0 /\ b + need - 1 <= m_lastCluster
      /\ chain' = [i \in 1 .. need |-> b + i - 1]
      /\ m_firstCluster' = b /\ m_fileSize' = length
      /\ UNCHANGED <<open, cursor, byte, place, written, left>>
  BY DEF preAllocate
<1>2. PICK o \in SyncOutcomes(flags, b, length) :
        /\ m_flags' = o.flags /\ dirFirst' = o.first /\ dirSize' = o.size
        /\ pc' = After(o.ok)
  BY DEF preAllocate
<1>3. /\ o.flags \in {flags, flags \ {"DIR_DIRTY"}}
      /\ \/ o.first = b /\ o.size = length
         \/ o.first = dirFirst /\ o.size = dirSize
      /\ o.ok => o.first = b /\ o.size = length
  BY SyncOutcome
<1> HIDE DEF flags
<1>4. pc' = IF o.ok THEN "idle" ELSE "close"
  BY <1>2 DEF After, AfterFailure, OneCaller
<1>5. length \in Nat /\ length # 0 /\ need \in Nat \ {0} /\ length <= need * BytesPerCluster
  <2>1. length \in Nat /\ length # 0
    BY DEF FileAssumption
  <2>2. Index(length) \in Nat
    BY <2>1, PositionIndex
  <2>3. need \in Nat \ {0} /\ Index(length) < need
    BY <2>2
  <2>4. length <= need * BytesPerCluster
    BY <2>1, <2>3, PositionIndex
  <2> QED BY <2>1, <2>3, <2>4
<1> HIDE DEF need
<1>6. /\ chain' \in Seq(Cluster) /\ Len(chain') = need /\ DOMAIN chain' = 1 .. need
      /\ b \in Nat /\ chain' # <<>> /\ \A i \in 1 .. need : chain'[i] = b + i - 1
  <2>1. b \in Nat /\ \A i \in 1 .. need : b + i - 1 \in Cluster
    BY <1>1, <1>5, Cluster0 DEF Cluster, FileAssumption
  <2> QED BY <1>1, <1>5, <2>1
<1>7. chain = <<>> /\ m_curPosition = 0 /\ m_curCluster = 0 /\ ~written
  <2>1. Len(chain) = 0 /\ chain = <<>>
    BY <1>1, IdleFacts, Cluster0 DEF FirstOf, IInv, TypeOK
  <2>2. Len(chain) * BytesPerCluster = 0
    BY <2>1, Cluster0
  <2> QED BY <1>1, <2>1, <2>2, IdleFacts DEF AtPos, IInv, WrittenInPlace, TypeOK, Position
<1> USE DEF cursor
<1>8. TypeOK'
  <2>1. m_flags' \subseteq Flags
    BY <1>2, <1>3 DEF IInv, TypeOK, Flags, flags
  <2>2. dirFirst' \in Cluster \cup {0} /\ dirSize' \in Position /\ m_fileSize' \in Position
    BY <1>1, <1>2, <1>3, <1>5 DEF IInv, TypeOK, Position
  <2> QED BY <1>1, <1>4, <1>6, <2>1, <2>2 DEF IInv, TypeOK
<1>9. Calls' /\ EntryOK'
  BY <1>1, <1>2, <1>3, <1>4, Cluster0, IdleFacts DEF IInv, Calls, InTransferStep, EntryOK
<1>10. ChainOK'
  BY <1>1, <1>5, <1>6 DEF ChainOK, Distinct, FirstOf
<1>11. CursorOK' /\ SizesOK'
  BY <1>1, <1>4, <1>5, <1>6, <1>7, IdleFacts DEF CursorOK, SizesOK, InTransferStep, InWrite, AtPos
<1>12. WrittenBelow' /\ WrittenInPlace'
  BY <1>1, <1>7 DEF WrittenBelow, WrittenInPlace
<1>13. ContiguousHolds'
  BY <1>1, <1>6 DEF ContiguousHolds
<1>14. EntryAgrees'
  BY <1>1, <1>2, <1>3, <1>4 DEF EntryAgrees
<1> QED BY <1>8, <1>9, <1>10, <1>11, <1>12, <1>13, <1>14 DEF IInv

LEMMA TruncateStep == ASSUME FileAssumption, OneCaller, IInv, truncate PROVE IInv'
<1>1. Usable /\ m_firstCluster # 0 /\ UNCHANGED <<open, cursor, left>>
  BY DEF truncate
<1> USE DEF cursor
<1>2. CASE /\ TruncateFails
           /\ UNCHANGED <<data, m_firstCluster, m_fileSize, m_flags, entry>>
  <2> USE DEF data, entry
  <2>1. pc' = "close"
    BY <1>2 DEF TruncateFails
  <2>2. TypeOK' /\ Calls' /\ EntryOK' /\ ChainOK'
    BY <1>1, <1>2, <2>1, IdleFacts
       DEF IInv, TypeOK, Calls, InTransferStep, EntryOK, ChainOK, Distinct
  <2>3. CursorOK' /\ SizesOK' /\ EntryAgrees'
    BY <2>1 DEF CursorOK, SizesOK, Live, EntryAgrees
  <2>4. WrittenBelow' /\ WrittenInPlace' /\ ContiguousHolds'
    BY <1>1, <1>2, <2>1, IdleFacts
       DEF IInv, WrittenBelow, WrittenInPlace, ContiguousHolds, Contiguous, Live
  <2> QED BY <2>2, <2>3, <2>4 DEF IInv
<1>3. CASE /\ chain' = SubSeq(chain, 1, CutAt)
           /\ m_firstCluster' = IF m_curCluster = 0 THEN 0 ELSE m_firstCluster
           /\ CutTo(m_curPosition)
           /\ \/ TruncateEnds
              \/ /\ TruncateFails /\ CutAt < Len(chain)
                 /\ UNCHANGED <<m_fileSize, m_flags, entry>>
  <2>1. /\ CutAt \in 0 .. Len(chain)
        /\ CutAt = 0 <=> m_curCluster = 0
        /\ m_curPosition <= CutAt * BytesPerCluster
        /\ m_curPosition = 0 <=> CutAt = 0
        /\ m_curPosition # 0 => CutAt = Index(m_curPosition) + 1
    <3>1. CASE m_curPosition = 0
      BY <3>1, IdleFacts, <1>1, Cluster0 DEF AtPos, CutAt
    <3>2. CASE m_curPosition # 0
      <4> DEFINE n == Index(m_curPosition)
      <4>1. n \in 0 .. Len(chain) - 1 /\ n + 1 \in DOMAIN chain /\ m_curCluster = chain[n + 1]
            /\ m_curPosition \in Nat
        BY <3>2, <1>1, IdleFacts DEF AtPos
      <4>2. m_curPosition <= (n + 1) * BytesPerCluster
        BY <3>2, <4>1, PositionIndex
      <4> HIDE DEF n
      <4>3. m_curCluster # 0
        BY <4>1, Cluster0 DEF IInv, TypeOK
      <4>4. (CHOOSE i \in DOMAIN chain : chain[i] = m_curCluster) = n + 1
        BY <4>1 DEF IInv, ChainOK, Distinct
      <4>5. CutAt = n + 1
        BY <4>3, <4>4 DEF CutAt
      <4> QED BY <3>2, <4>1, <4>2, <4>3, <4>5, <1>1, IdleFacts DEF n
    <3> QED BY <3>1, <3>2
  <2>2. /\ chain' \in Seq(Cluster) /\ Len(chain') = CutAt
        /\ DOMAIN chain' = 1 .. CutAt /\ \A i \in 1 .. CutAt : chain'[i] = chain[i]
        /\ 1 .. CutAt \subseteq DOMAIN chain
    BY <1>3, <2>1, <1>1, IdleFacts DEF IInv, TypeOK
  <2>3. /\ byte' = byte /\ byte \in Nat /\ (written' => written /\ byte < m_curPosition)
        /\ place' = IF byte < m_curPosition THEN place ELSE {}
        /\ written' \in BOOLEAN
    <3>1. written' \in BOOLEAN
      BY <1>3, Zenon DEF CutTo
    <3>2. byte \in Nat
      BY DEF IInv, TypeOK, Position
    <3> QED BY <1>3, <3>1, <3>2 DEF CutTo
  <2>4. Distinct'
    BY <2>2 DEF IInv, ChainOK, Distinct
  <2>5. m_firstCluster' = FirstOf(chain')
    BY <1>1, <1>3, <2>1, <2>2, IdleFacts DEF FirstOf
  <2>6. ASSUME "CONTIGUOUS" \in m_flags
        PROVE  \A i \in DOMAIN chain' : chain'[i] = m_firstCluster' + i - 1
    <3>1. \A i \in DOMAIN chain : chain[i] = m_firstCluster + i - 1
      BY <1>1, <2>6, IdleFacts DEF IInv, ContiguousHolds, Contiguous
    <3> QED BY <1>3, <2>1, <2>2, <3>1
  <2>7. WrittenInPlace'
    <3> SUFFICES ASSUME written'
                 PROVE  /\ byte < CutAt * BytesPerCluster
                        /\ <<chain'[byte \div BytesPerCluster + 1], byte % BytesPerCluster>>
                             \in place'
      BY <2>2, <2>3 DEF WrittenInPlace
    <3>1. /\ written /\ byte < m_curPosition
          /\ <<chain[byte \div BytesPerCluster + 1], byte % BytesPerCluster>> \in place
      BY <2>3 DEF IInv, WrittenInPlace
    <3>2. CutAt * BytesPerCluster \in Nat /\ m_curPosition \in Nat
      BY <2>1, Cluster0, IdleFacts, <1>1
    <3>3. byte < CutAt * BytesPerCluster
      BY <2>1, <2>3, <3>1, <3>2
    <3>4. byte \div BytesPerCluster \in Nat /\ byte \div BytesPerCluster < CutAt
      <4>1. byte \div BytesPerCluster \in Nat
        BY <2>3, Cluster0, DivMod
      <4>2. CutAt \in Nat
        BY <2>1, IdleFacts, <1>1
      <4>3. byte \div BytesPerCluster < CutAt
        BY <2>3, <3>3, <4>2, Cluster0, Mono
      <4> QED BY <4>1, <4>3
    <3>5. chain'[byte \div BytesPerCluster + 1] = chain[byte \div BytesPerCluster + 1]
      BY <2>1, <2>2, <3>4
    <3> QED BY <2>3, <3>1, <3>3, <3>5
  <2>8. place' \subseteq Cluster \X Offset
    BY <2>3 DEF IInv, TypeOK
  <2>9. m_firstCluster' \in Cluster \cup {0}
    BY <1>3 DEF IInv, TypeOK
  <2>10. CASE TruncateEnds
    <3> DEFINE flags == m_flags \cup {"DIR_DIRTY"}
    <3>1. m_fileSize' = m_curPosition
      BY <2>10 DEF TruncateEnds
    <3>2. PICK o \in SyncOutcomes(flags, m_firstCluster', m_curPosition) :
            /\ m_flags' = o.flags /\ dirFirst' = o.first /\ dirSize' = o.size
            /\ pc' = IF o.ok THEN "idle" ELSE "close"
      BY <2>10 DEF TruncateEnds
    <3>3. /\ o.flags \in {flags, flags \ {"DIR_DIRTY"}}
          /\ \/ o.first = m_firstCluster' /\ o.size = m_curPosition
             \/ o.first = dirFirst /\ o.size = dirSize
          /\ o.ok => o.first = m_firstCluster' /\ o.size = m_curPosition
      BY SyncOutcome
    <3>4. m_flags' \subseteq Flags /\ ("CONTIGUOUS" \in m_flags' => "CONTIGUOUS" \in m_flags)
      BY <3>2, <3>3 DEF IInv, TypeOK, Flags
    <3> HIDE DEF flags
    <3>5. dirFirst' \in Cluster \cup {0} /\ dirSize' \in Position /\ m_fileSize' \in Position
      BY <2>9, <3>1, <3>2, <3>3 DEF IInv, TypeOK
    <3>6. TypeOK'
      BY <1>1, <2>2, <2>3, <2>8, <2>9, <3>2, <3>4, <3>5 DEF IInv, TypeOK
    <3>7. Calls' /\ ChainOK'
      BY <1>1, <2>4, <2>5, <3>2, IdleFacts DEF Calls, ChainOK, InTransferStep
    <3>8. EntryOK'
      <4>1. m_firstCluster' = 0 => m_curPosition = 0
        BY <1>1, <1>3, <2>1, IdleFacts
      <4>2. dirFirst = 0 => dirSize = 0
        BY <1>1 DEF IInv, EntryOK, Usable
      <4>3. o.first = 0 => o.size = 0
        BY <3>3, <4>1, <4>2, Zenon
      <4>4. dirFirst' = o.first /\ dirSize' = o.size
        BY <3>2
      <4> QED BY <4>3, <4>4, Zenon DEF EntryOK
    <3>9. CursorOK' /\ SizesOK'
      <4>1. AtPos(m_curPosition, m_curCluster)'
        BY <1>1, <2>1, <2>2, IdleFacts DEF AtPos
      <4> QED BY <1>1, <2>1, <2>2, <3>1, <3>2, <4>1, IdleFacts
              DEF CursorOK, SizesOK, InTransferStep, InWrite, Live
    <3>10. WrittenBelow'
      BY <1>1, <2>3, <3>1, IdleFacts DEF WrittenBelow
    <3>11. ContiguousHolds'
      BY <2>6, <3>4 DEF ContiguousHolds, Contiguous
    <3>12. EntryAgrees'
      BY <3>1, <3>2, <3>3 DEF EntryAgrees
    <3> QED BY <2>7, <3>6, <3>7, <3>8, <3>9, <3>10, <3>11, <3>12 DEF IInv
  <2>11. CASE TruncateFails /\ UNCHANGED <<m_fileSize, m_flags, entry>>
    <3>1. pc' = "close"
      BY <2>11 DEF TruncateFails
    <3>2. TypeOK'
      BY <1>1, <2>2, <2>3, <2>8, <2>9, <2>11, <3>1 DEF IInv, TypeOK, entry
    <3>3. Calls' /\ EntryOK' /\ ChainOK'
      BY <1>1, <2>4, <2>5, <2>11, <3>1, IdleFacts
         DEF IInv, Calls, InTransferStep, EntryOK, ChainOK, entry
    <3>4. CursorOK' /\ SizesOK' /\ EntryAgrees' /\ WrittenBelow'
      BY <1>1, <3>1, IdleFacts DEF CursorOK, SizesOK, Live, EntryAgrees, WrittenBelow
    <3>5. ContiguousHolds'
      BY <2>6, <2>11 DEF ContiguousHolds, Contiguous
    <3> QED BY <2>7, <3>2, <3>3, <3>4, <3>5 DEF IInv
  <2> QED BY <1>3, <2>10, <2>11
<1> QED BY <1>2, <1>3 DEF truncate

-----------------------------------------------------------------------------
(* Reads. *)

LEMMA TransferFacts ==
  ASSUME FileAssumption, IInv, pc \in {"read", "read_io", "write", "write_io"}
  PROVE  /\ Live /\ open /\ pc # "close"
         /\ m_curPosition \in Nat /\ m_fileSize \in Nat /\ left \in Nat /\ byte \in Nat
         /\ Len(chain) \in Nat /\ Len(chain) * BytesPerCluster \in Nat
         /\ DOMAIN chain = 1 .. Len(chain)
         /\ \A i \in 1 .. Len(chain) : chain[i] \in Cluster
         /\ m_fileSize <= Len(chain) * BytesPerCluster
         /\ m_firstCluster = FirstOf(chain)
         /\ m_curPosition \div BytesPerCluster \in Nat
<1>1. Live /\ open /\ pc # "close" /\ m_firstCluster = FirstOf(chain)
  BY DEF IInv, Calls, Live, ChainOK
<1>2. /\ m_curPosition \in Nat /\ m_fileSize \in Nat /\ left \in Nat /\ byte \in Nat
      /\ Len(chain) \in Nat /\ DOMAIN chain = 1 .. Len(chain)
      /\ \A i \in 1 .. Len(chain) : chain[i] \in Cluster
  BY DEF IInv, TypeOK, Position
<1>3. Len(chain) * BytesPerCluster \in Nat
  BY <1>2, Cluster0
<1>4. m_fileSize <= Len(chain) * BytesPerCluster
  BY <1>1 DEF IInv, SizesOK
<1>5. m_curPosition \div BytesPerCluster \in Nat
  BY <1>2, Cluster0, DivMod
<1> QED BY <1>1, <1>2, <1>3, <1>4, <1>5

(* The cluster that holds the position, from the one that ends at it. *)
LEMMA NextCluster ==
  ASSUME FileAssumption, IInv, pc \in {"read", "write"}, AtCluster, m_curPosition # 0
  PROVE  LET n == m_curPosition \div BytesPerCluster IN
         /\ n \in 1 .. Len(chain)
         /\ m_curCluster \in Owned \cap Cluster
         /\ FatValue(m_curCluster) = IF n < Len(chain) THEN chain[n + 1] ELSE EOC
         /\ Contiguous /\ n < Len(chain) => m_curCluster + 1 = chain[n + 1]
<1> DEFINE n == m_curPosition \div BytesPerCluster
<1>1. AtPos(m_curPosition, m_curCluster)
  BY TransferFacts DEF IInv, CursorOK, InTransferStep
<1>2. Index(m_curPosition) + 1 = n
  BY TransferFacts, PositionIndex DEF AtCluster, CursorOffset
<1>3. Index(m_curPosition) \in 0 .. Len(chain) - 1 /\ m_curCluster = chain[n]
  BY <1>1, <1>2 DEF AtPos
<1> HIDE DEF n
<1>4. n \in 1 .. Len(chain) /\ n \in DOMAIN chain
  BY <1>2, <1>3, TransferFacts
<1>5. m_curCluster \in Owned \cap Cluster
  BY <1>3, <1>4, TransferFacts DEF Owned
<1>6. FatValue(m_curCluster) = Behind(n, 1)
  BY <1>3, <1>4, FatValueIs DEF IInv, TypeOK, ChainOK
<1>7. FatValue(m_curCluster) = IF n < Len(chain) THEN chain[n + 1] ELSE EOC
  BY <1>4, <1>6, TransferFacts DEF Behind
<1>8. ASSUME Contiguous, n < Len(chain) PROVE m_curCluster + 1 = chain[n + 1]
  <2>1. \A i \in DOMAIN chain : chain[i] = m_firstCluster + i - 1
    BY <1>8, TransferFacts DEF IInv, ContiguousHolds
  <2>2. n + 1 \in DOMAIN chain
    BY <1>4, <1>8, TransferFacts
  <2>3. m_firstCluster \in Nat
    BY Cluster0 DEF IInv, TypeOK
  <2> QED BY <1>3, <1>4, <2>1, <2>2, <2>3
<1> QED BY <1>4, <1>5, <1>7, <1>8, Zenon DEF n

LEMMA InsideCluster ==
  ASSUME FileAssumption, IInv, pc \in {"read", "write"}, ~AtCluster
  PROVE  /\ m_curPosition < Len(chain) * BytesPerCluster
         /\ m_curCluster = chain[m_curPosition \div BytesPerCluster + 1]
<1>1. AtPos(m_curPosition, m_curCluster)
  BY TransferFacts DEF IInv, CursorOK, InTransferStep
<1>2. m_curPosition # 0 /\ Index(m_curPosition) = m_curPosition \div BytesPerCluster
  BY TransferFacts, PositionIndex DEF AtCluster, CursorOffset
<1>3. m_curPosition \div BytesPerCluster < Len(chain)
      /\ m_curCluster = chain[m_curPosition \div BytesPerCluster + 1]
  BY <1>1, <1>2, TransferFacts DEF AtPos
<1> QED BY <1>3, TransferFacts, Cluster0, Mono

LEMMA ReadKeeps ==
  ASSUME FileAssumption, IInv, open, ~InWrite, pc # "close",
         UNCHANGED <<open, m_flags, m_fileSize, m_firstCluster, entry, data>>,
         pc' \in {"idle", "read", "read_io", "close"}, left' \in 0 .. MaxTransfer,
         pc' \in {"idle", "close"} => left' = 0, pc' = "read_io" => left' > 0,
         m_curPosition' \in Position, m_curPosition' >= m_curPosition,
         m_curCluster' \in Cluster \cup {0},
         pc' # "close" => m_curPosition' + left' <= m_fileSize,
         pc' \in {"idle", "read"} => AtPos(m_curPosition', m_curCluster'),
         pc' = "read_io" => RightCluster'
  PROVE  IInv'
<1> USE DEF entry, data
<1>1. TypeOK'
  BY DEF IInv, TypeOK
<1>2. Calls' /\ EntryOK' /\ ChainOK'
  BY DEF IInv, Calls, InTransferStep, EntryOK, ChainOK, Distinct
<1>3. CursorOK' /\ SizesOK'
  BY DEF IInv, CursorOK, SizesOK, InTransferStep, InWrite, AtPos, Live
<1>4. WrittenBelow' /\ WrittenInPlace'
  <2>1. m_curPosition \in Nat /\ m_curPosition' \in Nat /\ Live
    BY DEF IInv, TypeOK, Position, Live
  <2> QED BY <2>1, WrittenKept
<1>5. ContiguousHolds' /\ EntryAgrees'
  BY DEF IInv, ContiguousHolds, Contiguous, EntryAgrees
<1> QED BY <1>1, <1>2, <1>3, <1>4, <1>5 DEF IInv

LEMMA ReadCallStep ==
  ASSUME FileAssumption, IInv, NEW n \in 1 .. MaxTransfer, readCall(n)
  PROVE  IInv'
<1>1. /\ Usable /\ left' = ToRead(n) /\ pc' = "read"
      /\ UNCHANGED <<open, m_flags, cursor, m_fileSize, m_firstCluster, entry, data>>
  BY DEF readCall
<1>2. (m_fileSize - m_curPosition) % Word = m_fileSize - m_curPosition
  <2>1. m_fileSize - m_curPosition \in 0 .. Word - 1 /\ Word \in Nat \ {0}
    BY <1>1, IdleFacts DEF IInv, TypeOK, Position, FileAssumption
  <2> QED BY <2>1
<1>3. left' \in 0 .. n /\ m_curPosition + left' <= m_fileSize
  BY <1>1, <1>2, IdleFacts DEF ToRead, Smaller
<1>4. left' \in 0 .. MaxTransfer
  BY <1>3 DEF FileAssumption
<1>5. m_curPosition \in Nat /\ m_curPosition \in Position /\ m_curCluster \in Cluster \cup {0}
  BY DEF IInv, TypeOK, Position
<1> QED BY <1>1, <1>3, <1>4, <1>5, IdleFacts, ReadKeeps DEF cursor

LEMMA ReadClusterStep == ASSUME FileAssumption, OneCaller, IInv, ReadCluster PROVE IInv'
<1> DEFINE n == m_curPosition \div BytesPerCluster
<1>1. /\ pc = "read" /\ left > 0 /\ UNCHANGED m_curPosition
      /\ UNCHANGED <<open, m_flags, m_fileSize, m_firstCluster, entry, data>>
  BY DEF ReadCluster
<1>2. /\ ~InWrite /\ m_curPosition \in Position /\ left \in 0 .. MaxTransfer
      /\ m_curPosition + left <= m_fileSize /\ m_curCluster \in Cluster \cup {0}
      /\ AtPos(m_curPosition, m_curCluster)
  BY <1>1, TransferFacts DEF InWrite, IInv, TypeOK, SizesOK, CursorOK, InTransferStep
<1>3. m_curPosition < Len(chain) * BytesPerCluster /\ n < Len(chain)
  <2>1. m_curPosition < Len(chain) * BytesPerCluster
    BY <1>1, <1>2, TransferFacts
  <2> QED BY <1>1, <2>1, TransferFacts, Cluster0, Mono
<1>4. n + 1 \in DOMAIN chain /\ chain[n + 1] \in Cluster
  BY <1>1, <1>3, TransferFacts
<1>5. CASE pc' = "read_io" /\ UNCHANGED left /\ m_curCluster' = chain[n + 1]
  <2>1. RightCluster'
    BY <1>1, <1>3, <1>5 DEF RightCluster, data
  <2> QED BY <1>1, <1>2, <1>4, <1>5, <2>1, TransferFacts, ReadKeeps
<1>6. CASE pc' = "close" /\ left' = 0 /\ UNCHANGED m_curCluster
  <2>1. 0 \in 0 .. MaxTransfer
    BY DEF FileAssumption
  <2> QED BY <1>1, <1>2, <1>6, <2>1, TransferFacts, ReadKeeps
<1>7. CASE pc' = "read_io" /\ ~AtCluster /\ UNCHANGED <<m_curCluster, left>>
  BY <1>1, <1>5, <1>7, InsideCluster
<1>8. CASE /\ AtCluster
           /\ m_curCluster' = IF m_curPosition = 0 THEN m_firstCluster
                              ELSE IF Contiguous THEN m_curCluster + 1
                              ELSE FatValue(m_curCluster)
           /\ pc' = "read_io" /\ UNCHANGED left
  <2>1. CASE m_curPosition = 0
    <3>1. n = 0
      BY <2>1, Cluster0
    <3>2. m_firstCluster = chain[1]
      BY <1>1, <1>4, <3>1, TransferFacts DEF FirstOf
    <3> QED BY <1>5, <1>8, <2>1, <3>1, <3>2
  <2>2. CASE m_curPosition # 0 /\ Contiguous
    BY <1>1, <1>3, <1>5, <1>8, <2>2, NextCluster
  <2>3. CASE m_curPosition # 0 /\ ~Contiguous
    BY <1>1, <1>3, <1>5, <1>8, <2>3, NextCluster
  <2> QED BY <2>1, <2>2, <2>3
<1> QED BY <1>6, <1>7, <1>8 DEF ReadCluster, Fail, AfterFailure, OneCaller

LEMMA AfterChunk ==
  ASSUME FileAssumption, IInv, pc \in {"read_io", "write_io"}, NEW k \in {PartOfSector, Chunk}
  PROVE  /\ k \in 1 .. left /\ CursorOffset + k <= BytesPerCluster
         /\ CursorOffset \in 0 .. BytesPerCluster - 1
         /\ AtPos(m_curPosition + k, m_curCluster) /\ m_curCluster \in Cluster
         /\ m_curPosition \div BytesPerCluster < Len(chain)
         /\ m_curPosition \div BytesPerCluster + 1 \in DOMAIN chain
         /\ m_curCluster = chain[m_curPosition \div BytesPerCluster + 1]
         /\ m_curPosition < Len(chain) * BytesPerCluster
<1>1. left \in Nat \ {0}
  BY TransferFacts DEF IInv, Calls, InTransferStep
<1>2. k \in 1 .. left /\ CursorOffset + k <= BytesPerCluster
  BY <1>1, TransferFacts, ChunkFits
<1>3. CursorOffset \in 0 .. BytesPerCluster - 1
  BY TransferFacts, Cluster0, DivMod DEF CursorOffset
<1>4. /\ m_curPosition < Len(chain) * BytesPerCluster
      /\ m_curCluster = chain[m_curPosition \div BytesPerCluster + 1]
  BY TransferFacts DEF IInv, CursorOK, InTransferStep, RightCluster
<1>5. m_curPosition \div BytesPerCluster < Len(chain)
  BY <1>4, TransferFacts, Cluster0, Mono
<1>6. Index(m_curPosition + k) = m_curPosition \div BytesPerCluster
  <2>1. k \in Nat \ {0}
    BY <1>1, <1>2
  <2> QED BY <1>2, <2>1, TransferFacts, PositionIndex DEF CursorOffset
<1>7. m_curPosition \div BytesPerCluster + 1 \in DOMAIN chain /\ m_curCluster \in Cluster
  BY <1>4, <1>5, TransferFacts
<1>8. AtPos(m_curPosition + k, m_curCluster)
  <2>1. m_curPosition + k # 0
    BY <1>1, <1>2, TransferFacts
  <2> QED BY <1>4, <1>5, <1>6, <2>1, TransferFacts DEF AtPos
<1> QED BY <1>2, <1>3, <1>4, <1>5, <1>7, <1>8

LEMMA ReadTransferStep == ASSUME FileAssumption, OneCaller, IInv, ReadTransfer PROVE IInv'
<1>1. /\ pc = "read_io"
      /\ UNCHANGED <<open, m_flags, m_curCluster, m_fileSize, m_firstCluster, entry, data>>
  BY DEF ReadTransfer
<1>2. /\ ~InWrite /\ m_curPosition \in Position /\ left \in 0 .. MaxTransfer
      /\ m_curPosition + left <= m_fileSize /\ m_curCluster \in Cluster \cup {0}
      /\ m_fileSize \in Position
  BY <1>1, TransferFacts DEF InWrite, IInv, TypeOK, SizesOK, InTransferStep
<1>3. ASSUME NEW k \in {PartOfSector, Chunk}, m_curPosition' = m_curPosition + k,
             left' = left - k, pc' = "read"
      PROVE  IInv'
  <2>1. k \in 1 .. left /\ AtPos(m_curPosition + k, m_curCluster)
    BY <1>1, AfterChunk
  <2>2. /\ left' \in 0 .. MaxTransfer /\ m_curPosition' \in Position
        /\ m_curPosition' >= m_curPosition /\ m_curPosition' + left' <= m_fileSize
    BY <1>1, <1>2, <1>3, <2>1, TransferFacts DEF Position, FileAssumption
  <2> QED BY <1>1, <1>2, <1>3, <2>1, <2>2, TransferFacts, ReadKeeps
<1>4. CASE Fail /\ UNCHANGED m_curPosition
  <2>1. pc' = "close" /\ left' = 0 /\ 0 \in 0 .. MaxTransfer
    BY <1>4 DEF Fail, AfterFailure, OneCaller, FileAssumption
  <2> QED BY <1>1, <1>2, <1>4, <2>1, TransferFacts, ReadKeeps
<1> QED BY <1>3, <1>4 DEF ReadTransfer

LEMMA ReadEndsStep == ASSUME FileAssumption, IInv, ReadEnds PROVE IInv'
<1>1. /\ pc = "read" /\ left = 0 /\ pc' = "idle"
      /\ UNCHANGED <<open, m_flags, cursor, m_fileSize, m_firstCluster, entry, data, left>>
  BY DEF ReadEnds
<1>2. /\ ~InWrite /\ m_curPosition \in Position /\ left \in 0 .. MaxTransfer
      /\ m_curPosition + left <= m_fileSize /\ m_curCluster \in Cluster \cup {0}
      /\ AtPos(m_curPosition, m_curCluster)
  BY <1>1, TransferFacts DEF InWrite, IInv, TypeOK, SizesOK, CursorOK, InTransferStep
<1> QED BY <1>1, <1>2, TransferFacts, ReadKeeps DEF cursor

-----------------------------------------------------------------------------
(* Writes. *)

LEMMA WriteCallStep ==
  ASSUME FileAssumption, OneCaller, IInv, NEW n \in 1 .. MaxTransfer, writeCall(n)
  PROVE  IInv'
<1>1. Usable /\ UNCHANGED <<open, m_fileSize, m_firstCluster, entry, data>>
  BY DEF writeCall
<1>2. PICK o \in IF "APPEND" \in m_flags THEN seekOutcomes(m_fileSize)
                 ELSE {Sought(TRUE, m_curPosition, m_curCluster, m_flags)} :
        /\ m_curPosition' = o.pos /\ m_curCluster' = o.cluster /\ m_flags' = o.flags
        /\ \/ o.ok /\ ~TooLong(n, o.pos) /\ left' = n /\ pc' = "write"
           \/ o.ok /\ TooLong(n, o.pos) /\ UNCHANGED <<left, pc>>
           \/ ~o.ok /\ Fail
  BY DEF writeCall
<1>3. /\ o.flags \in {m_flags, m_flags \ {"PREALLOCATE"}}
      /\ o.pos \in 0 .. m_fileSize /\ o.cluster \in Cluster \cup {0}
      /\ AtPos(o.pos, o.cluster)
      /\ o.pos = m_curPosition \/ "PREALLOCATE" \notin o.flags
  <2>1. CASE "APPEND" \in m_flags
    <3>1. o \in seekOutcomes(m_fileSize) /\ m_fileSize \in Position
      BY <1>2, <2>1 DEF IInv, TypeOK
    <3> QED BY <1>1, <3>1, SeekOutcome
  <2>2. CASE "APPEND" \notin m_flags
    <3>1. o = Sought(TRUE, m_curPosition, m_curCluster, m_flags)
      BY <1>2, <2>2
    <3>2. m_curCluster \in Cluster \cup {0}
      BY DEF IInv, TypeOK
    <3> QED BY <1>1, <3>1, <3>2, IdleFacts DEF Sought
  <2> QED BY <2>1, <2>2
<1>4. \/ left' = n /\ pc' = "write" /\ m_curPosition' + n < Word
      \/ left' = 0 /\ pc' \in {"idle", "close"}
  <2>1. ~TooLong(n, o.pos) => o.pos + n < Word
    BY <1>1, <1>3, IdleFacts DEF TooLong, FileAssumption
  <2> QED BY <1>1, <1>2, <2>1, IdleFacts DEF Fail, AfterFailure, OneCaller
<1>5. n \in Nat /\ left' \in 0 .. MaxTransfer
  BY <1>4 DEF FileAssumption
<1> USE DEF data, entry
<1>6. TypeOK'
  <2>1. m_curPosition' \in Position /\ m_curCluster' \in Cluster \cup {0}
    BY <1>1, <1>2, <1>3, IdleFacts
  <2> QED BY <1>1, <1>2, <1>3, <1>4, <1>5, <2>1 DEF IInv, TypeOK
<1>7. Calls' /\ EntryOK' /\ ChainOK'
  BY <1>1, <1>3, <1>4, IdleFacts DEF IInv, Calls, InTransferStep, EntryOK, ChainOK, Distinct
<1>8. CursorOK'
  BY <1>1, <1>2, <1>3, <1>4, IdleFacts DEF CursorOK, InTransferStep, AtPos
<1>9. SizesOK'
  BY <1>1, <1>2, <1>3, <1>4, IdleFacts DEF SizesOK, InWrite
<1>10. WrittenBelow' /\ WrittenInPlace'
  BY <1>1, <1>2, <1>3, IdleFacts, WrittenKept
<1>11. ContiguousHolds' /\ EntryAgrees'
  BY <1>1, <1>2, <1>3, <1>4, IdleFacts DEF IInv, ContiguousHolds, Contiguous, EntryAgrees
<1> QED BY <1>6, <1>7, <1>8, <1>9, <1>10, <1>11 DEF IInv

LEMMA WriteFacts ==
  ASSUME FileAssumption, IInv, InWrite
  PROVE  /\ Live /\ open /\ m_curPosition + left < Word /\ left \in 0 .. MaxTransfer
         /\ m_curPosition \in Position /\ m_curCluster \in Cluster \cup {0}
         /\ 0 \in 0 .. MaxTransfer
BY TransferFacts DEF InWrite, IInv, TypeOK, SizesOK, FileAssumption

(* The cluster of the position is found, and nothing else changes. *)
LEMMA WriteMoved ==
  ASSUME FileAssumption, IInv, pc = "write", pc' = "write_io", left' = left, left > 0,
         UNCHANGED <<open, m_flags, m_curPosition, m_fileSize, m_firstCluster, entry, data>>,
         m_curPosition < Len(chain) * BytesPerCluster,
         m_curCluster' = chain[m_curPosition \div BytesPerCluster + 1]
  PROVE  IInv'
<1> DEFINE n == m_curPosition \div BytesPerCluster
<1> USE DEF data, entry
<1>1. n + 1 \in DOMAIN chain /\ m_curCluster' \in Cluster
  <2>1. n < Len(chain)
    BY TransferFacts, Cluster0, Mono
  <2> QED BY <2>1, TransferFacts
<1> HIDE DEF n
<1>2. TypeOK'
  BY <1>1 DEF IInv, TypeOK
<1>3. Calls' /\ EntryOK' /\ ChainOK'
  BY TransferFacts DEF IInv, Calls, InTransferStep, EntryOK, ChainOK, Distinct
<1>4. CursorOK'
  BY TransferFacts DEF CursorOK, InTransferStep, RightCluster
<1>5. SizesOK'
  BY TransferFacts DEF IInv, SizesOK, InWrite
<1>6. WrittenBelow' /\ WrittenInPlace'
  BY TransferFacts DEF IInv, WrittenBelow, WrittenInPlace, InWrite, Live
<1>7. ContiguousHolds' /\ EntryAgrees'
  BY DEF IInv, ContiguousHolds, Contiguous, EntryAgrees
<1> QED BY <1>2, <1>3, <1>4, <1>5, <1>6, <1>7 DEF IInv

(* The write fails, and no byte has moved. *)
LEMMA WriteFailed ==
  ASSUME FileAssumption, OneCaller, IInv, InWrite, Fail,
         UNCHANGED <<open, m_flags, m_curPosition, m_curCluster, m_fileSize, m_firstCluster,
                     entry, chain, byte>>,
         place' \subseteq Cluster \X Offset, written' \in BOOLEAN, WrittenInPlace'
  PROVE  IInv'
<1> USE DEF entry
<1>1. pc' = "close" /\ left' = 0 /\ open
  BY WriteFacts DEF Fail, AfterFailure, OneCaller
<1>2. TypeOK'
  BY <1>1, WriteFacts DEF IInv, TypeOK
<1>3. Calls' /\ EntryOK' /\ ChainOK'
  BY <1>1 DEF IInv, Calls, InTransferStep, EntryOK, ChainOK, Distinct
<1>4. CursorOK' /\ SizesOK' /\ WrittenBelow' /\ EntryAgrees'
  BY <1>1 DEF CursorOK, SizesOK, Live, WrittenBelow, EntryAgrees
<1>5. ContiguousHolds'
  BY DEF IInv, ContiguousHolds, Contiguous
<1> QED BY <1>2, <1>3, <1>4, <1>5 DEF IInv

LEMMA WriteAddsStep ==
  ASSUME FileAssumption, IInv, pc = "write", left > 0, AtCluster, WriteAdds,
         UNCHANGED <<open, m_curPosition, m_fileSize, entry, byte, place, written>>
  PROVE  IInv'
<1> DEFINE n == m_curPosition \div BytesPerCluster
<1>1. PICK c \in Cluster : c \notin Owned /\ chain' = Append(chain, c)
                           /\ m_curCluster' = c /\ m_flags' = AddFlags(c)
  BY DEF WriteAdds, addCluster
<1>2. /\ NeedsCluster /\ pc' = "write_io" /\ left' = left
      /\ m_firstCluster' = IF m_curCluster = 0 THEN c ELSE m_firstCluster
  BY <1>1 DEF WriteAdds
<1>3. /\ AtPos(m_curPosition, m_curCluster) /\ Len(chain) \in Nat
      /\ DOMAIN chain = 1 .. Len(chain) /\ chain \in Seq(Cluster)
  BY TransferFacts DEF IInv, CursorOK, InTransferStep, TypeOK
<1>4. n = Len(chain) /\ (m_curCluster = 0 <=> Len(chain) = 0)
  <2>1. CASE m_curPosition = 0
    <3>1. m_curCluster = 0 /\ m_firstCluster = 0
      BY <1>2, <1>3, <2>1 DEF AtPos, NeedsCluster
    <3>2. Len(chain) = 0
      BY <1>3, <3>1, TransferFacts, Cluster0 DEF FirstOf
    <3> QED BY <2>1, <3>1, <3>2, Cluster0
  <2>2. CASE m_curPosition # 0
    <3>1. /\ n \in 1 .. Len(chain) /\ m_curCluster \in Owned \cap Cluster
          /\ FatValue(m_curCluster) = IF n < Len(chain) THEN chain[n + 1] ELSE EOC
          /\ (Contiguous /\ n < Len(chain) => m_curCluster + 1 = chain[n + 1])
      BY <2>2, NextCluster
    <3> HIDE DEF n
    <3>2. m_curCluster # 0 /\ FatValue(m_curCluster) = EOC
      BY <1>2, <3>1, Cluster0 DEF NeedsCluster
    <3>3. ~(n < Len(chain))
      <4> SUFFICES ASSUME n < Len(chain) PROVE FALSE
        OBVIOUS
      <4>1. n + 1 \in DOMAIN chain
        BY <3>1, <1>3
      <4>2. chain[n + 1] \in Cluster
        BY <1>3, <4>1
      <4> QED BY <3>1, <3>2, <4>2, Cluster0
    <3>4. n = Len(chain) /\ Len(chain) # 0
      <4>1. n \in 1 .. Len(chain) /\ Len(chain) \in Nat
        BY <1>3, <3>1, Zenon
      <4> QED BY ONLY <3>3, <4>1
    <3> QED BY <3>2, <3>4
  <2> QED BY <2>1, <2>2
<1>5. /\ chain' \in Seq(Cluster) /\ Len(chain') = Len(chain) + 1
      /\ DOMAIN chain' = 1 .. Len(chain) + 1 /\ chain'[Len(chain) + 1] = c
      /\ \A i \in 1 .. Len(chain) : chain'[i] = chain[i]
  BY <1>1, <1>3
<1>6. Distinct'
  <2>1. \A i \in 1 .. Len(chain) : chain[i] # c
    BY <1>1, <1>3 DEF Owned
  <2> QED BY <1>3, <1>5, <2>1 DEF Distinct, IInv, ChainOK
<1>7. m_firstCluster' = FirstOf(chain')
  BY <1>2, <1>3, <1>4, <1>5, TransferFacts DEF FirstOf
<1>8. RightCluster'
  <2>1. m_curPosition < (Len(chain) + 1) * BytesPerCluster
    <3> DEFINE l == Len(chain) + 1
    <3>1. n < l /\ l \in Nat
      BY <1>3, <1>4
    <3> HIDE DEF l
    <3>2. m_curPosition < l * BytesPerCluster
      BY <3>1, TransferFacts, Cluster0, Mono
    <3> QED BY <3>2 DEF l
  <2>2. m_curPosition' \div BytesPerCluster = n
    OBVIOUS
  <2> HIDE DEF n
  <2> QED BY <1>1, <1>4, <1>5, <2>1, <2>2 DEF RightCluster
<1> HIDE DEF n
<1>9. /\ m_flags' \subseteq Flags /\ "DIR_DIRTY" \in m_flags'
      /\ "PREALLOCATE" \in m_flags' => "PREALLOCATE" \in m_flags
  BY <1>1 DEF AddFlags, Clear, IInv, TypeOK, Flags
<1> USE DEF entry
<1>10. TypeOK'
  <2>1. m_firstCluster' \in Cluster \cup {0}
    BY <1>1, <1>2 DEF IInv, TypeOK
  <2> QED BY <1>1, <1>2, <1>5, <1>9, <2>1 DEF IInv, TypeOK
<1>11. Calls' /\ EntryOK' /\ ChainOK'
  BY <1>2, <1>6, <1>7, TransferFacts DEF IInv, Calls, InTransferStep, EntryOK, ChainOK
<1>12. CursorOK'
  BY <1>2, <1>8 DEF CursorOK, InTransferStep
<1>13. Len(chain) * BytesPerCluster <= Len(chain') * BytesPerCluster
       /\ Len(chain') * BytesPerCluster \in Nat
  BY <1>3, <1>5, Cluster0
<1>14. SizesOK'
  BY <1>2, <1>13, TransferFacts, WriteFacts DEF SizesOK, InWrite
<1>15. WrittenBelow'
  BY <1>2, <1>9, TransferFacts DEF IInv, WrittenBelow, InWrite, Live
<1>16. WrittenInPlace'
  <2> SUFFICES ASSUME written
               PROVE  /\ byte < Len(chain') * BytesPerCluster
                      /\ <<chain'[byte \div BytesPerCluster + 1], byte % BytesPerCluster>>
                           \in place
    BY DEF WrittenInPlace
  <2>1. /\ byte < Len(chain) * BytesPerCluster
        /\ <<chain[byte \div BytesPerCluster + 1], byte % BytesPerCluster>> \in place
    BY DEF IInv, WrittenInPlace
  <2>2. byte \div BytesPerCluster \in Nat
    BY TransferFacts, Cluster0, DivMod
  <2>3. byte \div BytesPerCluster < Len(chain)
    BY <2>1, TransferFacts, Cluster0, Mono
  <2>4. chain'[byte \div BytesPerCluster + 1] = chain[byte \div BytesPerCluster + 1]
    BY <1>3, <1>5, <2>2, <2>3
  <2> QED BY <1>13, <2>1, <2>4, TransferFacts
<1>17. ContiguousHolds'
  <2> SUFFICES ASSUME "CONTIGUOUS" \in m_flags', NEW i \in DOMAIN chain'
               PROVE  chain'[i] = m_firstCluster' + i - 1
    BY DEF ContiguousHolds, Contiguous
  <2>1. CASE m_curCluster = 0
    BY <1>1, <1>2, <1>4, <1>5, <2>1, Cluster0
  <2>2. CASE m_curCluster # 0
    <3>1. "CONTIGUOUS" \in m_flags /\ c = m_curCluster + 1
      BY <1>1, <2>2 DEF AddFlags, Clear
    <3>2. \A j \in DOMAIN chain : chain[j] = m_firstCluster + j - 1
      BY <3>1, TransferFacts DEF IInv, ContiguousHolds, Contiguous
    <3>3. m_curCluster = chain[Len(chain)] /\ Len(chain) # 0
      <4>1. m_curPosition # 0
        BY <1>3, <2>2 DEF AtPos
      <4>2. Index(m_curPosition) + 1 = n
        BY <4>1, TransferFacts, PositionIndex DEF AtCluster, CursorOffset, n
      <4> QED BY <1>3, <1>4, <2>2, <4>1, <4>2 DEF AtPos
    <3>4. c = m_firstCluster + Len(chain) /\ m_firstCluster \in Nat
      BY <1>3, <3>1, <3>2, <3>3, Cluster0 DEF IInv, TypeOK
    <3> QED BY <1>2, <1>3, <1>5, <2>2, <3>2, <3>4
  <2> QED BY <2>1, <2>2
<1>18. EntryAgrees'
  BY <1>9 DEF EntryAgrees
<1> QED BY <1>10, <1>11, <1>12, <1>14, <1>15, <1>16, <1>17, <1>18 DEF IInv

LEMMA WriteClusterStep == ASSUME FileAssumption, OneCaller, IInv, WriteCluster PROVE IInv'
<1> DEFINE n == m_curPosition \div BytesPerCluster
<1>1. /\ pc = "write" /\ left > 0
      /\ UNCHANGED <<open, m_curPosition, m_fileSize, entry, byte, place, written>>
  BY DEF WriteCluster
<1>2. CASE /\ ~AtCluster /\ pc' = "write_io"
           /\ UNCHANGED <<m_curCluster, m_flags, m_firstCluster, chain, left>>
  BY <1>1, <1>2, InsideCluster, WriteMoved DEF data
<1>3. CASE AtCluster /\ WriteMoves
  <2>1. AtPos(m_curPosition, m_curCluster)
    BY <1>1, TransferFacts DEF IInv, CursorOK, InTransferStep
  <2>2. n < Len(chain) /\ m_curCluster' = chain[n + 1]
    <3>1. CASE m_curPosition = 0
      <4>1. n = 0
        BY <3>1, Cluster0
      <4>2. m_curCluster = 0 /\ m_firstCluster # 0 /\ m_curCluster' = m_firstCluster
        BY <1>3, <2>1, <3>1 DEF AtPos, WriteMoves
      <4>3. chain # <<>> /\ m_firstCluster = chain[1]
        BY <1>1, <4>2, TransferFacts DEF FirstOf
      <4>4. Len(chain) > 0
        BY <1>1, <4>3, TransferFacts DEF IInv, TypeOK
      <4> QED BY <4>1, <4>2, <4>3, <4>4
    <3>2. CASE m_curPosition # 0
      <4>1. /\ n \in 1 .. Len(chain) /\ m_curCluster \in Owned \cap Cluster
            /\ FatValue(m_curCluster) = IF n < Len(chain) THEN chain[n + 1] ELSE EOC
            /\ (Contiguous /\ n < Len(chain) => m_curCluster + 1 = chain[n + 1])
        BY <1>1, <1>3, <3>2, NextCluster
      <4>2. m_curCluster # 0
        BY <4>1, Cluster0
      <4>3. CASE NextNumber
        <5>1. n < Len(chain)
          <6>1. m_curPosition < Len(chain) * BytesPerCluster
            BY <1>1, <4>3, TransferFacts DEF NextNumber
          <6> QED BY <1>1, <6>1, TransferFacts, Cluster0, Mono
        <5> QED BY <1>3, <4>1, <4>2, <4>3, <5>1 DEF WriteMoves, NextNumber
      <4>4. CASE ~NextNumber
        BY <1>3, <4>1, <4>2, <4>4 DEF WriteMoves
      <4> QED BY <4>3, <4>4
    <3> QED BY <3>1, <3>2
  <2>3. m_curPosition < Len(chain) * BytesPerCluster
    BY <1>1, <2>2, TransferFacts, Cluster0, Mono
  <2> QED BY <1>1, <1>3, <2>2, <2>3, WriteMoved DEF WriteMoves, data
<1>4. CASE AtCluster /\ WriteAdds
  BY <1>1, <1>4, WriteAddsStep
<1>5. CASE WriteStops
  <2>1. Fail /\ UNCHANGED <<m_curCluster, m_flags, m_firstCluster, chain>>
    BY <1>5 DEF WriteStops
  <2>2. /\ place' \subseteq Cluster \X Offset /\ written' \in BOOLEAN /\ WrittenInPlace'
        /\ InWrite
    BY <1>1, <2>1 DEF IInv, TypeOK, WrittenInPlace, InWrite
  <2> QED BY <1>1, <2>1, <2>2, WriteFailed
<1> QED BY <1>2, <1>3, <1>4, <1>5 DEF WriteCluster

-----------------------------------------------------------------------------
(* The transfer of a write. *)

ByteCluster == chain[byte \div BytesPerCluster + 1]
ByteOffset == byte % BytesPerCluster

(* Whatever covers the byte's place in the cluster of the cursor covers    *)
(* the byte.                                                               *)
LEMMA AtCursorMeans ==
  ASSUME FileAssumption, IInv, pc = "write_io", byte < Len(chain) * BytesPerCluster,
         NEW k \in Nat, <<ByteCluster, ByteOffset>> \in AtCursor(k)
  PROVE  byte \in m_curPosition .. m_curPosition + k - 1
<1> DEFINE b == BytesPerCluster
           p == m_curPosition \div b
           q == byte \div b
<1>1. /\ ByteCluster = m_curCluster
      /\ ByteOffset \in CursorOffset .. CursorOffset + k - 1
  BY DEF AtCursor
<1>2. q \in Nat /\ q < Len(chain)
  <2>1. q \in Nat
    BY TransferFacts, Cluster0, DivMod
  <2>2. q < Len(chain)
    BY TransferFacts, Cluster0, Mono
  <2> QED BY <2>1, <2>2
<1>3. p + 1 \in DOMAIN chain /\ m_curCluster = chain[p + 1]
  BY AfterChunk
<1>4. q + 1 \in DOMAIN chain /\ ByteCluster = chain[q + 1]
  BY <1>2, TransferFacts DEF ByteCluster
<1>5. p = q
  <2>1. p + 1 = q + 1
    BY <1>1, <1>3, <1>4 DEF IInv, ChainOK, Distinct
  <2>2. p \in Nat
    BY TransferFacts
  <2> QED BY <1>2, <2>1, <2>2
<1>6. CursorOffset = m_curPosition - b * p
  BY TransferFacts, Cluster0, DivMod DEF CursorOffset
<1>7. ByteOffset = byte - b * q
  BY TransferFacts, Cluster0, DivMod DEF ByteOffset
<1>8. b * p \in Nat /\ b * q = b * p
  BY <1>2, <1>5, Cluster0
<1> HIDE DEF p, q, b
<1> QED BY SMTT(30), <1>1, <1>6, <1>7, <1>8, TransferFacts

(* Where a byte of the transfer is stored. *)
LEMMA InTransferMeans ==
  ASSUME FileAssumption, IInv, pc = "write_io", InTransfer
  PROVE  /\ byte < Len(chain) * BytesPerCluster
         /\ <<m_curCluster, CursorOffset + byte - m_curPosition>> = <<ByteCluster, ByteOffset>>
         /\ byte \in m_curPosition .. m_curPosition + Chunk - 1
<1>1. /\ Chunk \in Nat /\ CursorOffset + Chunk <= BytesPerCluster /\ CursorOffset \in Nat
      /\ m_curPosition \div BytesPerCluster < Len(chain)
      /\ m_curCluster = chain[m_curPosition \div BytesPerCluster + 1]
  BY AfterChunk, TransferFacts
<1>2. byte \in m_curPosition .. m_curPosition + Chunk - 1
  BY DEF InTransfer
<1> DEFINE k == byte - m_curPosition
<1>3. k \in Nat /\ CursorOffset + k < BytesPerCluster /\ byte = m_curPosition + k
  <2>1. m_curPosition \in Nat /\ byte \in Nat /\ BytesPerCluster \in Nat
    BY TransferFacts, Cluster0
  <2> QED BY <1>1, <1>2, <2>1
<1>4. /\ byte \div BytesPerCluster = m_curPosition \div BytesPerCluster
      /\ byte % BytesPerCluster = CursorOffset + k
  <2> HIDE DEF k
  <2>1. /\ m_curPosition \in Nat /\ BytesPerCluster \in Nat \ {0} /\ k \in Nat
        /\ (m_curPosition % BytesPerCluster) + k < BytesPerCluster
    BY <1>3, TransferFacts, Cluster0 DEF CursorOffset
  <2>2. /\ (m_curPosition + k) \div BytesPerCluster = m_curPosition \div BytesPerCluster
        /\ (m_curPosition + k) % BytesPerCluster = (m_curPosition % BytesPerCluster) + k
    BY ONLY <2>1, SameCluster
  <2> QED BY ONLY <1>3, <2>2, Zenon DEF CursorOffset
<1>5. byte < Len(chain) * BytesPerCluster
  BY <1>1, <1>4, TransferFacts, Cluster0, Mono
<1>6. CursorOffset + byte - m_curPosition = CursorOffset + k
  BY <1>1, TransferFacts
<1> QED BY <1>1, <1>2, <1>4, <1>5, <1>6 DEF ByteCluster, ByteOffset

(* A write that reserves a sector without reading it reserves none that    *)
(* holds a byte of the file.                                               *)
LEMMA ReservedIsNew ==
  ASSUME FileAssumption, IInv, pc = "write_io", written, NEW old \in InCache
  PROVE  <<ByteCluster, ByteOffset>> \in old
<1>1. byte < Len(chain) * BytesPerCluster /\ <<ByteCluster, ByteOffset>> \in place
  BY DEF IInv, WrittenInPlace, ByteCluster, ByteOffset
<1>2. CASE ~Reserve
  BY <1>1, <1>2 DEF InCache
<1>3. CASE Reserve
  <2>1. <<ByteCluster, ByteOffset>> \notin AtCursor(BytesPerSector)
    <3> SUFFICES ASSUME <<ByteCluster, ByteOffset>> \in AtCursor(BytesPerSector) PROVE FALSE
      OBVIOUS
    <3>1. byte \in m_curPosition .. m_curPosition + BytesPerSector - 1
      BY <1>1, AtCursorMeans DEF FileAssumption
    <3>2. /\ byte < m_fileSize \/ byte < m_curPosition
          /\ "PREALLOCATE" \in m_flags => byte < m_curPosition
      BY TransferFacts DEF IInv, WrittenBelow
    <3> QED BY <1>3, <3>1, <3>2, TransferFacts DEF Reserve
  <2> QED BY <1>1, <1>3, <2>1 DEF InCache
<1> QED BY <1>2, <1>3

LEMMA StoredRight ==
  ASSUME FileAssumption, IInv, pc = "write_io",
         NEW old \in InCache \cup {place}, written \/ InTransfer
  PROVE  /\ byte < Len(chain) * BytesPerCluster
         /\ <<ByteCluster, ByteOffset>> \in Stored(old, Chunk)
<1>1. CASE InTransfer
  <2>1. <<m_curCluster, CursorOffset + byte - m_curPosition>> \in Stored(old, Chunk)
    BY <1>1, InTransferMeans DEF Stored
  <2> QED BY <1>1, <2>1, InTransferMeans
<1>2. CASE ~InTransfer
  <2>1. written
    BY <1>2
  <2>2. byte < Len(chain) * BytesPerCluster /\ <<ByteCluster, ByteOffset>> \in place
    BY <2>1 DEF IInv, WrittenInPlace, ByteCluster, ByteOffset
  <2>3. <<ByteCluster, ByteOffset>> \in old
    BY <2>1, <2>2, ReservedIsNew
  <2>4. Chunk \in Nat
    BY AfterChunk, TransferFacts
  <2>5. <<ByteCluster, ByteOffset>> \notin AtCursor(Chunk)
    BY <1>2, <2>2, <2>4, AtCursorMeans DEF InTransfer
  <2> QED BY <2>2, <2>3, <2>5 DEF Stored
<1> QED BY <1>1, <1>2

LEMMA StoredTyped ==
  ASSUME FileAssumption, IInv, pc = "write_io", NEW old \in InCache \cup {place}
  PROVE  Stored(old, Chunk) \subseteq Cluster \X Offset
<1>1. old \subseteq Cluster \X Offset
  BY DEF IInv, TypeOK, InCache
<1>2. ASSUME byte \in m_curPosition .. m_curPosition + Chunk - 1
      PROVE  <<m_curCluster, CursorOffset + byte - m_curPosition>> \in Cluster \X Offset
  <2>1. /\ m_curCluster \in Cluster /\ CursorOffset \in Nat /\ Chunk \in Nat
        /\ CursorOffset + Chunk <= BytesPerCluster
    BY AfterChunk, TransferFacts
  <2>2. CursorOffset + byte - m_curPosition \in Offset
    BY SMTT(30), <1>2, <2>1, TransferFacts, Cluster0 DEF Offset
  <2> QED BY <2>1, <2>2
<1> QED BY <1>1, <1>2 DEF Stored

LEMMA WriteTransferStep == ASSUME FileAssumption, OneCaller, IInv, WriteTransfer PROVE IInv'
<1>1. /\ pc = "write_io" /\ InWrite
      /\ UNCHANGED <<open, m_flags, m_curCluster, m_fileSize, m_firstCluster, entry, chain, byte>>
  BY DEF WriteTransfer, InWrite
<1>2. ByteCluster' = ByteCluster /\ ByteOffset' = ByteOffset
  BY <1>1 DEF ByteCluster, ByteOffset
<1>3. WrittenInPlace' <=>
        (written' => byte < Len(chain) * BytesPerCluster /\ <<ByteCluster, ByteOffset>> \in place')
  BY <1>1, <1>2 DEF WrittenInPlace, ByteCluster, ByteOffset
<1>4. CASE /\ place' \in {Stored(old, Chunk) : old \in IF Partial THEN InCache ELSE {place}}
           /\ written' = (written \/ InTransfer)
           /\ m_curPosition' = m_curPosition + Chunk
           /\ left' = left - Chunk
           /\ pc' = "write"
  <2> USE DEF entry
  <2>1. PICK old \in InCache \cup {place} : place' = Stored(old, Chunk)
    BY <1>4
  <2>2. /\ Chunk \in 1 .. left /\ AtPos(m_curPosition + Chunk, m_curCluster)
        /\ m_curCluster \in Cluster
    BY <1>1, AfterChunk
  <2>3. /\ left \in 0 .. MaxTransfer /\ left \in Nat /\ m_curPosition \in Nat
        /\ m_curPosition + left < Word /\ Live
    BY <1>1, WriteFacts, TransferFacts
  <2>4. /\ left' \in 0 .. MaxTransfer /\ m_curPosition' \in Position
        /\ m_curPosition' > m_curPosition /\ m_curPosition' \in Nat
        /\ m_curPosition' + left' < Word
    BY <1>4, <2>2, <2>3 DEF Position, FileAssumption
  <2>5. written' \in BOOLEAN
    BY <1>4, Zenon
  <2>6. WrittenInPlace'
    BY <1>1, <1>3, <1>4, <2>1, StoredRight
  <2>7. TypeOK'
    BY <1>1, <1>4, <2>1, <2>4, <2>5, StoredTyped DEF IInv, TypeOK
  <2>8. Calls' /\ EntryOK' /\ ChainOK'
    BY <1>1, <1>4, <2>3 DEF IInv, Calls, InTransferStep, EntryOK, ChainOK, Distinct, Live
  <2>9. CursorOK'
    BY <1>1, <1>4, <2>2 DEF CursorOK, InTransferStep, AtPos
  <2>10. SizesOK'
    BY <1>1, <1>4, <2>4, TransferFacts DEF SizesOK, InWrite
  <2>11. WrittenBelow'
    <3>1. CASE InTransfer
      <4>1. byte < m_curPosition'
        BY <1>1, <1>4, <2>2, <2>3, <3>1, InTransferMeans, TransferFacts
      <4> QED BY <1>1, <1>4, <2>3, <4>1 DEF WrittenBelow, InWrite, Live
    <3>2. CASE ~InTransfer
      <4>1. written' => written
        BY <1>4, <3>2, Zenon
      <4>2. byte \in Nat /\ byte' = byte
        BY <1>1, TransferFacts
      <4> QED BY <1>1, <1>4, <2>3, <2>4, <4>1, <4>2
              DEF IInv, WrittenBelow, InWrite, Live
    <3> QED BY <3>1, <3>2
  <2>12. ContiguousHolds' /\ EntryAgrees'
    BY <1>1, <1>4, <2>3 DEF IInv, ContiguousHolds, Contiguous, EntryAgrees, Live
  <2> QED BY <2>6, <2>7, <2>8, <2>9, <2>10, <2>11, <2>12 DEF IInv
<1>5. CASE /\ Partial
           /\ \/ UNCHANGED place
              \/ /\ SectorOffset + Chunk = BytesPerSector
                 /\ place' \in {Stored(old, Chunk) : old \in InCache}
           /\ Fail /\ UNCHANGED <<written, m_curPosition>>
  <2>1. place' \subseteq Cluster \X Offset
    BY <1>1, <1>5, StoredTyped DEF IInv, TypeOK
  <2>2. WrittenInPlace'
    BY <1>1, <1>3, <1>5, StoredRight DEF IInv, WrittenInPlace, ByteCluster, ByteOffset
  <2>3. written' \in BOOLEAN
    BY <1>5 DEF IInv, TypeOK
  <2> QED BY <1>1, <1>5, <2>1, <2>2, <2>3, WriteFailed
<1>6. CASE /\ place' = place \ AtCursor(Chunk)
           /\ written' = (written /\ ~InTransfer)
           /\ Fail /\ UNCHANGED m_curPosition
  <2>1. place' \subseteq Cluster \X Offset
    BY <1>6 DEF IInv, TypeOK
  <2>2. written' \in BOOLEAN
    BY <1>6, Zenon
  <2>3. WrittenInPlace'
    <3> SUFFICES ASSUME written, ~InTransfer
                 PROVE  /\ byte < Len(chain) * BytesPerCluster
                        /\ <<ByteCluster, ByteOffset>> \in place \ AtCursor(Chunk)
      BY <1>3, <1>6
    <3>1. byte < Len(chain) * BytesPerCluster /\ <<ByteCluster, ByteOffset>> \in place
      BY DEF IInv, WrittenInPlace, ByteCluster, ByteOffset
    <3>2. Chunk \in Nat
      BY <1>1, AfterChunk, TransferFacts
    <3> QED BY <1>1, <3>1, <3>2, AtCursorMeans DEF InTransfer
  <2> QED BY <1>1, <1>6, <2>1, <2>2, <2>3, WriteFailed
<1> QED BY <1>4, <1>5, <1>6 DEF WriteTransfer

LEMMA WriteEndsStep == ASSUME FileAssumption, IInv, WriteEnds PROVE IInv'
<1>1. /\ pc = "write" /\ left = 0 /\ pc' = "idle" /\ InWrite
      /\ UNCHANGED <<open, cursor, m_firstCluster, entry, data, left>>
  BY DEF WriteEnds, InWrite
<1>2. \/ /\ m_curPosition > m_fileSize /\ m_fileSize' = m_curPosition
         /\ m_flags' = m_flags \cup {"DIR_DIRTY"}
      \/ ~(m_curPosition > m_fileSize) /\ UNCHANGED <<m_flags, m_fileSize>>
  BY DEF WriteEnds, GrownFlags
<1>3. /\ AtPos(m_curPosition, m_curCluster) /\ m_curPosition \in Position
      /\ m_flags \subseteq Flags /\ m_fileSize \in Position
  BY <1>1, TransferFacts DEF IInv, CursorOK, InTransferStep, TypeOK
<1>4. m_curPosition <= Len(chain) * BytesPerCluster
  <2>1. CASE m_curPosition = 0
    BY <1>1, <2>1, TransferFacts
  <2>2. CASE m_curPosition # 0
    <3>1. Index(m_curPosition) < Len(chain)
      BY <1>1, <1>3, <2>2, TransferFacts DEF AtPos
    <3> QED BY <1>1, <2>2, <3>1, TransferFacts, PositionIndex
  <2> QED BY <2>1, <2>2
<1> USE DEF cursor, entry, data
<1>5. TypeOK'
  BY <1>1, <1>2, <1>3 DEF IInv, TypeOK, Flags
<1>6. Calls' /\ EntryOK' /\ ChainOK'
  BY <1>1, TransferFacts DEF IInv, Calls, InTransferStep, EntryOK, ChainOK, Distinct
<1>7. CursorOK'
  BY <1>1, <1>3 DEF CursorOK, InTransferStep, AtPos
<1>8. SizesOK'
  BY <1>1, <1>2, <1>4, TransferFacts DEF SizesOK, InWrite
<1>9. WrittenBelow' /\ WrittenInPlace'
  BY <1>1, <1>2, TransferFacts DEF IInv, WrittenBelow, WrittenInPlace, Live, InWrite
<1>10. ContiguousHolds' /\ EntryAgrees'
  BY <1>1, <1>2, TransferFacts DEF IInv, ContiguousHolds, Contiguous, EntryAgrees
<1> QED BY <1>5, <1>6, <1>7, <1>8, <1>9, <1>10 DEF IInv

-----------------------------------------------------------------------------
LEMMA NextIInv == ASSUME FileAssumption, OneCaller, IInv, Next PROVE IInv'
<1> USE DEF Position
<1>1. ASSUME NEW append \in SUBSET {"APPEND"}, openFile(append) \/ openTruncate(append)
      PROVE  IInv'
  BY <1>1, OpenFileStep, OpenTruncateStep
<1>2. ASSUME NEW pos \in 0 .. Word - 1, seekSet(pos) \/ fsetpos(pos) PROVE IInv'
  BY <1>2, SeekSetStep, FsetposStep
<1>3. ASSUME NEW length \in 1 .. Word - 1, NEW b \in Cluster, preAllocate(length, b)
      PROVE  IInv'
  BY <1>3, PreAllocateStep
<1>4. ASSUME NEW n \in 1 .. MaxTransfer, readCall(n) \/ writeCall(n) PROVE IInv'
  BY <1>4, ReadCallStep, WriteCallStep
<1>5. CASE create \/ sync \/ close \/ contiguousRange \/ truncate
  BY <1>5, CreateStep, SyncStep, CloseStep, ContiguousRangeStep, TruncateStep
<1>6. CASE ReadCluster \/ ReadTransfer \/ ReadEnds \/ WriteCluster \/ WriteTransfer \/ WriteEnds
  BY <1>6, ReadClusterStep, ReadTransferStep, ReadEndsStep, WriteClusterStep, WriteTransferStep,
     WriteEndsStep
<1> QED BY <1>1, <1>2, <1>3, <1>4, <1>5, <1>6 DEF Next

LEMMA StutterIInv == ASSUME IInv, UNCHANGED vars PROVE IInv'
BY DEF vars, cursor, entry, data, IInv, TypeOK, Calls, EntryOK, ChainOK, Distinct, CursorOK, SizesOK,
   WrittenBelow, WrittenInPlace, ContiguousHolds, Contiguous, EntryAgrees, AtPos, Live,
   InTransferStep, InWrite, RightCluster

LEMMA IInvSafe ==
  ASSUME IInv
  PROVE  TypeOK /\ RightCluster /\ WrittenInPlace /\ ContiguousHolds /\ InsideFile /\ EntryAgrees
<1>1. RightCluster
  BY DEF IInv, RightCluster, CursorOK, Calls, InTransferStep, Live
<1>2. InsideFile
  BY DEF IInv, InsideFile, SizesOK, Live, InWrite
<1> QED BY <1>1, <1>2 DEF IInv

(* The cursor of an open FAT file is in the right cluster at every         *)
(* transfer, whether seekSet, read or write counted in a contiguous file   *)
(* or followed the FAT; a byte that write has stored is where a read looks *)
(* for it until truncate cuts it off; CONTIGUOUS is set only while the     *)
(* clusters have consecutive numbers; no read goes past the file size; and *)
(* the directory entry is behind the file only while DIR_DIRTY is set.     *)
THEOREM FatFileCorrect ==
  FileAssumption /\ OneCaller /\ Spec =>
    [](TypeOK /\ RightCluster /\ WrittenInPlace /\ ContiguousHolds /\ InsideFile /\ EntryAgrees)
<1> SUFFICES ASSUME FileAssumption, OneCaller
             PROVE  Spec => [](TypeOK /\ RightCluster /\ WrittenInPlace /\ ContiguousHolds
                                 /\ InsideFile /\ EntryAgrees)
  OBVIOUS
<1>1. Init => IInv
  BY InitIInv
<1>2. IInv /\ [Next]_vars => IInv'
  BY NextIInv, StutterIInv
<1>3. IInv => TypeOK /\ RightCluster /\ WrittenInPlace /\ ContiguousHolds /\ InsideFile
                 /\ EntryAgrees
  BY IInvSafe
<1> QED BY <1>1, <1>2, <1>3, PTL DEF Spec
=============================================================================
