----------------------------- MODULE ExFatFile -----------------------------
(***************************************************************************)
(* An open file of src/src/ExFatLib/ExFatFile.cpp and ExFatFileWrite.cpp   *)
(* with the allocation bitmap and the FAT of ExFatPartition.cpp under it:  *)
(* seeks, reads, writes with the zero fill up to the position, the change  *)
(* of a contiguous file into a FAT chain, preallocation, truncation and    *)
(* removal, with a device that may fail and a volume that fills up.        *)
(*                                                                         *)
(* A read or a write is one step for each cluster it moves to and one for  *)
(* each transfer.  The contents of one byte of the file are followed, as   *)
(* in FatFile; a sector in the cache holds what was stored in it           *)
(* (FsCache).  Other files allocate and free clusters between two calls.   *)
(***************************************************************************)
EXTENDS Integers, Sequences, FiniteSetsExt

CONSTANTS
  m_lastCluster,  \* m_clusterCount + 1
  EOC,
  BytesPerSector,
  SectorsPerCluster,
  Word,         \* 2^32: cluster numbers and counts are below it
  Followed,     \* bound: the bytes whose contents are followed
  MaxTransfer,  \* bound: bytes in one call of read or write
  MaxOthers,    \* bound: clusters that other files hold
  Devices,      \* the values of ioFails: subset of BOOLEAN
  Retries       \* whether the program goes on with a file after a failed call

FileAssumption ==
  /\ m_lastCluster \in Nat /\ m_lastCluster >= 2
  /\ EOC \in Nat /\ EOC > m_lastCluster
  /\ BytesPerSector \in Nat \ {0} /\ SectorsPerCluster \in Nat \ {0}
  /\ Word \in Nat /\ Word > 2 * m_lastCluster
  /\ Followed \subseteq 0 .. m_lastCluster * BytesPerSector * SectorsPerCluster
  /\ MaxTransfer \in Nat /\ MaxOthers \in Nat
  /\ Devices \subseteq BOOLEAN /\ Retries \in BOOLEAN

VARIABLES
  ioFails,          \* whether the device may fail in this behaviour
  open,
  m_flags,          \* subset of Flags
  m_curPosition, m_curCluster, m_dataLength, m_validLength, m_firstCluster,
  entry,            \* the directory entry: first, data, valid, contiguous
  allocated,        \* the clusters with a bit in the bitmap
  m_bitmapStart,    \* where a search of the bitmap starts, from 0
  fat,              \* the FAT entries of the file that were written
  pc,               \* where a call is; "close" when the file is given up
  left,             \* toRead or toWrite
  toFill,
  (* History variables: they record what happened and guard nothing. *)
  chain,            \* the clusters of the file, in its order
  others,           \* the clusters of other files
  byte,             \* the position of the byte that is followed
  place,            \* where its value is: pairs of a cluster and an offset
  own,              \* where there is a value this file stored for it
  written           \* whether a transfer has stored it and nothing has cut it off

cursor == <<m_curPosition, m_curCluster>>
lengths == <<m_dataLength, m_validLength>>
bitmap == <<allocated, m_bitmapStart>>
data == <<byte, place, own, written>>
vars == <<ioFails, open, m_flags, cursor, lengths, m_firstCluster, entry, bitmap, fat,
          pc, left, toFill, chain, others, data>>

Flags == {"APPEND", "CONTIGUOUS", "DIR_DIRTY"}
Cluster == 2 .. m_lastCluster
m_clusterCount == m_lastCluster - 1
BytesPerCluster == BytesPerSector * SectorsPerCluster
Offset == 0 .. BytesPerCluster - 1

Owned == {chain[i] : i \in DOMAIN chain}
Contiguous == "CONTIGUOUS" \in m_flags
Smaller(a, b) == IF a < b THEN a ELSE b

Usable == open /\ pc = "idle"
AfterFailure == IF Retries THEN "idle" ELSE "close"
After(ok) == IF ok THEN "idle" ELSE AfterFailure

(* Which cluster of the file, from 0, byte pos - 1 is in. *)
Index(pos) == (pos - 1) \div BytesPerCluster

(* 1 + ((m_dataLength - 1) >> shift) in 32 bits: 0 for an empty file. *)
ClusterCount(length) == IF length = 0 THEN 0 ELSE 1 + Index(length)

-----------------------------------------------------------------------------
(* The bitmap and the FAT.  Operators marked "slip" are not used: each is  *)
(* the form its neighbour would have after a plausible bug, and a run      *)
(* shows that a property sees it.                                          *)

(* bitmapFind(cluster, count): the first group of free clusters from the   *)
(* start to the end of the bitmap, then from 0 up to the start.  Without   *)
(* one it returns 1 when it comes back to the start; from start 0 it never *)
(* does, as it goes back to 0 behind the comparison.                       *)
Never == -1
FreeGroup(b, count) ==
  b + count <= m_clusterCount /\ (b + 2 .. b + count + 1) \cap allocated = {}
FindStart(cluster) ==
  LET s == IF cluster # 0 THEN cluster - 2 ELSE m_bitmapStart
  IN IF s >= m_clusterCount THEN 0 ELSE s
bitmapFind(cluster, count) ==
  LET start == FindStart(cluster)
      behind == {b \in start .. m_clusterCount - 1 : FreeGroup(b, count)}
      before == {b \in 0 .. start - count : FreeGroup(b, count)}
  IN IF behind # {} THEN Min(behind) + 2
     ELSE IF before # {} THEN Min(before) + 2
     ELSE IF start = 0 THEN Never ELSE 1

(* bitmapModify(cluster, count, value): bits are changed one by one up to  *)
(* the first that has the value already; a count of 0 means 2^32 of them.  *)
(* With a device that fails, some of them.                                 *)
Bitmap(ok, bits, start) == [ok |-> ok, bits |-> bits, start |-> start]
StartKept(start, end, value, from) ==                       \* slip: not lowered
  IF value /\ start <= from /\ from < end
  THEN IF end < m_clusterCount THEN end ELSE 0 ELSE from
StartMoved(start, end, value, from) ==
  IF value THEN IF start <= from /\ from < end
                THEN IF end < m_clusterCount THEN end ELSE 0
                ELSE from
  ELSE Smaller(start, from)
bitmapModify(cluster, count, value, from) ==
  LET n == count % Word
      end == (cluster - 2 + n) % Word
      same(c) == value = (c \in allocated)
      run == Min({c \in cluster .. m_lastCluster : same(c)} \cup {m_lastCluster + 1}) - cluster
      full == n \in 1 .. run
      flips == IF full THEN n ELSE run
      flip(k) == IF value THEN allocated \cup (cluster .. cluster + k - 1)
                 ELSE allocated \ (cluster .. cluster + k - 1)
      to == StartMoved(cluster - 2, end, value, from)
  IN IF end > m_clusterCount THEN {Bitmap(FALSE, allocated, from)}
     ELSE {Bitmap(full, flip(flips), to)} \cup
          (IF ioFails THEN {Bitmap(FALSE, flip(k), to) : k \in 0 .. flips - 1} ELSE {})

(* fatGet: an entry that was never written for this file may hold anything. *)
FatValues(c) == IF c \in DOMAIN fat THEN {fat[c]} ELSE Cluster \cup {EOC}

(* fatPut of the pairs of puts, in their order, as far as the k-th. *)
PutFirst(puts, k) ==
  LET keys == {puts[i][1] : i \in 1 .. k}
      last(c) == puts[CHOOSE i \in 1 .. k : puts[i][1] = c][2]
  IN [c \in DOMAIN fat \cup keys |-> IF c \in keys THEN last(c) ELSE fat[c]]
Without(cs) == [c \in DOMAIN fat \ cs |-> fat[c]]
Ending(links, last) ==
  [c \in DOMAIN links \cup {last} |-> IF c = last THEN EOC ELSE links[c]]

(* freeChain(cluster) of the clusters of the file from the k-th on: it     *)
(* follows the FAT, which names them, clears their entries and the bits of *)
(* each run of consecutive numbers when the run ends.                      *)
ChainFrom(k) == {chain[i] : i \in k .. Len(chain)}
RunEnds(k) == {i \in k .. Len(chain) : i = Len(chain) \/ chain[i + 1] # chain[i] + 1}
Freed(ok, bits, start, links) == [ok |-> ok, bits |-> bits, start |-> start, fat |-> links]
freeChain(k) ==
  LET gone(i) == {chain[j] : j \in k .. i}
      lowered(i) == Min({m_bitmapStart} \cup {c - 2 : c \in gone(i)})
      before(i) == Max({k - 1} \cup {j \in RunEnds(k) : j < i})
      entryFails == {Freed(FALSE, allocated \ gone(before(i)), lowered(before(i)),
                           Without(gone(i - 1))) : i \in k .. Len(chain)}
      bitsFail(i) == {Freed(FALSE, allocated \ gone(m), lowered(i), Without(gone(i))) :
                        m \in before(i) .. i - 1}
  IN {Freed(TRUE, allocated \ ChainFrom(k), lowered(Len(chain)), Without(ChainFrom(k)))}
     \cup (IF ioFails THEN entryFails \cup UNION {bitsFail(i) : i \in RunEnds(k)} ELSE {})

-----------------------------------------------------------------------------
(* seekSet(pos) from a cursor: the cursor it may leave. *)
Sought(ok, pos, cluster) == [ok |-> ok, pos |-> pos, cluster |-> cluster]

(* The clusters k links behind c. *)
Follow(c, k) ==
  LET at[i \in 0 .. k] ==
        IF i = 0 THEN {c} ELSE UNION {FatValues(x) : x \in at[i - 1] \cap Cluster}
  IN at[k]
SeekClusters(pos, from, cluster) ==
  IF Contiguous THEN {m_firstCluster + Index(pos)}
  ELSE IF from = 0 \/ Index(pos) < Index(from) THEN Follow(m_firstCluster, Index(pos))
  ELSE Follow(cluster, Index(pos) - Index(from))
seekOutcomes(pos, from, cluster) ==
  IF pos = from THEN {Sought(TRUE, pos, cluster)}
  ELSE IF pos = 0 THEN {Sought(TRUE, 0, 0)}
  ELSE IF pos > m_dataLength THEN {Sought(FALSE, from, cluster)}
  ELSE {IF c = EOC THEN Sought(FALSE, from, cluster) ELSE Sought(TRUE, pos, c) :
          c \in SeekClusters(pos, from, cluster)}
       \cup (IF ioFails /\ ~Contiguous THEN {Sought(FALSE, from, cluster)} ELSE {})

Entry(first, dataLength, valid, contiguous) ==
  [first |-> first, data |-> dataLength, valid |-> valid, contiguous |-> contiguous]
NoEntry == Entry(0, 0, 0, FALSE)

(* sync(): DIR_DIRTY is cleared before syncDir() tries to write the entry. *)
Synced(ok, flags, e) == [ok |-> ok, flags |-> flags, entry |-> e]
SyncOutcomes(flags, first, dataLength, valid) ==
  LET e == IF "DIR_DIRTY" \in flags
           THEN Entry(first, dataLength, valid, "CONTIGUOUS" \in flags) ELSE entry
      clean == flags \ {"DIR_DIRTY"}
  IN {Synced(TRUE, clean, e)} \cup
     (IF ioFails THEN {Synced(FALSE, clean, e), Synced(FALSE, clean, entry)} ELSE {})

-----------------------------------------------------------------------------
(* init(): a mount sets the start to the first free cluster. *)
MountStart(bits) == Min(Cluster \ bits) - 2

Init ==
  /\ ioFails \in Devices
  /\ open = FALSE
  /\ m_flags = {}
  /\ m_curPosition = 0 /\ m_curCluster = 0 /\ m_firstCluster = 0
  /\ m_dataLength = 0 /\ m_validLength = 0
  /\ entry = NoEntry
  /\ allocated = {} /\ m_bitmapStart = 0
  /\ fat = <<>>
  /\ pc = "idle" /\ left = 0 /\ toFill = 0
  /\ chain = <<>> /\ others = {}
  /\ byte \in Followed
  /\ place = {} /\ own = {} /\ written = FALSE

(* The entry describes the chain and no cluster is lost: no call on the    *)
(* file failed half way.                                                   *)
Linked ==
  \A i \in DOMAIN chain :
    /\ chain[i] \in DOMAIN fat
    /\ fat[chain[i]] = IF i = Len(chain) THEN EOC ELSE chain[i + 1]
Consecutive == \A i \in DOMAIN chain : chain[i] = chain[1] + i - 1
Intact ==
  /\ entry.first = IF chain = <<>> THEN 0 ELSE chain[1]
  /\ entry.valid <= entry.data
  /\ Owned \cap others = {} /\ allocated = Owned \cup others
  /\ IF entry.contiguous THEN Consecutive /\ ClusterCount(entry.data) = Len(chain)
     ELSE ClusterCount(entry.data) <= Len(chain) /\ Linked

(* openPrivate of an existing file; with O_TRUNC, truncate(0) follows. *)
openFile(append, step) ==
  /\ ~open /\ Intact
  /\ open' = TRUE
  /\ m_flags' = append \cup (IF entry.contiguous THEN {"CONTIGUOUS"} ELSE {})
  /\ m_curPosition' = 0 /\ m_curCluster' = 0
  /\ m_firstCluster' = entry.first
  /\ m_dataLength' = entry.data /\ m_validLength' = entry.valid
  /\ pc' = step
  /\ UNCHANGED <<ioFails, entry, bitmap, fat, left, toFill, chain, others, data>>

(* The file is cut to size bytes. *)
CutTo(size) ==
  /\ written' = (written /\ byte < size)
  /\ place' = (IF byte < size THEN place ELSE {})
  /\ own' = {p \in own : \E i \in DOMAIN chain' : chain'[i] = p[1]}
  /\ UNCHANGED byte

(* A damaged file is removed, and lost clusters are freed, by a repair of  *)
(* the volume, which is mounted again; with a full bitmap the search of    *)
(* the mount never ends.                                                   *)
repair ==
  /\ ~open /\ ~Intact /\ others # Cluster
  /\ entry' = NoEntry
  /\ allocated' = others /\ m_bitmapStart' = MountStart(others)
  /\ fat' = <<>> /\ chain' = <<>>
  /\ CutTo(0)
  /\ UNCHANGED <<ioFails, open, m_flags, cursor, lengths, m_firstCluster, pc, left,
                 toFill, others>>

sync ==
  /\ Usable
  /\ \E o \in SyncOutcomes(m_flags, m_firstCluster, m_dataLength, m_validLength) :
       m_flags' = o.flags /\ entry' = o.entry /\ pc' = After(o.ok)
  /\ UNCHANGED <<ioFails, open, cursor, lengths, m_firstCluster, bitmap, fat, left,
                 toFill, chain, others, data>>

Closed ==
  /\ open' = FALSE /\ m_flags' = {}
  /\ m_curPosition' = 0 /\ m_curCluster' = 0 /\ m_firstCluster' = 0
  /\ m_dataLength' = 0 /\ m_validLength' = 0
  /\ pc' = "idle"
  /\ UNCHANGED <<ioFails, left, toFill, others>>

(* close(): the file is closed whatever sync() returns.  Of a chain the    *)
(* entry counts only the clusters of the data length; the rest stay        *)
(* allocated to nobody.                                                    *)
close ==
  /\ open /\ pc \in {"idle", "close"}
  /\ \E o \in SyncOutcomes(m_flags, m_firstCluster, m_dataLength, m_validLength) :
       /\ entry' = o.entry
       /\ chain' = IF o.entry.first = 0 THEN <<>>
                   ELSE IF o.entry.contiguous /\ ClusterCount(o.entry.data) <= Len(chain)
                   THEN SubSeq(chain, 1, ClusterCount(o.entry.data))
                   ELSE chain
       /\ fat' = IF o.entry.contiguous THEN <<>> ELSE fat   \* not looked at again
       /\ CutTo(IF chain' = <<>> THEN 0 ELSE Smaller(o.entry.valid, o.entry.data))
  /\ Closed
  /\ UNCHANGED bitmap

seekSet(pos) ==
  /\ Usable
  /\ \E o \in seekOutcomes(pos, m_curPosition, m_curCluster) :
       /\ m_curPosition' = o.pos /\ m_curCluster' = o.cluster
       /\ pc' = After(o.ok \/ pos > m_dataLength)
  /\ UNCHANGED <<ioFails, open, m_flags, lengths, m_firstCluster, entry, bitmap, fat,
                 left, toFill, chain, others, data>>

(* fsetpos with what fgetpos returned at position pos, since the last      *)
(* truncation.                                                             *)
fsetpos(pos) ==
  /\ Usable
  /\ pos <= m_dataLength /\ pos <= Len(chain) * BytesPerCluster
  /\ m_curPosition' = pos
  /\ m_curCluster' = IF pos = 0 THEN 0 ELSE chain[Index(pos) + 1]
  /\ UNCHANGED <<ioFails, open, m_flags, lengths, m_firstCluster, entry, bitmap, fat,
                 pc, left, toFill, chain, others, data>>

(* preAllocate(length): a group of clusters for an empty file; the valid   *)
(* length is not changed.                                                  *)
preAllocate(length) ==
  LET need == 1 + Index(length)
      find == bitmapFind(0, need)
      start == IF need = 1 THEN find - 2 ELSE m_bitmapStart IN
  /\ Usable /\ m_firstCluster = 0
  /\ \/ /\ find = Never
        /\ pc' = "hung"
        /\ UNCHANGED <<m_flags, m_firstCluster, m_dataLength, entry, bitmap, chain>>
     \/ /\ find = 1 \/ ioFails
        /\ pc' = AfterFailure
        /\ UNCHANGED <<m_flags, m_firstCluster, m_dataLength, entry, bitmap, chain>>
     \/ /\ find \in Cluster
        /\ \E b \in bitmapModify(find, need, TRUE, start) :
             /\ allocated' = b.bits /\ m_bitmapStart' = b.start
             /\ \/ /\ ~b.ok /\ pc' = AfterFailure
                   /\ UNCHANGED <<m_flags, m_firstCluster, m_dataLength, entry, chain>>
                \/ /\ b.ok
                   /\ m_dataLength' = length
                   /\ m_firstCluster' = find
                   /\ chain' = [i \in 1 .. need |-> find + i - 1]
                   /\ \E o \in SyncOutcomes(m_flags \cup {"DIR_DIRTY", "CONTIGUOUS"}, find,
                                            length, m_validLength) :
                        m_flags' = o.flags /\ entry' = o.entry /\ pc' = After(o.ok)
  /\ UNCHANGED <<ioFails, open, cursor, m_validLength, fat, left, toFill, others, data>>

-----------------------------------------------------------------------------
(* truncate(): frees what is behind m_curCluster, or all at position 0.  A *)
(* contiguous file counts the clusters to free, in 32 bits; another        *)
(* follows its chain.  After O_TRUNC (pc "truncate") a failure means that  *)
(* the file is not open.                                                   *)
CutAt ==
  IF m_curCluster = 0 THEN 0
  ELSE IF m_curCluster \in Owned THEN CHOOSE i \in DOMAIN chain : chain[i] = m_curCluster
  ELSE Len(chain)
NotOpen == open' = FALSE /\ m_flags' = {} /\ pc' = "idle"
TruncateFails ==
  IF pc = "truncate" THEN NotOpen
  ELSE pc' = AfterFailure /\ UNCHANGED <<open, m_flags>>

TruncateEnds(first) ==
  LET valid == Smaller(m_curPosition, m_validLength) IN
  /\ m_validLength' = valid /\ m_dataLength' = m_curPosition
  /\ chain' = SubSeq(chain, 1, CutAt)
  /\ CutTo(m_curPosition)
  /\ \E o \in SyncOutcomes(m_flags \cup {"DIR_DIRTY"}, first, m_curPosition, valid) :
       /\ entry' = o.entry
       /\ \/ /\ o.ok \/ pc # "truncate"
             /\ m_flags' = o.flags /\ pc' = After(o.ok) /\ UNCHANGED open
          \/ ~o.ok /\ pc = "truncate" /\ NotOpen
TruncateStops == TruncateFails /\ UNCHANGED <<lengths, chain, data, entry>>

Kept == IF m_curCluster = 0 THEN 0 ELSE m_firstCluster
ToFreeOne ==                                                \* slip: one too many
  (ClusterCount(m_dataLength) + 1 -
     (IF m_curCluster = 0 THEN 0 ELSE 1 + m_curCluster - m_firstCluster)) % Word
ToFree ==                                                   \* nc
  (ClusterCount(m_dataLength) -
     (IF m_curCluster = 0 THEN 0 ELSE 1 + m_curCluster - m_firstCluster)) % Word

TruncateContiguous ==
  /\ Contiguous
  /\ m_firstCluster' = Kept
  /\ \/ ToFree = 0 /\ TruncateEnds(Kept) /\ UNCHANGED bitmap
     \/ /\ ToFree # 0
        /\ \E b \in bitmapModify(IF m_curCluster = 0 THEN m_firstCluster ELSE m_curCluster + 1,
                                 ToFree, FALSE, m_bitmapStart) :
             /\ allocated' = b.bits /\ m_bitmapStart' = b.start
             /\ IF b.ok THEN TruncateEnds(Kept) ELSE TruncateStops
  /\ UNCHANGED fat

TruncateChain ==
  /\ ~Contiguous
  /\ \/ /\ ioFails /\ m_curCluster # 0                \* fatGet or fatPut of the EOC
        /\ TruncateStops
        /\ UNCHANGED <<m_firstCluster, bitmap, fat>>
     \/ /\ CutAt = Len(chain) /\ m_curCluster # 0     \* nothing behind it
        /\ TruncateEnds(m_firstCluster)
        /\ UNCHANGED <<m_firstCluster, bitmap, fat>>
     \/ /\ CutAt < Len(chain)
        /\ m_firstCluster' = Kept
        /\ \E f \in freeChain(CutAt + 1) :
             /\ allocated' = f.bits /\ m_bitmapStart' = f.start
             /\ fat' = IF m_curCluster = 0 THEN f.fat ELSE Ending(f.fat, m_curCluster)
             /\ IF f.ok THEN TruncateEnds(Kept) ELSE TruncateStops

truncate ==
  /\ Usable \/ pc = "truncate"
  /\ \/ /\ m_firstCluster = 0 /\ pc' = "idle"
        /\ UNCHANGED <<open, m_flags, lengths, m_firstCluster, entry, bitmap, fat, chain, data>>
     \/ m_firstCluster # 0 /\ (TruncateContiguous \/ TruncateChain)
  /\ UNCHANGED <<ioFails, cursor, left, toFill, others>>

(* remove(): frees the clusters, then clears the used bit of each entry of *)
(* the set.  A failure before the first entry leaves a file without its    *)
(* clusters, one after it half an entry set, which is not a file.          *)
RemoveFails ==
  /\ pc' = AfterFailure
  /\ UNCHANGED <<open, m_flags, cursor, lengths, m_firstCluster, entry, chain, data>>
RemoveEnds ==
  \/ /\ entry' = NoEntry /\ chain' = <<>> /\ CutTo(0)
     /\ open' = FALSE /\ m_flags' = {} /\ pc' = "idle"
     /\ m_curPosition' = 0 /\ m_curCluster' = 0 /\ m_firstCluster' = 0
     /\ m_dataLength' = 0 /\ m_validLength' = 0
  \/ ioFails /\ RemoveFails
remove ==
  /\ Usable
  /\ \/ /\ m_firstCluster = 0 /\ RemoveEnds /\ UNCHANGED <<bitmap, fat>>
     \/ /\ m_firstCluster # 0 /\ Contiguous
        /\ \E b \in bitmapModify(m_firstCluster, ClusterCount(m_dataLength), FALSE,
                                 m_bitmapStart) :
             /\ allocated' = b.bits /\ m_bitmapStart' = b.start
             /\ IF b.ok THEN RemoveEnds ELSE RemoveFails
        /\ UNCHANGED fat
     \/ /\ m_firstCluster # 0 /\ ~Contiguous
        /\ \E f \in freeChain(1) :
             /\ allocated' = f.bits /\ m_bitmapStart' = f.start /\ fat' = f.fat
             /\ IF f.ok THEN RemoveEnds ELSE RemoveFails
  /\ UNCHANGED <<ioFails, left, toFill, others>>

-----------------------------------------------------------------------------
CursorOffset == m_curPosition % BytesPerCluster
SectorOffset == m_curPosition % BytesPerSector
AtCluster == CursorOffset = 0

(* Bytes of the next transfer: zeros, part of a sector through the cache,  *)
(* or the whole sectors up to the end of the cluster.                      *)
PartOfSector(n) == Smaller(BytesPerSector - SectorOffset, n)
NeedsCache == SectorOffset # 0 \/ left < BytesPerSector
WholeSectors ==
  IF NeedsCache THEN PartOfSector(left)
  ELSE Smaller(left - (left % BytesPerSector), BytesPerCluster - CursorOffset)
Partial == NeedsCache \/ toFill > 0
Chunk == IF toFill > 0 THEN PartOfSector(toFill) ELSE WholeSectors

(* The n bytes of the device at the cursor, and those of the byte.         *)
AtCursor(n) == {m_curCluster} \X (CursorOffset .. CursorOffset + n - 1)
ByteAtCursor(n) ==
  IF byte \in m_curPosition .. m_curPosition + n - 1
  THEN {<<m_curCluster, CursorOffset + byte - m_curPosition>>} ELSE {}
Stored(old, n) == (old \ AtCursor(n)) \cup ByteAtCursor(n)

(* read(count): up to the data length; what is behind the valid length is  *)
(* filled with zeros at the end, and its position reached by a seek.  In   *)
(* 64 bits there is more than any count behind a position past the end.    *)
readCall(n) ==
  LET count == IF m_curPosition <= m_dataLength /\ n > m_dataLength - m_curPosition
               THEN m_dataLength - m_curPosition ELSE n
      maxRead == IF m_curPosition < m_validLength THEN m_validLength - m_curPosition ELSE 0 IN
  /\ Usable
  /\ left' = Smaller(count, maxRead)
  /\ toFill' = count - Smaller(count, maxRead)
  /\ pc' = "read"
  /\ UNCHANGED <<ioFails, open, m_flags, cursor, lengths, m_firstCluster, entry, bitmap,
                 fat, chain, others, data>>

Fail == pc' = AfterFailure /\ left' = 0 /\ toFill' = 0

ReadCluster ==
  /\ pc = "read" /\ left > 0
  /\ \/ ~AtCluster /\ pc' = "read_io" /\ UNCHANGED <<m_curCluster, left, toFill>>
     \/ /\ AtCluster
        /\ m_curCluster' \in IF m_curPosition = 0 THEN {m_firstCluster}
                             ELSE IF Contiguous THEN {m_curCluster + 1}
                             ELSE FatValues(m_curCluster) \ {EOC}
        /\ pc' = "read_io" /\ UNCHANGED <<left, toFill>>
     \/ /\ AtCluster /\ m_curPosition # 0 /\ ~Contiguous
        /\ ioFails \/ EOC \in FatValues(m_curCluster)
        /\ Fail /\ UNCHANGED m_curCluster
  /\ UNCHANGED <<ioFails, open, m_flags, m_curPosition, lengths, m_firstCluster, entry,
                 bitmap, fat, chain, others, data>>

ReadTransfer ==
  /\ pc = "read_io"
  /\ \/ \E k \in {PartOfSector(left), WholeSectors} :   \* a sector that is in the cache
          /\ m_curPosition' = m_curPosition + k
          /\ left' = left - k
          /\ pc' = "read" /\ UNCHANGED toFill
     \/ ioFails /\ Fail /\ UNCHANGED m_curPosition
  /\ UNCHANGED <<ioFails, open, m_flags, m_curCluster, lengths, m_firstCluster, entry,
                 bitmap, fat, chain, others, data>>

(* The zeros; the result of the seek behind them is not looked at. *)
ReadEnds ==
  /\ pc = "read" /\ left = 0
  /\ \E o \in seekOutcomes(m_curPosition + toFill, m_curPosition, m_curCluster) :
       m_curPosition' = o.pos /\ m_curCluster' = o.cluster
  /\ toFill' = 0
  /\ pc' = "idle"
  /\ UNCHANGED <<ioFails, open, m_flags, lengths, m_firstCluster, entry, bitmap, fat,
                 left, chain, others, data>>

(* write(nbyte): O_APPEND seeks to the end; a position behind the valid    *)
(* length goes back to it and fills with zeros first.                      *)
WriteFrom ==
  IF "APPEND" \in m_flags THEN seekOutcomes(m_dataLength, m_curPosition, m_curCluster)
  ELSE {Sought(TRUE, m_curPosition, m_curCluster)}
NoFill(o) == {o}                                            \* slip: gap not filled
FillFrom(o) ==
  IF o.ok /\ o.pos > m_validLength THEN seekOutcomes(m_validLength, o.pos, o.cluster) ELSE {o}
writeCall(n) ==
  /\ Usable
  /\ \E o \in WriteFrom : \E f \in FillFrom(o) :
       /\ m_curPosition' = f.pos /\ m_curCluster' = f.cluster
       /\ IF f.ok THEN left' = n /\ toFill' = o.pos - f.pos /\ pc' = "write"
          ELSE Fail
  /\ UNCHANGED <<ioFails, open, m_flags, lengths, m_firstCluster, entry, bitmap, fat,
                 chain, others, data>>

(* addCluster(): finds a cluster behind the current one and sets its bit.  *)
(* A contiguous file that gets another number is written into the FAT      *)
(* first, one entry after the other; the flag is cleared before that.      *)
ChainPuts(c) == [i \in 1 .. m_curCluster - m_firstCluster |->
                   <<m_firstCluster + i - 1, m_firstCluster + i>>]
LastPuts(c) == <<<<c, EOC>>, <<m_curCluster, c>>>>           \* slip: rest not linked
LinkPuts(c) ==
  (IF Contiguous THEN ChainPuts(c) ELSE <<>>) \o <<<<c, EOC>>, <<m_curCluster, c>>>>
Puts(c) ==
  IF m_curCluster = 0 \/ (Contiguous /\ c = m_curCluster + 1) THEN <<>> ELSE LinkPuts(c)
AddFlags(c) ==
  IF m_curCluster = 0 THEN m_flags \cup {"CONTIGUOUS"}
  ELSE IF c = m_curCluster + 1 THEN m_flags ELSE m_flags \ {"CONTIGUOUS"}

addCluster ==
  LET find == bitmapFind(IF m_curCluster = 0 THEN 0 ELSE m_curCluster + 1, 1)
      start == IF m_curCluster = 0 THEN find - 2 ELSE m_bitmapStart IN
  \/ /\ find = Never
     /\ pc' = "hung"
     /\ UNCHANGED <<m_curCluster, m_flags, m_firstCluster, chain, bitmap, fat, left, toFill>>
  \/ /\ find = 1 \/ ioFails
     /\ Fail
     /\ UNCHANGED <<m_curCluster, m_flags, m_firstCluster, chain, bitmap, fat>>
  \/ /\ find \in Cluster
     /\ \E b \in bitmapModify(find, 1, TRUE, start) :
          /\ allocated' = b.bits /\ m_bitmapStart' = b.start
          /\ \/ /\ ~b.ok /\ Fail
                /\ UNCHANGED <<m_curCluster, m_flags, m_firstCluster, chain, fat>>
             \/ /\ b.ok /\ m_flags' = AddFlags(find)
                /\ fat' = PutFirst(Puts(find), Len(Puts(find)))
                /\ m_curCluster' = find
                /\ m_firstCluster' = IF m_curCluster = 0 THEN find ELSE m_firstCluster
                /\ chain' = Append(chain, find)
                /\ pc' = "write_io" /\ UNCHANGED <<left, toFill>>
             \/ /\ b.ok /\ ioFails /\ m_flags' = AddFlags(find)
                /\ \E k \in 0 .. Len(Puts(find)) - 1 : fat' = PutFirst(Puts(find), k)
                /\ Fail /\ UNCHANGED <<m_curCluster, m_firstCluster, chain>>

(* At the start of a cluster.  A contiguous file counts up to the last     *)
(* cluster of its data length.                                             *)
LastCluster == m_firstCluster + ClusterCount(m_dataLength) - 1  \* lc
NextNumber == Contiguous /\ m_curCluster < LastCluster
NextClusters ==
  IF m_curCluster = 0 THEN IF m_firstCluster = 0 THEN {EOC} ELSE {m_firstCluster}
  ELSE IF NextNumber THEN {m_curCluster + 1}
  ELSE IF Contiguous THEN {EOC} ELSE FatValues(m_curCluster)

WriteCluster ==
  /\ pc = "write" /\ left > 0
  /\ \/ /\ ~AtCluster /\ pc' = "write_io"
        /\ UNCHANGED <<m_curCluster, m_flags, m_firstCluster, chain, bitmap, fat, left, toFill>>
     \/ /\ AtCluster
        /\ m_curCluster' \in NextClusters \ {EOC}
        /\ pc' = "write_io"
        /\ UNCHANGED <<m_flags, m_firstCluster, chain, bitmap, fat, left, toFill>>
     \/ AtCluster /\ EOC \in NextClusters /\ addCluster
     \/ /\ AtCluster /\ ioFails /\ m_curCluster # 0 /\ ~Contiguous    \* fatGet
        /\ Fail /\ UNCHANGED <<m_curCluster, m_flags, m_firstCluster, chain, bitmap, fat>>
  /\ UNCHANGED <<ioFails, open, m_curPosition, lengths, entry, others, data>>

(* The transfer.  A sector that is reserved without reading keeps what the *)
(* cache holds, its own bytes or those of another sector.  A full sector   *)
(* is synced at once.  The valid length follows the position.              *)
ReserveAlways == SectorOffset = 0                           \* slip: valid length not asked
Reserve == SectorOffset = 0 /\ m_curPosition >= m_validLength
Outside(old) ==
  IF Partial /\ Reserve THEN {old, old \ AtCursor(BytesPerSector)} ELSE {old}
Data == toFill = 0
ValidAfter(pos) ==
  IF pos > m_validLength THEN m_validLength' = pos /\ m_flags' = m_flags \cup {"DIR_DIRTY"}
  ELSE UNCHANGED <<m_validLength, m_flags>>

WriteTransfer ==
  LET pos == m_curPosition + Chunk IN
  /\ pc = "write_io"
  /\ \/ /\ \E p \in Outside(place) :
             place' = IF Data THEN Stored(p, Chunk) ELSE p \ AtCursor(Chunk)
        /\ \E p \in Outside(own) : own' = Stored(p, Chunk)
        /\ written' = (written \/ (Data /\ ByteAtCursor(Chunk) # {}))
        /\ m_curPosition' = pos
        /\ left' = (IF Data THEN left - Chunk ELSE left)
        /\ toFill' = (IF Data THEN 0 ELSE toFill - Chunk)
        /\ pc' = "write"
        /\ ValidAfter(pos)
     \/ /\ ioFails                                \* prepare, the device, or the sync after
        /\ place' \in {place, place \ AtCursor(Chunk)}
        /\ own' \in {own, Stored(own, Chunk)}
        /\ written' = (written /\ ByteAtCursor(Chunk) = {})
        /\ Fail
        /\ UNCHANGED <<m_curPosition, m_validLength, m_flags>>
  /\ UNCHANGED <<ioFails, open, m_curCluster, m_dataLength, m_firstCluster, entry, bitmap,
                 fat, chain, others, byte>>

(* The end of write().  No date callback is set: with one, any write marks *)
(* the entry.                                                              *)
WriteEnds ==
  /\ pc = "write" /\ left = 0
  /\ IF m_curPosition > m_dataLength
     THEN m_dataLength' = m_curPosition /\ m_flags' = m_flags \cup {"DIR_DIRTY"}
     ELSE UNCHANGED <<m_dataLength, m_flags>>
  /\ toFill' = 0
  /\ pc' = "idle"
  /\ UNCHANGED <<ioFails, open, cursor, m_validLength, m_firstCluster, entry, bitmap, fat,
                 left, chain, others, data>>

-----------------------------------------------------------------------------
(* Another file of the volume takes its first cluster or its next one, or  *)
(* frees one, between two calls on this file.                              *)
BetweenCalls == pc = "idle"
otherAllocates ==
  /\ BetweenCalls /\ Cardinality(others) < MaxOthers
  /\ \E cluster \in {0} \cup Cluster :
       LET find == bitmapFind(cluster, 1)
           start == IF cluster = 0 THEN find - 2 ELSE m_bitmapStart IN
       /\ find \in Cluster
       /\ \E b \in bitmapModify(find, 1, TRUE, start) :
            /\ allocated' = b.bits /\ m_bitmapStart' = b.start
            /\ others' = IF b.ok THEN others \cup {find} ELSE others
  /\ UNCHANGED <<ioFails, open, m_flags, cursor, lengths, m_firstCluster, entry, fat, pc,
                 left, toFill, chain, data>>

otherFrees ==
  /\ BetweenCalls
  /\ \E c \in others : \E b \in bitmapModify(c, 1, FALSE, m_bitmapStart) :
       /\ allocated' = b.bits /\ m_bitmapStart' = b.start
       /\ others' = others \ {c}
  /\ UNCHANGED <<ioFails, open, m_flags, cursor, lengths, m_firstCluster, entry, fat, pc,
                 left, toFill, chain, data>>

(* The search that never ends is stopped by a reset of the board; what the *)
(* card holds then is not followed: the volume is formatted.               *)
reset ==
  /\ pc = "hung"
  /\ entry' = NoEntry
  /\ allocated' = {} /\ m_bitmapStart' = 0 /\ fat' = <<>>
  /\ chain' = <<>> /\ CutTo(0)
  /\ open' = FALSE /\ m_flags' = {} /\ pc' = "idle"
  /\ m_curPosition' = 0 /\ m_curCluster' = 0 /\ m_firstCluster' = 0
  /\ m_dataLength' = 0 /\ m_validLength' = 0
  /\ left' = 0 /\ toFill' = 0 /\ others' = {}
  /\ UNCHANGED ioFails

Length == 1 .. m_clusterCount * BytesPerCluster
Next ==
  \/ \E append \in SUBSET {"APPEND"}, step \in {"idle", "truncate"} : openFile(append, step)
  \/ repair
  \/ sync
  \/ close
  \/ \E pos \in {0} \cup Length : seekSet(pos) \/ fsetpos(pos)
  \/ \E length \in Length : preAllocate(length)
  \/ truncate
  \/ remove
  \/ \E n \in 1 .. MaxTransfer : readCall(n) \/ writeCall(n)
  \/ ReadCluster
  \/ ReadTransfer
  \/ ReadEnds
  \/ WriteCluster
  \/ WriteTransfer
  \/ WriteEnds
  \/ otherAllocates
  \/ otherFrees
  \/ reset

Spec == Init /\ [][Next]_vars

-----------------------------------------------------------------------------
Position == 0 .. (m_clusterCount + 1) * BytesPerCluster

(* Types; a cluster number is one of the volume. *)
TypeOK ==
  /\ ioFails \in BOOLEAN /\ open \in BOOLEAN
  /\ m_flags \subseteq Flags
  /\ m_curPosition \in Position /\ m_dataLength \in Position /\ m_validLength \in Position
  /\ m_curCluster \in Cluster \cup {0} /\ m_firstCluster \in Cluster \cup {0}
  /\ entry \in [first : Cluster \cup {0}, data : Position, valid : Position,
                contiguous : BOOLEAN]
  /\ allocated \subseteq Cluster /\ m_bitmapStart \in 0 .. m_clusterCount - 1
  /\ DOMAIN fat \subseteq Cluster /\ \A c \in DOMAIN fat : fat[c] \in Cluster \cup {EOC}
  /\ pc \in {"idle", "truncate", "read", "read_io", "write", "write_io", "close", "hung"}
  /\ left \in 0 .. MaxTransfer /\ toFill \in Position
  /\ chain \in Seq(Cluster) /\ others \subseteq Cluster
  /\ byte \in Position /\ written \in BOOLEAN
  /\ place \subseteq Cluster \X Offset /\ own \subseteq Cluster \X Offset

(* The cluster that a read or a write transfers to is the one of the file  *)
(* that holds the position, whether the code counted or read the FAT, and  *)
(* through the change from one to the other.                               *)
RightCluster ==
  pc \in {"read_io", "write_io"} =>
    /\ m_curPosition < Len(chain) * BytesPerCluster
    /\ m_curCluster = chain[m_curPosition \div BytesPerCluster + 1]

ByteAt == <<chain[byte \div BytesPerCluster + 1], byte % BytesPerCluster>>

(* A byte that was written and not cut off is below the valid length, so a *)
(* read does not return a zero for it, and where a read looks.             *)
WrittenInPlace ==
  written =>
    /\ byte < Len(chain) * BytesPerCluster /\ ByteAt \in place
    /\ IF open THEN byte < m_validLength ELSE byte < entry.valid

(* Below the valid length a read returns only what this file stored: data  *)
(* or the zeros of a gap, never what a cluster held before.                *)
NothingStale ==
  open /\ byte < m_validLength /\ byte < Len(chain) * BytesPerCluster => ByteAt \in own

(* The file describes its clusters: by consecutive numbers while it has    *)
(* the flag CONTIGUOUS, by linked FAT entries as soon as it has not.       *)
ContiguousHolds ==
  open /\ pc # "close" /\ m_firstCluster # 0 =>
    IF Contiguous THEN \A i \in DOMAIN chain : chain[i] = m_firstCluster + i - 1
    ELSE Linked

(* Between calls, until one fails: valid length, data length and chain are *)
(* in this order, and a read stays inside the file.                        *)
InsideFile ==
  open /\ pc \in {"idle", "truncate", "read", "read_io"} =>
    /\ m_validLength <= m_dataLength /\ m_dataLength <= Len(chain) * BytesPerCluster
    /\ m_curPosition + left + toFill <= m_dataLength

(* Between calls the flag DIR_DIRTY is set whenever the entry is behind    *)
(* the file, the way it is stored included.                                *)
EntryAgrees ==
  open /\ pc \in {"idle", "read", "read_io"} /\ "DIR_DIRTY" \notin m_flags =>
    entry = Entry(m_firstCluster, m_dataLength, m_validLength, entry.contiguous)
    /\ (m_firstCluster # 0 => entry.contiguous = Contiguous)

(* The clusters of other files keep their bits in the bitmap, whatever     *)
(* this file allocates, truncates or removes, and so do its own.           *)
NoClusterShared ==
  /\ others \subseteq allocated
  /\ open /\ pc # "close" => Owned \subseteq allocated /\ Owned \cap others = {}

(* With a device that works, no cluster before m_bitmapStart is free: a    *)
(* search from there for a group misses none that ends behind the start.   *)
SearchReaches == ~ioFails => \A c \in Cluster : c - 2 < m_bitmapStart => c \in allocated

(* "The directory entry and all data for the file are deleted"             *)
(* (ExFatFile.h:654): the bits of other files are kept by remove().        *)
RemoveKeepsOthers == [][remove => others \subseteq allocated']_vars
=============================================================================
