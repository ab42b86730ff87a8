------------------------------ MODULE FatFile ------------------------------
(***************************************************************************)
(* An open file of src/src/FatLib/FatFile.cpp: the cursor (m_curPosition   *)
(* and m_curCluster), the size, the flags, the directory entry and the     *)
(* chain of clusters, through seeks, reads, writes, truncation,            *)
(* preallocation and failures of the device at any point of a call.        *)
(*                                                                         *)
(* A read or a write is one step for each cluster it moves to and one for  *)
(* each transfer.  The contents of one byte of the file are followed; it   *)
(* may be any byte of Followed, so what holds of it holds of those.        *)
(*                                                                         *)
(* What is below is external here: an allocation finds any cluster that    *)
(* the file does not own (FatPartition), and a sector in the cache holds   *)
(* what was stored in it (FsCache; its torn buffer after a failed read is  *)
(* not repeated here).  Other files of the volume use the cache between    *)
(* two calls, so a sector may have left it.                                *)
(***************************************************************************)
EXTENDS Integers, Sequences

CONSTANTS
  m_lastCluster,
  EOC,
  BytesPerSector,
  SectorsPerCluster,
  Word,         \* 2^32: sizes and positions are below it
  Followed,     \* bound: the bytes whose contents are followed
  MaxTransfer,  \* bound: bytes in one call of read or write
  IoFails,      \* whether the device may fail
  Retries,      \* whether the program goes on with a file after a failed call
  EarlySetPos   \* whether it calls fsetpos in a file it has just preallocated

FileAssumption ==
  /\ m_lastCluster \in Nat /\ m_lastCluster >= 2
  /\ EOC \in Nat /\ EOC > m_lastCluster
  /\ BytesPerSector \in Nat \ {0} /\ SectorsPerCluster \in Nat \ {0}
  /\ Word \in Nat \ {0} /\ Followed \subseteq 0 .. Word - 1 /\ MaxTransfer \in Nat
  /\ IoFails \in BOOLEAN /\ Retries \in BOOLEAN /\ EarlySetPos \in BOOLEAN

VARIABLES
  open,
  m_flags,          \* subset of Flags
  m_curPosition, m_curCluster, m_fileSize, m_firstCluster,
  dirFirst, dirSize,  \* first cluster and size in the directory entry
  chain,            \* the clusters of the file, in the order of the FAT
  pc,               \* where read or write is; "close" when the file is given up
  left,             \* toRead or nToWrite
  (* History variables: they record what happened and guard nothing. *)
  byte,             \* the position of the byte that is followed
  place,            \* where its value is: pairs of a cluster and an offset
  written           \* whether a transfer has stored it and nothing has cut it off

cursor == <<m_curPosition, m_curCluster>>
entry == <<dirFirst, dirSize>>
data == <<chain, byte, place, written>>
vars == <<open, m_flags, cursor, m_fileSize, m_firstCluster, entry, data, pc, left>>

Flags == {"APPEND", "PREALLOCATE", "CONTIGUOUS", "DIR_DIRTY"}
Cluster == 2 .. m_lastCluster
BytesPerCluster == BytesPerSector * SectorsPerCluster
Offset == 0 .. BytesPerCluster - 1

Owned == {chain[i] : i \in DOMAIN chain}
Clear(flags, f) == flags \ {f}
Contiguous == "CONTIGUOUS" \in m_flags

(* Calls on the open file begin when no other runs. *)
Usable == open /\ pc = "idle"

(* After a failed call the program closes the file, or with Retries goes   *)
(* on as if the call had not been made; a file that truncate() has failed  *)
(* on is always closed.                                                    *)
AfterFailure == IF Retries THEN "idle" ELSE "close"
After(ok) == IF ok THEN "idle" ELSE AfterFailure

-----------------------------------------------------------------------------
(* Operators marked "slip" are not used: each is the form its neighbour    *)
(* would have after a plausible bug, and a run shows that a property sees  *)
(* it.                                                                     *)

(* fatGet of a cluster of the file, of any other (free here), of no        *)
(* cluster.  EOC stands for the results 0 and -1 where both are failures.  *)
FatValue(c) ==
  IF c \in Owned
  THEN LET i == CHOOSE j \in DOMAIN chain : chain[j] = c
       IN IF i = Len(chain) THEN EOC ELSE chain[i + 1]
  ELSE IF c \in Cluster THEN 0 ELSE EOC

(* The cluster k links behind c. *)
Follow(c, k) ==
  LET at[i \in 0 .. k] == IF i = 0 THEN c ELSE FatValue(at[i - 1]) IN at[k]

(* Which cluster of the file, from 0, byte pos - 1 is in. *)
IndexOfNext(pos) == pos \div BytesPerCluster                \* slip: of byte pos
Index(pos) == (pos - 1) \div BytesPerCluster

(* The flags after a seek that moved, and after a cluster was added. *)
SeekFlagsKept == m_flags                                    \* slip: PREALLOCATE kept
SeekFlags == Clear(m_flags, "PREALLOCATE")
AddFlagsKept(c) == m_flags \cup {"DIR_DIRTY"} \cup          \* slip: never cleared
  (IF m_curCluster = 0 THEN {"CONTIGUOUS"} ELSE {})
AddFlags(c) ==
  IF m_curCluster = 0 THEN m_flags \cup {"CONTIGUOUS", "DIR_DIRTY"}
  ELSE (IF c = m_curCluster + 1 THEN m_flags ELSE Clear(m_flags, "CONTIGUOUS"))
       \cup {"DIR_DIRTY"}

(* seekSet(pos) of an open file: the cursor and flags it may leave. *)
Sought(ok, pos, cluster, flags) ==
  [ok |-> ok, pos |-> pos, cluster |-> cluster, flags |-> flags]
NotSought == Sought(FALSE, m_curPosition, m_curCluster, m_flags)
SeekCluster(pos) ==
  IF Contiguous THEN m_firstCluster + Index(pos)
  ELSE IF m_curPosition = 0 \/ Index(pos) < Index(m_curPosition)
       THEN Follow(m_firstCluster, Index(pos))
       ELSE Follow(m_curCluster, Index(pos) - Index(m_curPosition))
seekOutcomes(pos) ==
  IF pos = m_curPosition THEN {Sought(TRUE, pos, m_curCluster, m_flags)}
  ELSE IF pos = 0 THEN {Sought(TRUE, 0, 0, SeekFlags)}
  ELSE IF pos > m_fileSize THEN {NotSought}
  ELSE (IF SeekCluster(pos) = EOC THEN {}
        ELSE {Sought(TRUE, pos, SeekCluster(pos), SeekFlags)})
       \cup (IF SeekCluster(pos) = EOC \/ (IoFails /\ ~Contiguous) THEN {NotSought} ELSE {})

(* sync(): the entry is rewritten when it must be; a failure comes before  *)
(* that, or after it when the cache cannot be written.                     *)
Synced(ok, flags, first, size) == [ok |-> ok, flags |-> flags, first |-> first, size |-> size]
SyncOutcomes(flags, first, size) ==
  LET done == IF "DIR_DIRTY" \in flags THEN Synced(TRUE, Clear(flags, "DIR_DIRTY"), first, size)
              ELSE Synced(TRUE, flags, dirFirst, dirSize)
  IN {done} \cup (IF IoFails THEN {[done EXCEPT !.ok = FALSE],
                                   Synced(FALSE, flags, dirFirst, dirSize)} ELSE {})

CursorOffset == m_curPosition % BytesPerCluster
(* The n bytes of the device at the cursor. *)
AtCursor(n) == {m_curCluster} \X (CursorOffset .. CursorOffset + n - 1)

(* Where the byte is after n bytes of the file were stored at the cursor.  *)
Stored(old, n) ==
  (old \ AtCursor(n)) \cup
    (IF byte \in m_curPosition .. m_curPosition + n - 1
     THEN {<<m_curCluster, CursorOffset + byte - m_curPosition>>} ELSE {})

(* The file is cut to size bytes. *)
CutTo(size) ==
  /\ written' = (written /\ byte < size)
  /\ place' = IF byte < size THEN place ELSE {}
  /\ UNCHANGED byte

-----------------------------------------------------------------------------
Init ==
  /\ open = FALSE
  /\ m_flags = {}
  /\ m_curPosition = 0 /\ m_curCluster = 0 /\ m_fileSize = 0 /\ m_firstCluster = 0
  /\ dirFirst = 0 /\ dirSize = 0
  /\ chain = <<>>
  /\ pc = "idle" /\ left = 0
  /\ byte \in Followed
  /\ place = {}
  /\ written = FALSE

Fail == pc' = AfterFailure /\ left' = 0

(* The entry names the chain and no more bytes than the chain has: true    *)
(* unless freeChain or the sync after it failed in truncate or O_TRUNC.    *)
Intact ==
  /\ dirFirst = IF chain = <<>> THEN 0 ELSE chain[1]
  /\ dirSize <= Len(chain) * BytesPerCluster

(* openCachedEntry of an existing file, without and with O_TRUNC.  The     *)
(* seek of O_AT_END may fail, and then the file is not open.               *)
Opened(flags, first, size) ==
  /\ open' = TRUE
  /\ m_flags' = flags
  /\ m_curPosition' = 0 /\ m_curCluster' = 0
  /\ m_firstCluster' = first /\ m_fileSize' = size
  /\ UNCHANGED <<entry, pc, left>>

openFile(append) ==
  /\ ~open /\ Intact
  /\ Opened(append, dirFirst, dirSize)
  /\ UNCHANGED data

openTruncate(append) ==
  /\ ~open /\ Intact
  /\ chain' = <<>> /\ CutTo(0)
  /\ \/ Opened(append \cup {"DIR_DIRTY"}, 0, 0)
     \/ /\ IoFails /\ chain # <<>>        \* freeChain fails
        /\ UNCHANGED <<open, m_flags, cursor, m_fileSize, m_firstCluster, entry, pc,
                       left>>

(* A damaged file is removed and created again. *)
create ==
  /\ ~open /\ ~Intact
  /\ dirFirst' = 0 /\ dirSize' = 0
  /\ chain' = <<>> /\ CutTo(0)
  /\ UNCHANGED <<open, m_flags, cursor, m_fileSize, m_firstCluster, pc, left>>

sync ==
  /\ Usable
  /\ \E o \in SyncOutcomes(m_flags, m_firstCluster, m_fileSize) :
       /\ m_flags' = o.flags /\ dirFirst' = o.first /\ dirSize' = o.size
       /\ pc' = After(o.ok)
  /\ UNCHANGED <<open, cursor, m_fileSize, m_firstCluster, data, left>>

(* close(): the file is closed whatever sync() returns. *)
close ==
  /\ open /\ pc \in {"idle", "close"}
  /\ pc' = "idle"
  /\ \E o \in SyncOutcomes(m_flags, m_firstCluster, m_fileSize) :
       /\ dirFirst' = o.first /\ dirSize' = o.size
       /\ chain' = IF o.first = 0 THEN <<>> ELSE chain
       /\ CutTo(o.size)
  /\ open' = FALSE /\ m_flags' = {}
  /\ m_curPosition' = 0 /\ m_curCluster' = 0 /\ m_fileSize' = 0 /\ m_firstCluster' = 0
  /\ UNCHANGED left

seekSet(pos) ==
  /\ Usable
  /\ \E o \in seekOutcomes(pos) :
       /\ m_curPosition' = o.pos /\ m_curCluster' = o.cluster /\ m_flags' = o.flags
       /\ pc' = After(o.ok \/ pos > m_fileSize)
  /\ UNCHANGED <<open, m_fileSize, m_firstCluster, entry, data, left>>

(* fsetpos with what fgetpos returned at position pos, since the last      *)
(* truncation.                                                             *)
fsetpos(pos) ==
  /\ Usable
  /\ "PREALLOCATE" \in m_flags => EarlySetPos
  /\ pos <= m_fileSize /\ pos <= Len(chain) * BytesPerCluster
  /\ m_curPosition' = pos
  /\ m_curCluster' = IF pos = 0 THEN 0 ELSE chain[Index(pos) + 1]
  /\ UNCHANGED <<open, m_flags, m_fileSize, m_firstCluster, entry, data, pc, left>>

(* contiguousRange: walks the chain and sets the flag. *)
Consecutive == \A i \in DOMAIN chain : chain[i] = chain[1] + i - 1
contiguousRange ==
  /\ Usable /\ m_firstCluster # 0
  /\ \/ Consecutive /\ m_flags' = m_flags \cup {"CONTIGUOUS"} /\ UNCHANGED pc
     \/ IoFails /\ pc' = AfterFailure /\ UNCHANGED m_flags
  /\ UNCHANGED <<open, cursor, m_fileSize, m_firstCluster, entry, data, left>>

(* preAllocate(length): a group of clusters from b on, in an empty file. *)
preAllocate(length, b) ==
  LET need == 1 + Index(length) IN
  /\ Usable
  /\ m_firstCluster = 0
  /\ b + need - 1 <= m_lastCluster
  /\ chain' = [i \in 1 .. need |-> b + i - 1]
  /\ m_firstCluster' = b
  /\ m_fileSize' = length
  /\ \E o \in SyncOutcomes(m_flags \cup {"PREALLOCATE", "CONTIGUOUS", "DIR_DIRTY"}, b, length) :
       /\ m_flags' = o.flags /\ dirFirst' = o.first /\ dirSize' = o.size
       /\ pc' = After(o.ok)
  /\ UNCHANGED <<open, cursor, byte, place, written, left>>

(* truncate(): cuts the chain behind m_curCluster, or forgets it when the  *)
(* position is 0; frees the rest; sets the size; syncs.                    *)
CutAt == IF m_curCluster = 0 THEN 0 ELSE CHOOSE i \in DOMAIN chain : chain[i] = m_curCluster

TruncateFails == IoFails /\ pc' = "close"
TruncateEnds ==
  /\ m_fileSize' = m_curPosition
  /\ \E o \in SyncOutcomes(m_flags \cup {"DIR_DIRTY"}, m_firstCluster', m_curPosition) :
       /\ m_flags' = o.flags /\ dirFirst' = o.first /\ dirSize' = o.size
       /\ pc' = IF o.ok THEN "idle" ELSE "close"

truncate ==
  /\ Usable /\ m_firstCluster # 0
  /\ m_curCluster \in Owned \cup {0}
  /\ \/ /\ chain' = SubSeq(chain, 1, CutAt)
        /\ m_firstCluster' = IF m_curCluster = 0 THEN 0 ELSE m_firstCluster
        /\ CutTo(m_curPosition)
        /\ \/ TruncateEnds
           \/ /\ TruncateFails /\ CutAt < Len(chain)      \* in freeChain
              /\ UNCHANGED <<m_fileSize, m_flags, entry>>
     \/ /\ TruncateFails /\ m_curCluster # 0            \* in fatGet or fatPutEOC
        /\ UNCHANGED <<data, m_firstCluster, m_fileSize, m_flags, entry>>
  /\ UNCHANGED <<open, cursor, left>>

-----------------------------------------------------------------------------
AtCluster == CursorOffset = 0
SectorOffset == m_curPosition % BytesPerSector

(* Bytes of the next transfer: what is left of a sector that is not taken  *)
(* whole, or the whole sectors up to the end of the cluster.               *)
Smaller(a, b) == IF a < b THEN a ELSE b
PartOfSector == Smaller(BytesPerSector - SectorOffset, left)
Partial == SectorOffset # 0 \/ left < BytesPerSector
Chunk ==
  IF Partial THEN PartOfSector
  ELSE Smaller(left - (left % BytesPerSector), BytesPerCluster - CursorOffset)

(* readPrivate(nbyte): no more than is left of the file, in unsigned       *)
(* arithmetic.                                                             *)
ToReadAll(n) == n                                           \* slip: size not asked
ToRead(n) == Smaller(n, (m_fileSize - m_curPosition) % Word)

readCall(n) ==
  /\ Usable
  /\ left' = ToRead(n)
  /\ pc' = "read"
  /\ UNCHANGED <<open, m_flags, cursor, m_fileSize, m_firstCluster, entry, data>>

(* At the start of a cluster: the first cluster, the next number of a      *)
(* contiguous file, or the next cluster of the FAT.                        *)
ReadCluster ==
  /\ pc = "read" /\ left > 0
  /\ \/ pc' = "read_io" /\ ~AtCluster /\ UNCHANGED <<m_curCluster, left>>
     \/ /\ AtCluster
        /\ m_curCluster' = IF m_curPosition = 0 THEN m_firstCluster
                           ELSE IF Contiguous THEN m_curCluster + 1 ELSE FatValue(m_curCluster)
        /\ m_curCluster' # EOC
        /\ pc' = "read_io" /\ UNCHANGED left
     \/ /\ AtCluster /\ m_curPosition # 0 /\ ~Contiguous
        /\ IoFails \/ FatValue(m_curCluster) = EOC
        /\ Fail /\ UNCHANGED m_curCluster
  /\ UNCHANGED <<open, m_flags, m_curPosition, m_fileSize, m_firstCluster, entry, data>>

(* The transfer; one sector only when it is in the cache. *)
ReadTransfer ==
  /\ pc = "read_io"
  /\ \/ \E k \in {PartOfSector, Chunk} :
          /\ m_curPosition' = m_curPosition + k
          /\ left' = left - k
          /\ pc' = "read"
     \/ IoFails /\ Fail /\ UNCHANGED m_curPosition
  /\ UNCHANGED <<open, m_flags, m_curCluster, m_fileSize, m_firstCluster, entry, data>>

ReadEnds ==
  /\ pc = "read" /\ left = 0
  /\ pc' = "idle"
  /\ UNCHANGED <<open, m_flags, cursor, m_fileSize, m_firstCluster, entry, data, left>>

(* write(nbyte): O_APPEND seeks first; the size stays below 2^32. *)
TooLongNever(n, pos) == FALSE                               \* slip: size not limited
TooLong(n, pos) == n > Word - 1 - pos

writeCall(n) ==
  /\ Usable
  /\ \E o \in IF "APPEND" \in m_flags THEN seekOutcomes(m_fileSize)
              ELSE {Sought(TRUE, m_curPosition, m_curCluster, m_flags)} :
       /\ m_curPosition' = o.pos /\ m_curCluster' = o.cluster /\ m_flags' = o.flags
       /\ \/ /\ o.ok /\ ~TooLong(n, o.pos)
             /\ left' = n /\ pc' = "write"
          \/ /\ o.ok /\ TooLong(n, o.pos)
             /\ UNCHANGED <<left, pc>>
          \/ /\ ~o.ok
             /\ Fail
  /\ UNCHANGED <<open, m_fileSize, m_firstCluster, entry, data>>

(* addCluster(): any cluster that the file does not own. *)
addCluster(c) ==
  /\ c \notin Owned
  /\ chain' = Append(chain, c)
  /\ m_curCluster' = c
  /\ m_flags' = AddFlags(c)

(* At the start of a cluster: the next number of a contiguous file inside  *)
(* its size, the next cluster of the FAT or the first one of the file.     *)
NextNumber == Contiguous /\ m_fileSize > m_curPosition
WriteMoves ==
  /\ m_curCluster' = IF m_curCluster = 0 THEN m_firstCluster
                     ELSE IF NextNumber THEN m_curCluster + 1 ELSE FatValue(m_curCluster)
  /\ m_curCluster = 0 => m_firstCluster # 0
  /\ m_curCluster' # EOC
  /\ pc' = "write_io"
  /\ UNCHANGED <<m_flags, m_firstCluster, chain, left>>

(* A new cluster is needed at the end of the chain. *)
NeedsCluster ==
  IF m_curCluster = 0 THEN m_firstCluster = 0
  ELSE ~NextNumber /\ m_curCluster \in Owned /\ FatValue(m_curCluster) = EOC
WriteAdds ==
  /\ NeedsCluster
  /\ \E c \in Cluster : addCluster(c)
  /\ m_firstCluster' = IF m_curCluster = 0 THEN m_curCluster' ELSE m_firstCluster
  /\ pc' = "write_io"
  /\ UNCHANGED left

(* fatGet or addCluster fails, or no cluster is free. *)
WriteStops ==
  /\ \/ NeedsCluster /\ (IoFails \/ Cluster \subseteq Owned)
     \/ m_curCluster # 0 /\ ~NextNumber /\ (IoFails \/ m_curCluster \notin Cluster)
  /\ Fail
  /\ UNCHANGED <<m_curCluster, m_flags, m_firstCluster, chain>>

WriteCluster ==
  /\ pc = "write" /\ left > 0
  /\ \/ /\ ~AtCluster
        /\ pc' = "write_io"
        /\ UNCHANGED <<m_curCluster, m_flags, m_firstCluster, chain, left>>
     \/ AtCluster /\ (WriteMoves \/ WriteAdds \/ WriteStops)
  /\ UNCHANGED <<open, m_curPosition, m_fileSize, entry, byte, place, written>>

(* The transfer.  Part of a sector goes into the cache: a sector that      *)
(* needs no reading keeps what the cache holds, its own bytes or those of  *)
(* another sector.  A full sector is synced at once.                       *)
Reserve == SectorOffset = 0 /\ (m_curPosition >= m_fileSize \/ "PREALLOCATE" \in m_flags)
InCache == IF Reserve THEN {place, place \ AtCursor(BytesPerSector)} ELSE {place}
InTransfer == byte \in m_curPosition .. m_curPosition + Chunk - 1

WriteTransfer ==
  /\ pc = "write_io"
  /\ \/ /\ place' \in {Stored(old, Chunk) : old \in IF Partial THEN InCache ELSE {place}}
        /\ written' = (written \/ InTransfer)
        /\ m_curPosition' = m_curPosition + Chunk
        /\ left' = left - Chunk
        /\ pc' = "write"
     \/ /\ IoFails /\ Partial                        \* prepare, or the sync after
        /\ \/ UNCHANGED place
           \/ /\ SectorOffset + Chunk = BytesPerSector
              /\ place' \in {Stored(old, Chunk) : old \in InCache}
        /\ Fail /\ UNCHANGED <<written, m_curPosition>>
     \/ /\ IoFails /\ ~Partial                       \* the device: some of it or none
        /\ place' = place \ AtCursor(Chunk)
        /\ written' = (written /\ ~InTransfer)
        /\ Fail /\ UNCHANGED m_curPosition
  /\ UNCHANGED <<open, m_flags, m_curCluster, m_fileSize, m_firstCluster, entry, chain, byte>>

(* The end of write(): a longer file needs a new entry.  No date callback  *)
(* is set: with one, any write marks the entry.                            *)
GrownFlagsClean == m_flags                                  \* slip: not marked dirty
GrownFlags == m_flags \cup {"DIR_DIRTY"}
WriteEnds ==
  /\ pc = "write" /\ left = 0
  /\ IF m_curPosition > m_fileSize
     THEN m_fileSize' = m_curPosition /\ m_flags' = GrownFlags
     ELSE UNCHANGED <<m_flags, m_fileSize>>
  /\ pc' = "idle"
  /\ UNCHANGED <<open, cursor, m_firstCluster, entry, data, left>>

Next ==
  \/ \E append \in SUBSET {"APPEND"} : openFile(append) \/ openTruncate(append)
  \/ create
  \/ sync
  \/ close
  \/ \E pos \in 0 .. Word - 1 : seekSet(pos) \/ fsetpos(pos)
  \/ contiguousRange
  \/ \E length \in 1 .. Word - 1, b \in Cluster : preAllocate(length, b)
  \/ truncate
  \/ \E n \in 1 .. MaxTransfer : readCall(n) \/ writeCall(n)
  \/ ReadCluster
  \/ ReadTransfer
  \/ ReadEnds
  \/ WriteCluster
  \/ WriteTransfer
  \/ WriteEnds

Spec == Init /\ [][Next]_vars

-----------------------------------------------------------------------------
Position == 0 .. Word - 1

(* Types; positions and sizes stay below 2^32, also at the end of the      *)
(* largest file.                                                           *)
TypeOK ==
  /\ open \in BOOLEAN
  /\ m_flags \subseteq Flags
  /\ m_curPosition \in Position /\ m_fileSize \in Position /\ dirSize \in Position
  /\ m_curCluster \in Cluster \cup {0}
  /\ m_firstCluster \in Cluster \cup {0} /\ dirFirst \in Cluster \cup {0}
  /\ chain \in Seq(Cluster)
  /\ pc \in {"idle", "read", "read_io", "write", "write_io", "close"}
  /\ left \in 0 .. MaxTransfer
  /\ byte \in Position
  /\ place \subseteq Cluster \X Offset
  /\ written \in BOOLEAN

(* The cluster that a read or a write transfers to is the file's, and the  *)
(* one that holds the position, however the cursor came there: by seeks    *)
(* forwards and backwards, saved positions, appends, new clusters, the     *)
(* contiguous short cut, truncation.                                       *)
RightCluster ==
  pc \in {"read_io", "write_io"} =>
    /\ m_curPosition < Len(chain) * BytesPerCluster
    /\ m_curCluster = chain[m_curPosition \div BytesPerCluster + 1]

(* A byte that was written and not cut off is where a read of its position *)
(* looks: no later write, whole sector, partial sector or sector reserved  *)
(* without reading, has taken it away.                                     *)
WrittenInPlace ==
  written =>
    /\ byte < Len(chain) * BytesPerCluster
    /\ <<chain[byte \div BytesPerCluster + 1], byte % BytesPerCluster>> \in place

(* FILE_FLAG_CONTIGUOUS is set only while the clusters are consecutive     *)
(* numbers from the first one: the code then counts instead of reading the *)
(* FAT.                                                                    *)
ContiguousHolds ==
  open /\ Contiguous =>
    \A i \in DOMAIN chain : chain[i] = m_firstCluster + i - 1

(* Until a call fails: the chain covers the size, the position is inside   *)
(* the file between calls, and a read ends at the end of the file.         *)
InsideFile ==
  open /\ pc # "close" =>
    /\ m_fileSize <= Len(chain) * BytesPerCluster
    /\ pc \in {"idle", "read", "read_io"} => m_curPosition + left <= m_fileSize

(* FILE_FLAG_DIR_DIRTY is set whenever the directory entry is behind the   *)
(* file, in the middle of a call too; so a sync or close that succeeds     *)
(* loses neither the size nor the first cluster.                           *)
EntryAgrees ==
  open /\ pc # "close" /\ "DIR_DIRTY" \notin m_flags =>
    dirFirst = m_firstCluster /\ dirSize = m_fileSize

(* m_curCluster is the "cluster for current file position"                 *)
(* (FatFile.h:1077): what write() transfers goes to a cluster of the file. *)
WritesOwnCluster == pc = "write_io" => m_curCluster \in Owned
=============================================================================
