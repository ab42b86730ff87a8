------------------------------ MODULE FsCache ------------------------------
(***************************************************************************)
(* The one-sector write-back cache of src/src/common/FsCache.{h,cpp}: the  *)
(* component through which every FAT sector, every directory sector and    *)
(* every partly written data sector goes.                                  *)
(*                                                                         *)
(* The device under the cache is external: a read or a write of a sector   *)
(* may fail.  A failed write leaves the old or the new contents; a failed  *)
(* read may already have overwritten the destination with anything         *)
(* (SdSpiCard::readData stores the bytes before it knows the CRC is right).*)
(*                                                                         *)
(* A sector's contents are a function from a few cells to values, so that  *)
(* a client changes part of a sector and the rest must survive.            *)
(***************************************************************************)
EXTENDS Naturals

CONSTANTS
  Sector,          \* sectors of the device, numbers as in the code
  FatSector,       \* sectors of the first FAT: the ones cached with the mirror bit
  m_mirrorOffset,  \* distance to the second FAT (setMirrorOffset)
  NoSector,        \* 0XFFFFFFFF, the m_sector of an invalidated cache
  Cell,            \* parts of a sector that a client stores separately
  Val              \* values of a cell

MirrorSector == {f + m_mirrorOffset : f \in FatSector}
DataSector == Sector \ (FatSector \cup MirrorSector)
Content == [Cell -> Val]

ASSUME SectorAssumption ==
  /\ Sector \subseteq Nat
  /\ FatSector \subseteq Sector
  /\ m_mirrorOffset \in Nat
  /\ MirrorSector \subseteq Sector \ FatSector
  /\ NoSector \in Nat
  /\ \A s \in Sector : s < NoSector

(* Sectors that clients of the cache name; the second FAT is never named. *)
ClientSector == FatSector \cup DataSector

VARIABLES
  disk,      \* what the device holds
  m_status,  \* subset of {"DIRTY", "MIRROR_FAT"}
  m_sector,
  m_buffer,
  (* History variables: they record what happened and guard nothing. *)
  content,   \* what clients have stored in each sector they name
  damaged,   \* sectors that were in the cache when a failed read tore the buffer
  dropped,   \* FAT sectors whose copies differed when init() dropped the cache
  got        \* what the last call returned: a function from sectors to contents

cache == <<m_status, m_sector, m_buffer>>
history == <<content, damaged, dropped, got>>
vars == <<disk, cache, history>>

CACHE_STATUS_MASK == {"DIRTY", "MIRROR_FAT"}
CACHE_FOR_READ == {}
CACHE_FOR_WRITE == {"DIRTY"}
CACHE_RESERVE_FOR_WRITE == {"DIRTY", "NO_READ"}

Sectors(s, n) == s .. (s + n - 1)
(* Lengths of the ranges of data sectors that begin at s. *)
Lengths(s) == {n \in 1 .. NoSector : Sectors(s, n) \subseteq DataSector}
Nothing == [s \in {} |-> 0]

-----------------------------------------------------------------------------
(* Operators marked "slip" are not used: each is the form its neighbour     *)
(* would have after a plausible bug, and a run shows that a property sees it.*)

(* isCached: by sector, and by range with the comparisons of the code. *)
isCached(s) == s = m_sector
isCachedRangeStrict(s, n) == s < m_sector /\ m_sector < s + n       \* slip: misses the first
isCachedRange(s, n) == s <= m_sector /\ m_sector < s + n

(* Where cacheSafeRead takes one sector from. *)
SafeReadDevice(s) == disk[s]                                       \* slip: cache ignored
SafeRead(s) == IF isCached(s) THEN m_buffer ELSE disk[s]

(* m_status of a sector that has just taken over the cache. *)
FilledStatusKept(option) == m_status \cup (option \cap CACHE_STATUS_MASK)  \* slip: not reset
FilledStatus(option) == option \cap CACHE_STATUS_MASK

(* The device after sectors W received the buffer. *)
Written(W) == [s \in Sector |-> IF s \in W THEN m_buffer ELSE disk[s]]

(* Where sync() writes: the sector and, for a FAT sector, the second FAT. *)
CopiesNoMirror == {m_sector}                                     \* slip: one FAT only
Copies == IF "MIRROR_FAT" \in m_status
          THEN {m_sector, m_sector + m_mirrorOffset}
          ELSE {m_sector}

(* FsCache::sync.  The mirror bit survives a successful sync; a failed     *)
(* write leaves the sector dirty, with the first copy or both copies on    *)
(* the device or neither.                                                  *)
SyncOutcomesClean ==                          \* slip: clean even when a write failed
  IF "DIRTY" \notin m_status
  THEN {[ok |-> TRUE, disk |-> disk, status |-> m_status]}
  ELSE {[ok |-> TRUE, disk |-> Written(Copies), status |-> m_status \ {"DIRTY"}]}
       \cup {[ok |-> FALSE, disk |-> Written(W), status |-> m_status \ {"DIRTY"}] :
             W \in {{}, {m_sector}, Copies}}
SyncOutcomes ==
  IF "DIRTY" \notin m_status
  THEN {[ok |-> TRUE, disk |-> disk, status |-> m_status]}
  ELSE {[ok |-> TRUE, disk |-> Written(Copies), status |-> m_status \ {"DIRTY"}]}
       \cup {[ok |-> FALSE, disk |-> Written(W), status |-> m_status] :
             W \in {{}, {m_sector}, Copies}}

-----------------------------------------------------------------------------
Init ==
  /\ disk \in [Sector -> Content]
  /\ \A f \in FatSector : disk[f] = disk[f + m_mirrorOffset]
  /\ m_status = {}
  /\ m_sector = NoSector
  /\ m_buffer \in Content
  /\ content = [s \in ClientSector |-> disk[s]]
  /\ damaged = {}
  /\ dropped = {}
  /\ got = Nothing

(* prepare(): the sector is already cached. *)
PrepareHit(s, option) ==
  /\ isCached(s)
  /\ m_status' = m_status \cup (option \cap CACHE_STATUS_MASK)
  /\ got' = [t \in {s} |-> m_buffer]
  /\ UNCHANGED <<disk, m_sector, m_buffer, content, damaged, dropped>>

(* prepare(): another sector is cached and its sync fails. *)
PrepareSyncFails(s) ==
  /\ ~isCached(s)
  /\ \E r \in SyncOutcomes :
       /\ ~r.ok
       /\ disk' = r.disk
       /\ m_status' = r.status
  /\ got' = Nothing
  /\ UNCHANGED <<m_sector, m_buffer, content, damaged, dropped>>

(* prepare(): the sector is read in and takes over the cache. *)
PrepareRead(s, option) ==
  /\ ~isCached(s)
  /\ "NO_READ" \notin option
  /\ \E r \in SyncOutcomes :
       /\ r.ok
       /\ disk' = r.disk
       /\ m_buffer' = r.disk[s]
  /\ m_status' = FilledStatus(option)
  /\ m_sector' = s
  /\ got' = [t \in {s} |-> m_buffer']
  /\ UNCHANGED <<content, damaged, dropped>>

(* prepare(): readSector fails.  It may have filled the buffer with        *)
(* anything, while m_sector and m_status still describe the old sector.    *)
PrepareReadFails(s, option) ==
  /\ ~isCached(s)
  /\ "NO_READ" \notin option
  /\ \E r \in SyncOutcomes :
       /\ r.ok
       /\ disk' = r.disk
       /\ m_status' = r.status
  /\ m_buffer' \in Content
  /\ damaged' = IF m_buffer' = m_buffer THEN damaged
                ELSE damaged \cup ({m_sector} \cap Sector)
  /\ got' = Nothing
  /\ UNCHANGED <<m_sector, content, dropped>>

(* prepare() with NO_READ: the sector's contents become what the buffer    *)
(* happens to hold until the client stores its own.                        *)
PrepareReserve(s, option) ==
  /\ ~isCached(s)
  /\ "NO_READ" \in option
  /\ \E r \in SyncOutcomes : r.ok /\ disk' = r.disk
  /\ m_status' = FilledStatus(option)
  /\ m_sector' = s
  /\ content' = [content EXCEPT ![s] = m_buffer]
  /\ damaged' = damaged \ {s}
  /\ got' = Nothing
  /\ UNCHANGED <<m_buffer, dropped>>

prepare(s, option) ==
  \/ PrepareHit(s, option)
  \/ PrepareSyncFails(s)
  \/ PrepareRead(s, option)
  \/ PrepareReadFails(s, option)
  \/ PrepareReserve(s, option)

(* FatPartition::fatCachePrepare adds the mirror bit; dataCachePrepare     *)
(* passes its option on.                                                   *)
fatCachePrepare(f) ==
  \E option \in {CACHE_FOR_READ, CACHE_FOR_WRITE} :
    prepare(f, option \cup {"MIRROR_FAT"})

dataCachePrepare(s) ==
  \E option \in {CACHE_FOR_READ, CACHE_FOR_WRITE, CACHE_RESERVE_FOR_WRITE} :
    prepare(s, option)

(* A client stores in the buffer it was handed: for a FAT sector after     *)
(* prepare for write, for another sector after that or followed by dirty().*)
Store(c, v) ==
  /\ m_sector \in ClientSector
  /\ m_sector \in FatSector => "DIRTY" \in m_status
  /\ m_status' = m_status \cup {"DIRTY"}
  /\ m_buffer' = [m_buffer EXCEPT ![c] = v]
  /\ content' = [content EXCEPT ![m_sector][c] = v]
  /\ got' = Nothing
  /\ UNCHANGED <<disk, m_sector, damaged, dropped>>

sync ==
  /\ \E r \in SyncOutcomes : disk' = r.disk /\ m_status' = r.status
  /\ got' = Nothing
  /\ UNCHANGED <<m_sector, m_buffer, content, damaged, dropped>>

(* cacheSafeRead of one sector: from the buffer if it is there. *)
cacheSafeRead(s) ==
  /\ \/ got' = [t \in {s} |-> SafeRead(s)]
     \/ ~isCached(s) /\ got' = Nothing
  /\ UNCHANGED <<disk, cache, content, damaged, dropped>>

(* cacheSafeRead of a range: a cached sector of it is synced first. *)
cacheSafeReadRange(s, n) ==
  /\ \/ /\ isCachedRange(s, n)
        /\ \E r \in SyncOutcomes :
             /\ disk' = r.disk
             /\ m_status' = r.status
             /\ got' \in {Nothing} \cup
                  (IF r.ok THEN {[t \in Sectors(s, n) |-> r.disk[t]]} ELSE {})
     \/ /\ ~isCachedRange(s, n)
        /\ got' \in {Nothing, [t \in Sectors(s, n) |-> disk[t]]}
        /\ UNCHANGED <<disk, m_status>>
  /\ UNCHANGED <<m_sector, m_buffer, content, damaged, dropped>>

(* cacheSafeWrite of one sector (n = 1) or of a range: the cached sector   *)
(* of it is dropped, dirty or not, before the device is written.  When the *)
(* device fails after the first k sectors, what it holds is what the       *)
(* client has stored: the call told it that the range is undefined.        *)
cacheSafeWrite(s, n, src) ==
  /\ \E k \in 0 .. n :
       disk' = [t \in Sector |-> IF t \in Sectors(s, k) THEN src[t] ELSE disk[t]]
  /\ content' = [t \in ClientSector |-> IF t \in Sectors(s, n) THEN disk'[t] ELSE content[t]]
  /\ damaged' = damaged \ Sectors(s, n)
  /\ m_status' = IF isCachedRange(s, n) THEN {} ELSE m_status
  /\ m_sector' = IF isCachedRange(s, n) THEN NoSector ELSE m_sector
  /\ got' = Nothing
  /\ UNCHANGED <<m_buffer, dropped>>

(* clear(): syncs, and keeps the sector when that fails. *)
clear ==
  /\ \E r \in SyncOutcomes :
       /\ disk' = r.disk
       /\ m_status' = IF r.ok THEN {} ELSE r.status
       /\ m_sector' = IF r.ok THEN NoSector ELSE m_sector
  /\ got' = Nothing
  /\ UNCHANGED <<m_buffer, content, damaged, dropped>>

(* init(): a volume is begun (again).  Nothing is synced: clients start    *)
(* from what the device holds.                                             *)
init ==
  /\ m_status' = {}
  /\ m_sector' = NoSector
  /\ content' = [s \in ClientSector |-> disk[s]]
  /\ damaged' = {}
  /\ dropped' = {f \in FatSector : disk[f] # disk[f + m_mirrorOffset]}
  /\ got' = Nothing
  /\ UNCHANGED <<disk, m_buffer>>

Next ==
  \/ \E f \in FatSector : fatCachePrepare(f)
  \/ \E s \in DataSector : dataCachePrepare(s)
  \/ \E c \in Cell, v \in Val : Store(c, v)
  \/ sync
  \/ \E s \in DataSector : cacheSafeRead(s)
  \/ \E s \in DataSector : \E n \in Lengths(s) : cacheSafeReadRange(s, n)
  \/ \E s \in DataSector : \E n \in Lengths(s) :
       \E src \in [Sectors(s, n) -> Content] : cacheSafeWrite(s, n, src)
  \/ clear
  \/ init

Spec == Init /\ [][Next]_vars

-----------------------------------------------------------------------------
(* Every variable has its type, the mirror bit marks exactly the FAT       *)
(* sectors, and an invalidated cache has no status (prepare, invalidate).  *)
TypeOK ==
  /\ disk \in [Sector -> Content]
  /\ m_status \subseteq CACHE_STATUS_MASK
  /\ m_sector \in ClientSector \cup {NoSector}
  /\ m_buffer \in Content
  /\ content \in [ClientSector -> Content]
  /\ damaged \subseteq Sector
  /\ dropped \subseteq FatSector
  /\ "MIRROR_FAT" \in m_status <=> m_sector \in FatSector
  /\ m_sector = NoSector => m_status = {}

(* What a client would find in a sector: the buffer if it is cached. *)
View(s) == IF m_sector = s THEN m_buffer ELSE disk[s]

(* Nothing a client stored is lost, through any sequence of evictions,     *)
(* syncs, failed device calls and reads or writes around the cache.  The   *)
(* sectors excepted are those a failed read tore the buffer of.            *)
Coherent == \A s \in ClientSector \ damaged : View(s) = content[s]

(* A cached sector that is not dirty is on the device: eviction without a  *)
(* write is safe.                                                          *)
CleanIsOnDevice ==
  m_sector \in Sector \ damaged /\ "DIRTY" \notin m_status => m_buffer = disk[m_sector]

(* The two copies of the FAT differ only in the sector that is cached and  *)
(* still dirty, whatever writes failed in between; so a sync that reports  *)
(* success leaves them equal (sync, the mirror write and its early return).*)
MirrorAgrees ==
  \A f \in FatSector \ dropped :
    disk[f] = disk[f + m_mirrorOffset] \/ (m_sector = f /\ "DIRTY" \in m_status)

(* What a successful call returned is what clients stored, from the buffer *)
(* or from the device (prepare, cacheSafeRead of a sector and of a range). *)
ReadsContent == \A s \in DOMAIN got \ damaged : got[s] = content[s]

(* isCached(s), "true if the sector is cached" (FsCache.h:139): the buffer *)
(* of a sector that isCached and is not dirty is a copy of that sector.    *)
CachedMeansHeld ==
  m_sector \in Sector /\ "DIRTY" \notin m_status => m_buffer = disk[m_sector]
=============================================================================
