--------------------------- MODULE FsCacheProofs ---------------------------
(* Proofs that the sector cache keeps what its clients store, for every     *)
(* device layout, sector contents and sequence of failing device calls.     *)
EXTENDS FsCache, TLAPS

(* The inductive invariant.  Coherent needs CleanIsOnDevice at an eviction  *)
(* without a write, and MirrorAgrees needs the part of TypeOK that says the *)
(* mirror bit marks exactly the FAT sectors.                                *)
IInv == TypeOK /\ Coherent /\ CleanIsOnDevice /\ MirrorAgrees

(* No client sector is a mirror sector, and two FAT sectors have two mirrors.*)
LEMMA Layout ==
  /\ ClientSector \subseteq Sector
  /\ \A f \in FatSector : f + m_mirrorOffset \in Sector \ ClientSector
  /\ \A f, g \in FatSector : f + m_mirrorOffset = g + m_mirrorOffset => f = g
  /\ NoSector \notin Sector
  /\ FatSector \subseteq ClientSector
  /\ DataSector \subseteq ClientSector \ FatSector
<1>1. FatSector \subseteq Nat /\ NoSector \notin Sector
  BY SectorAssumption
<1>2. \A f \in FatSector : f + m_mirrorOffset \in MirrorSector
  BY DEF MirrorSector
<1>3. MirrorSector \cap ClientSector = {} /\ MirrorSector \subseteq Sector
  BY SectorAssumption DEF ClientSector, DataSector
<1>4. \A f, g \in FatSector : f + m_mirrorOffset = g + m_mirrorOffset => f = g
  BY <1>1, SectorAssumption
<1>5. ClientSector \subseteq Sector /\ FatSector \subseteq ClientSector
  BY SectorAssumption DEF ClientSector, DataSector
<1>6. DataSector \subseteq ClientSector \ FatSector
  BY DEF ClientSector, DataSector
<1> QED BY <1>1, <1>2, <1>3, <1>4, <1>5, <1>6

(* What sync() leaves on the device and in m_status, whether or not it      *)
(* reports success.                                                         *)
LEMMA SyncFacts ==
  ASSUME IInv, NEW r \in SyncOutcomes
  PROVE  /\ r.disk \in [Sector -> Content]
         /\ r.status \subseteq CACHE_STATUS_MASK
         /\ "MIRROR_FAT" \in r.status <=> "MIRROR_FAT" \in m_status
         /\ r.ok => "DIRTY" \notin r.status
         /\ ~r.ok => r.status = m_status /\ "DIRTY" \in m_status
         /\ \A s \in ClientSector : s # m_sector => r.disk[s] = disk[s]
         /\ r.ok /\ m_sector \in Sector \ damaged => r.disk[m_sector] = m_buffer
         /\ \A f \in FatSector \ dropped :
              \/ r.disk[f] = r.disk[f + m_mirrorOffset]
              \/ ~r.ok /\ f = m_sector
         /\ m_sector = NoSector => r.ok /\ r.disk = disk /\ r.status = {}
<1> USE DEF IInv, TypeOK
<1>1. CASE "DIRTY" \notin m_status
  <2>1. r = [ok |-> TRUE, disk |-> disk, status |-> m_status]
    BY <1>1 DEF SyncOutcomes
  <2>2. r.ok /\ r.disk = disk /\ r.status = m_status
    BY <2>1
  <2>3. \A f \in FatSector \ dropped : disk[f] = disk[f + m_mirrorOffset]
    BY <1>1 DEF MirrorAgrees
  <2>4. m_sector \in Sector \ damaged => disk[m_sector] = m_buffer
    BY <1>1 DEF CleanIsOnDevice
  <2> QED BY <1>1, <2>2, <2>3, <2>4
<1>2. CASE "DIRTY" \in m_status
  <2>1. PICK W \in {{}, {m_sector}, Copies} :
          /\ r.disk = Written(W)
          /\ r.ok => W = Copies /\ r.status = m_status \ {"DIRTY"}
          /\ ~r.ok => r.status = m_status
          /\ r.ok \in BOOLEAN
    <3>1. CASE r = [ok |-> TRUE, disk |-> Written(Copies),
                    status |-> m_status \ {"DIRTY"}]
      BY <3>1
    <3>2. CASE \E W \in {{}, {m_sector}, Copies} :
                 r = [ok |-> FALSE, disk |-> Written(W), status |-> m_status]
      BY <3>2
    <3> QED BY <3>1, <3>2, <1>2 DEF SyncOutcomes
  <2>2. m_sector \in ClientSector
    BY <1>2
  <2>3. W \subseteq {m_sector, m_sector + m_mirrorOffset}
    BY DEF Copies
  <2>4. r.disk \in [Sector -> Content]
    BY <2>1 DEF Written
  <2>5. \A s \in Sector : s \notin W => r.disk[s] = disk[s]
    BY <2>1 DEF Written
  <2>6. \A s \in Sector : s \in W => r.disk[s] = m_buffer
    BY <2>1 DEF Written
  <2>7. W # {} /\ W # {m_sector} => m_sector \in FatSector
    BY DEF Copies
  <2>8. \A s \in ClientSector : s # m_sector => s \notin W
    <3>1. CASE W = {} \/ W = {m_sector}
      BY <3>1
    <3>2. CASE ~(W = {} \/ W = {m_sector})
      BY <3>2, <2>3, <2>7, Layout
    <3> QED BY <3>1, <3>2
  <2>9. r.ok => m_sector \in W
    BY <2>1 DEF Copies
  <2>10. ASSUME NEW f \in FatSector \ dropped
         PROVE  \/ r.disk[f] = r.disk[f + m_mirrorOffset]
                \/ ~r.ok /\ f = m_sector
    <3>1. f \in Sector /\ f + m_mirrorOffset \in Sector
      BY Layout
    <3>2. CASE f = m_sector
      <4>1. r.ok => f \in W /\ f + m_mirrorOffset \in W
        BY <3>2, <2>1 DEF Copies
      <4> QED BY <4>1, <3>1, <3>2, <2>6, <2>1
    <3>3. CASE f # m_sector
      <4>1. f \notin W
        BY <3>3, <2>8, Layout
      <4>2. f + m_mirrorOffset # m_sector
        BY <2>2, Layout
      <4>3. f + m_mirrorOffset \notin W
        <5>1. CASE W = {} \/ W = {m_sector}
          BY <5>1, <4>2
        <5>2. CASE ~(W = {} \/ W = {m_sector})
          BY <5>2, <2>3, <2>7, <3>3, <4>2, Layout
        <5> QED BY <5>1, <5>2
      <4>4. disk[f] = disk[f + m_mirrorOffset]
        BY <3>3 DEF MirrorAgrees
      <4> QED BY <4>1, <4>3, <4>4, <3>1, <2>5
    <3> QED BY <3>2, <3>3
  <2>11. m_sector # NoSector
    BY <1>2
  <2> QED BY <1>2, <2>1, <2>2, <2>4, <2>5, <2>6, <2>8, <2>9, <2>10, <2>11, Layout
<1> QED BY <1>1, <1>2

-----------------------------------------------------------------------------
(* One lemma per handler: it preserves the invariant, and what it returns   *)
(* is what clients stored.                                                  *)

LEMMA PrepareInv ==
  ASSUME IInv, NEW s \in ClientSector, NEW option,
         option \in {CACHE_FOR_READ, CACHE_FOR_WRITE, CACHE_RESERVE_FOR_WRITE,
                     CACHE_FOR_READ \cup {"MIRROR_FAT"}, CACHE_FOR_WRITE \cup {"MIRROR_FAT"}},
         "MIRROR_FAT" \in option <=> s \in FatSector,
         prepare(s, option)
  PROVE  IInv' /\ ReadsContent'
<1> USE DEF IInv
<1>0. /\ option \cap CACHE_STATUS_MASK \subseteq CACHE_STATUS_MASK
      /\ "MIRROR_FAT" \in option \cap CACHE_STATUS_MASK <=> s \in FatSector
      /\ s \in Sector /\ s # NoSector
      /\ "NO_READ" \in option => "DIRTY" \in option /\ s \in DataSector
  <2>1. "NO_READ" \in option => option = CACHE_RESERVE_FOR_WRITE
    BY DEF CACHE_FOR_READ, CACHE_FOR_WRITE, CACHE_RESERVE_FOR_WRITE
  <2>2. "NO_READ" \in option => "MIRROR_FAT" \notin option /\ "DIRTY" \in option
    BY <2>1 DEF CACHE_RESERVE_FOR_WRITE
  <2> QED BY <2>2, Layout DEF CACHE_STATUS_MASK, ClientSector
<1>1. CASE PrepareHit(s, option)
  <2> USE <1>1 DEF PrepareHit, isCached
  <2>1. TypeOK'
    BY <1>0 DEF TypeOK
  <2>2. Coherent' /\ CleanIsOnDevice' /\ MirrorAgrees'
    BY <1>0 DEF Coherent, CleanIsOnDevice, MirrorAgrees, View
  <2>3. ReadsContent'
    BY DEF ReadsContent, Coherent, View
  <2> QED BY <2>1, <2>2, <2>3
<1>2. CASE PrepareSyncFails(s)
  <2>1. PICK r \in SyncOutcomes : ~r.ok /\ disk' = r.disk /\ m_status' = r.status
    BY <1>2 DEF PrepareSyncFails
  <2> USE <1>2, <2>1, SyncFacts DEF PrepareSyncFails
  <2>2. TypeOK'
    BY DEF TypeOK
  <2>3. Coherent' /\ CleanIsOnDevice' /\ MirrorAgrees'
    BY DEF Coherent, CleanIsOnDevice, MirrorAgrees, View
  <2>4. ReadsContent'
    BY DEF ReadsContent, Nothing
  <2> QED BY <2>2, <2>3, <2>4
<1>3. CASE PrepareRead(s, option)
  <2>1. PICK r \in SyncOutcomes : r.ok /\ disk' = r.disk /\ m_buffer' = r.disk[s]
    BY <1>3 DEF PrepareRead
  <2> USE <1>3, <2>1, SyncFacts DEF PrepareRead, isCached, FilledStatus
  <2>2. TypeOK'
    BY <1>0 DEF TypeOK
  <2>3. Coherent'
    BY <1>0, Layout DEF Coherent, View, TypeOK
  <2>4. CleanIsOnDevice' /\ MirrorAgrees'
    BY <1>0 DEF CleanIsOnDevice, MirrorAgrees
  <2>5. ReadsContent'
    BY <1>0, <2>3 DEF ReadsContent, Coherent, View
  <2> QED BY <2>2, <2>3, <2>4, <2>5
<1>4. CASE PrepareReadFails(s, option)
  <2>1. PICK r \in SyncOutcomes : r.ok /\ disk' = r.disk /\ m_status' = r.status
    BY <1>4 DEF PrepareReadFails
  <2> USE <1>4, <2>1, SyncFacts DEF PrepareReadFails
  <2>2. TypeOK'
    BY DEF TypeOK
  <2>3. Coherent' /\ CleanIsOnDevice'
    BY Layout DEF Coherent, View, CleanIsOnDevice, TypeOK
  <2>4. MirrorAgrees'
    BY DEF MirrorAgrees
  <2>5. ReadsContent'
    BY DEF ReadsContent, Nothing
  <2> QED BY <2>2, <2>3, <2>4, <2>5
<1>5. CASE PrepareReserve(s, option)
  <2>1. PICK r \in SyncOutcomes : r.ok /\ disk' = r.disk
    BY <1>5 DEF PrepareReserve
  <2> USE <1>5, <2>1, SyncFacts DEF PrepareReserve, isCached, FilledStatus
  <2>2. TypeOK'
    BY <1>0 DEF TypeOK
  <2>3. Coherent'
    BY <1>0, Layout DEF Coherent, View, TypeOK
  <2>4. CleanIsOnDevice' /\ MirrorAgrees'
    BY <1>0 DEF CleanIsOnDevice, MirrorAgrees, CACHE_STATUS_MASK
  <2>5. ReadsContent'
    BY DEF ReadsContent, Nothing
  <2> QED BY <2>2, <2>3, <2>4, <2>5
<1> QED BY <1>1, <1>2, <1>3, <1>4, <1>5 DEF prepare

LEMMA StoreInv ==
  ASSUME IInv, NEW c \in Cell, NEW v \in Val, Store(c, v)
  PROVE  IInv' /\ ReadsContent'
<1> USE DEF IInv, Store
<1>1. TypeOK'
  BY Layout DEF TypeOK, Content, CACHE_STATUS_MASK
<1>2. Coherent'
  <2> SUFFICES ASSUME NEW t \in ClientSector \ damaged PROVE View(t)' = content'[t]
    BY DEF Coherent
  <2>1. CASE t = m_sector
    <3>1. m_buffer = content[m_sector]
      BY <2>1 DEF Coherent, View
    <3> QED BY <2>1, <3>1 DEF View, TypeOK
  <2>2. CASE t # m_sector
    BY <2>2 DEF Coherent, View, TypeOK
  <2> QED BY <2>1, <2>2
<1>3. CleanIsOnDevice' /\ MirrorAgrees'
  BY DEF CleanIsOnDevice, MirrorAgrees
<1>4. ReadsContent'
  BY DEF ReadsContent, Nothing
<1> QED BY <1>1, <1>2, <1>3, <1>4

LEMMA SyncInv ==
  ASSUME IInv, sync
  PROVE  IInv' /\ ReadsContent'
<1> USE DEF IInv, sync
<1>1. PICK r \in SyncOutcomes : disk' = r.disk /\ m_status' = r.status
  OBVIOUS
<1> USE <1>1, SyncFacts
<1>2. TypeOK'
  BY DEF TypeOK
<1>3. Coherent' /\ CleanIsOnDevice' /\ MirrorAgrees'
  BY DEF Coherent, CleanIsOnDevice, MirrorAgrees, View
<1>4. ReadsContent'
  BY DEF ReadsContent, Nothing
<1> QED BY <1>2, <1>3, <1>4

LEMMA CacheSafeReadInv ==
  ASSUME IInv, NEW s \in DataSector, cacheSafeRead(s)
  PROVE  IInv' /\ ReadsContent'
<1> USE DEF IInv, cacheSafeRead, cache
<1>1. TypeOK' /\ Coherent' /\ CleanIsOnDevice' /\ MirrorAgrees'
  BY DEF TypeOK, Coherent, CleanIsOnDevice, MirrorAgrees, View
<1>2. ReadsContent'
  BY Layout DEF ReadsContent, Nothing, Coherent, View, SafeRead, isCached
<1> QED BY <1>1, <1>2

(* A range of data sectors names sectors of clients, and the range test of  *)
(* isCached says exactly whether the cached sector is one of them.          *)
LEMMA RangeFacts ==
  ASSUME IInv, NEW s \in DataSector, NEW n \in Lengths(s)
  PROVE  /\ Sectors(s, n) \subseteq DataSector
         /\ isCachedRange(s, n) <=> m_sector \in Sectors(s, n)
         /\ s \in Nat /\ n \in Nat
<1>1. s \in Nat /\ n \in Nat /\ Sectors(s, n) \subseteq DataSector
  BY SectorAssumption DEF DataSector, Lengths
<1>2. m_sector \in Nat
  BY Layout, SectorAssumption DEF IInv, TypeOK
<1> QED BY <1>1, <1>2 DEF Sectors, isCachedRange

LEMMA CacheSafeReadRangeInv ==
  ASSUME IInv, NEW s \in DataSector, NEW n \in Lengths(s), cacheSafeReadRange(s, n)
  PROVE  IInv' /\ ReadsContent'
<1> USE DEF IInv
<1>0. UNCHANGED <<m_sector, m_buffer, content, damaged, dropped>>
  BY DEF cacheSafeReadRange
<1>1. CASE isCachedRange(s, n)
  <2>1. PICK r \in SyncOutcomes :
          /\ disk' = r.disk
          /\ m_status' = r.status
          /\ got' = Nothing \/ (r.ok /\ got' = [t \in Sectors(s, n) |-> r.disk[t]])
    BY <1>1 DEF cacheSafeReadRange
  <2> USE <1>0, <2>1, SyncFacts
  <2>2. TypeOK'
    BY DEF TypeOK
  <2>3. Coherent' /\ CleanIsOnDevice' /\ MirrorAgrees'
    BY DEF Coherent, CleanIsOnDevice, MirrorAgrees, View
  <2>4. ReadsContent'
    BY RangeFacts, Layout DEF ReadsContent, Nothing, Coherent, View
  <2> QED BY <2>2, <2>3, <2>4
<1>2. CASE ~isCachedRange(s, n)
  <2>1. UNCHANGED <<disk, m_status>>
    BY <1>2 DEF cacheSafeReadRange
  <2>2. got' \in {Nothing, [t \in Sectors(s, n) |-> disk[t]]}
    BY <1>2 DEF cacheSafeReadRange
  <2>3. TypeOK' /\ Coherent' /\ CleanIsOnDevice' /\ MirrorAgrees'
    BY <1>0, <2>1 DEF TypeOK, Coherent, CleanIsOnDevice, MirrorAgrees, View
  <2>4. ReadsContent'
    BY <1>0, <1>2, <2>2, RangeFacts, Layout DEF ReadsContent, Nothing, Coherent, View
  <2> QED BY <2>3, <2>4
<1> QED BY <1>1, <1>2

LEMMA CacheSafeWriteInv ==
  ASSUME IInv, NEW s \in DataSector, NEW n \in Lengths(s),
         NEW src \in [Sectors(s, n) -> Content], cacheSafeWrite(s, n, src)
  PROVE  IInv' /\ ReadsContent'
<1> USE DEF IInv
<1>1. PICK k \in 0 .. n :
        disk' = [t \in Sector |-> IF t \in Sectors(s, k) THEN src[t] ELSE disk[t]]
  BY DEF cacheSafeWrite
<1>2. Sectors(s, k) \subseteq Sectors(s, n)
  BY RangeFacts, <1>1 DEF Sectors
<1>3. /\ disk' \in [Sector -> Content]
      /\ \A t \in Sector : t \notin Sectors(s, n) => disk'[t] = disk[t]
  BY <1>1, <1>2 DEF TypeOK
<1>4. /\ content' = [t \in ClientSector |->
                      IF t \in Sectors(s, n) THEN disk'[t] ELSE content[t]]
      /\ damaged' = damaged \ Sectors(s, n)
      /\ m_status' = IF isCachedRange(s, n) THEN {} ELSE m_status
      /\ m_sector' = IF isCachedRange(s, n) THEN NoSector ELSE m_sector
      /\ got' = Nothing
      /\ UNCHANGED <<m_buffer, dropped>>
  BY DEF cacheSafeWrite
<1>5. TypeOK'
  BY <1>3, <1>4, Layout DEF TypeOK
<1>6. Coherent'
  BY <1>3, <1>4, RangeFacts, Layout DEF Coherent, View, TypeOK
<1>7. CleanIsOnDevice'
  BY <1>3, <1>4, RangeFacts, Layout DEF CleanIsOnDevice
<1>8. MirrorAgrees'
  <2>1. \A f \in FatSector : f \notin Sectors(s, n) /\ f + m_mirrorOffset \notin Sectors(s, n)
    BY RangeFacts, Layout
  <2>2. \A f \in FatSector : disk'[f] = disk[f] /\ disk'[f + m_mirrorOffset] = disk[f + m_mirrorOffset]
    BY <1>3, <2>1, Layout
  <2> QED BY <2>1, <2>2, <1>4, RangeFacts DEF MirrorAgrees
<1>9. ReadsContent'
  BY <1>4 DEF ReadsContent, Nothing
<1> QED BY <1>5, <1>6, <1>7, <1>8, <1>9

LEMMA ClearInv ==
  ASSUME IInv, clear
  PROVE  IInv' /\ ReadsContent'
<1> USE DEF IInv, clear
<1>1. PICK r \in SyncOutcomes :
        /\ disk' = r.disk
        /\ m_status' = IF r.ok THEN {} ELSE r.status
        /\ m_sector' = IF r.ok THEN NoSector ELSE m_sector
  OBVIOUS
<1> USE <1>1, SyncFacts, Layout
<1>2. TypeOK'
  BY DEF TypeOK
<1>3. Coherent'
  BY DEF Coherent, View, TypeOK
<1>4. CleanIsOnDevice' /\ MirrorAgrees'
  BY DEF CleanIsOnDevice, MirrorAgrees
<1>5. ReadsContent'
  BY DEF ReadsContent, Nothing
<1> QED BY <1>2, <1>3, <1>4, <1>5

LEMMA InitInv ==
  ASSUME IInv, init
  PROVE  IInv' /\ ReadsContent'
<1> USE Layout DEF IInv, init
<1>1. TypeOK'
  BY DEF TypeOK
<1>2. Coherent' /\ CleanIsOnDevice'
  BY DEF Coherent, View, CleanIsOnDevice, TypeOK
<1>3. MirrorAgrees'
  BY DEF MirrorAgrees
<1>4. ReadsContent'
  BY DEF ReadsContent, Nothing
<1> QED BY <1>1, <1>2, <1>3, <1>4

-----------------------------------------------------------------------------
(* The cache starts empty and the FAT copies equal.                         *)
LEMMA InitEstablishes == Init => IInv /\ ReadsContent
<1> SUFFICES ASSUME Init PROVE IInv /\ ReadsContent
  OBVIOUS
<1> USE Layout DEF Init
<1>1. TypeOK
  BY DEF TypeOK
<1>2. Coherent /\ CleanIsOnDevice /\ MirrorAgrees
  BY DEF Coherent, View, CleanIsOnDevice, MirrorAgrees
<1>3. ReadsContent
  BY DEF ReadsContent, Nothing
<1> QED BY <1>1, <1>2, <1>3 DEF IInv

(* Every step of the cache preserves the invariant.                         *)
LEMMA NextPreserves ==
  ASSUME IInv, ReadsContent, [Next]_vars
  PROVE  IInv' /\ ReadsContent'
<1>1. ASSUME NEW f \in FatSector, fatCachePrepare(f)
      PROVE  IInv' /\ ReadsContent'
  <2>1. PICK option \in {CACHE_FOR_READ, CACHE_FOR_WRITE} :
          prepare(f, option \cup {"MIRROR_FAT"})
    BY <1>1 DEF fatCachePrepare
  <2>2. f \in ClientSector
    BY Layout
  <2> QED BY <2>1, <2>2, PrepareInv
<1>2. ASSUME NEW s \in DataSector, dataCachePrepare(s)
      PROVE  IInv' /\ ReadsContent'
  <2>1. PICK option \in {CACHE_FOR_READ, CACHE_FOR_WRITE, CACHE_RESERVE_FOR_WRITE} :
          prepare(s, option)
    BY <1>2 DEF dataCachePrepare
  <2>2. s \in ClientSector /\ s \notin FatSector
    BY Layout
  <2>3. "MIRROR_FAT" \notin option
    BY DEF CACHE_FOR_READ, CACHE_FOR_WRITE, CACHE_RESERVE_FOR_WRITE
  <2> QED BY <2>1, <2>2, <2>3, PrepareInv
<1>3. CASE UNCHANGED vars
  <2> USE <1>3 DEF vars, cache, history
  <2>1. IInv'
    BY DEF IInv, TypeOK, Coherent, CleanIsOnDevice, MirrorAgrees, View
  <2>2. ReadsContent'
    BY DEF ReadsContent
  <2> QED BY <2>1, <2>2
<1> QED
  BY <1>1, <1>2, <1>3, StoreInv, SyncInv, CacheSafeReadInv, CacheSafeReadRangeInv,
     CacheSafeWriteInv, ClearInv, InitInv
  DEF Next

(* The four parts of the invariant and ReadsContent hold in every reachable *)
(* state: nothing a client stored is lost and reads return it (Coherent,    *)
(* ReadsContent), an eviction without a write is safe (CleanIsOnDevice) and *)
(* the FAT copies agree but for the dirty cached sector (MirrorAgrees).     *)
THEOREM CacheCorrect ==
  Spec => [](TypeOK /\ Coherent /\ CleanIsOnDevice /\ MirrorAgrees /\ ReadsContent)
<1>1. Init => IInv /\ ReadsContent
  BY InitEstablishes
<1>2. (IInv /\ ReadsContent) /\ [Next]_vars => (IInv /\ ReadsContent)'
  BY NextPreserves
<1>3. IInv /\ ReadsContent =>
        TypeOK /\ Coherent /\ CleanIsOnDevice /\ MirrorAgrees /\ ReadsContent
  BY DEF IInv
<1> QED BY <1>1, <1>2, <1>3, PTL DEF Spec
(* The variables keep their types, and the mirror bit of the cache is set  *)
(* for sectors of the FAT only (prepare).                                   *)
COROLLARY CacheTyped == Spec => []TypeOK
<1> QED BY CacheCorrect, PTL

(* A cached sector that is not dirty, and that no failed read tore, is what *)
(* the device has, so that prepare may drop it without a write.             *)
COROLLARY EvictionSafe == Spec => []CleanIsOnDevice
<1> QED BY CacheCorrect, PTL

(* The FAT copies differ in the sector that is dirty in the cache and in    *)
(* those whose write was dropped, whatever fails in sync.                   *)
COROLLARY MirrorKept == Spec => []MirrorAgrees
<1> QED BY CacheCorrect, PTL

(* A read through the cache or past it (cacheSafeRead) returns what was     *)
(* stored last, though the device may not have it yet.                      *)
COROLLARY ReadsSeeStores == Spec => []ReadsContent
<1> QED BY CacheCorrect, PTL
=============================================================================
