---------------------------- MODULE FatPartition ----------------------------
(***************************************************************************)
(* Cluster allocation of src/src/FatLib/FatPartition.{h,cpp}: the FAT, the *)
(* place the search for a free cluster starts from, and the free cluster   *)
(* count, with the callers in FatFile that allocate, cut and free chains.  *)
(*                                                                         *)
(* The library runs one call at a time, so a call is one step, except      *)
(* freeChain, which is one step for each turn of its loop.  Every access   *)
(* to the FAT goes through fatGet or fatPut and may fail there; a call     *)
(* that fails keeps what it has done so far, as the code does.             *)
(***************************************************************************)
EXTENDS Integers, FiniteSets

CONSTANTS
  m_lastCluster,  \* largest cluster number
  EOC,            \* 0x0FFFFFFF, the end of a chain
  File,           \* files and directories, by directory entry
  NoFile,
  MayFail         \* whether accesses to the FAT may fail

ASSUME ClusterAssumption ==
  /\ MayFail \in BOOLEAN
  /\ m_lastCluster \in Nat /\ m_lastCluster >= 2
  /\ EOC \in Nat /\ EOC > m_lastCluster
  /\ NoFile \notin File

Cluster == 2 .. m_lastCluster

VARIABLES
  fat,                 \* FAT entries: 0 is free
  m_allocSearchStart,
  m_freeClusterCount,  \* -1 when unknown
  head,                \* first cluster of a file, 0 for an empty one
  freeing,             \* the cluster freeChain is at, 0 when it does not run
  actor,               \* the file the last call was made for
  ret,                 \* its result
  gone,                \* files removed or being removed: nobody follows their chain
  (* History variables: they record what happened and guard nothing. *)
  skipped,             \* free clusters that the search start has passed
  leaked               \* clusters taken by a failed allocation, not counted

vars == <<fat, m_allocSearchStart, m_freeClusterCount, head, freeing, actor, ret,
          gone, skipped, leaked>>

Live == File \ gone
Free == {c \in Cluster : fat[c] = 0}

(* The clusters of a file: those in every set that holds its first cluster *)
(* and is closed under following the FAT.                                  *)
Closed(S) == \A c \in S : fat[c] \in Cluster => fat[c] \in S
Chain(f) ==
  {c \in Cluster : head[f] # 0 /\
     \A S \in SUBSET Cluster : head[f] \in S /\ Closed(S) => c \in S}

(* The FAT after a write to it.  The 12-bit entries of FAT12, of which a    *)
(* write may reach one half, are left out (FAT12_SUPPORT).                 *)
fatPut(c, value) == [fat EXCEPT ![c] = value]

-----------------------------------------------------------------------------
(* Operators marked "slip" are not used: each is the form its neighbour    *)
(* would have after a plausible bug, and a run shows that a property sees  *)
(* it.                                                                     *)

updateFreeClusterCountAlways(change) ==                       \* slip: -1 not respected
  m_freeClusterCount' = m_freeClusterCount + change
updateFreeClusterCount(change) ==
  m_freeClusterCount' = IF m_freeClusterCount >= 0
                        THEN m_freeClusterCount + change ELSE m_freeClusterCount

(* The clusters from lo to hi that a search takes for free: fatGet returns *)
(* 1 and a value of 0.                                                     *)
FreeInStale(lo, hi) == {c \in lo .. hi : fat[c] \in {0, EOC}}   \* slip: fg not tested
FreeIn(lo, hi) == {c \in lo .. hi : fat[c] = 0}

First(find, lo, hi) == find \in FreeIn(lo, hi) /\ \A c \in FreeIn(lo, hi) : find <= c

(* The search of allocateCluster: after the current cluster to the end,    *)
(* then from the search start up to it; or from the search start only.     *)
Found(current, find, setStart) ==
  \/ /\ m_allocSearchStart < current
     /\ \/ setStart = FALSE /\ First(find, current + 1, m_lastCluster)
        \/ /\ setStart = TRUE
           /\ FreeIn(current + 1, m_lastCluster) = {}
           /\ First(find, m_allocSearchStart + 1, current - 1)
  \/ /\ m_allocSearchStart >= current
     /\ setStart = TRUE
     /\ First(find, m_allocSearchStart + 1, m_lastCluster)

NoneFound(current) ==
  IF m_allocSearchStart < current
  THEN FreeIn(current + 1, m_lastCluster) \cup FreeIn(m_allocSearchStart + 1, current - 1) = {}
  ELSE FreeIn(m_allocSearchStart + 1, m_lastCluster) = {}

(* The search of allocContiguous, upwards from the search start: the first *)
(* group of n free clusters, and whether no free cluster comes before it.  *)
Fits(b, n) == /\ m_allocSearchStart < b /\ b + n - 1 <= m_lastCluster
              /\ \A c \in b .. b + n - 1 : fat[c] = 0
FirstFit(b, n) == Fits(b, n) /\ \A d \in Cluster : Fits(d, n) => b <= d
NoGapEver(b) == TRUE                                           \* slip: setStart never cleared
NoGap(b) == FreeIn(m_allocSearchStart + 1, b - 1) = {}

(* The search start after a group that ends at e.                          *)
StartAfterNext(e) == e + 1                                     \* slip: one too far
StartAfter(e) == e

(* The FAT after truncate() cut the chain behind cluster c. *)
CutForgotten(c) == fat                                         \* slip: no fatPutEOC
Cut(c) == fatPut(c, EOC)

(* History: which free clusters lie at or below the search start now. *)
Skip(add) == skipped' = {c \in skipped \cup add : c <= m_allocSearchStart' /\ fat'[c] = 0}

-----------------------------------------------------------------------------
Init ==
  /\ fat = [c \in Cluster |-> 0]
  /\ m_allocSearchStart = 1
  /\ m_freeClusterCount = -1
  /\ head = [f \in File |-> 0]
  /\ freeing = 0
  /\ actor = NoFile
  /\ ret = "none"
  /\ gone = {}
  /\ skipped = {}
  /\ leaked = {}

(* A call for f may start: no call runs, and f is not a removed file. *)
Idle(f) == freeing = 0 /\ f \in Live

(* allocateCluster cannot find a cluster, or cannot read the FAT. *)
AllocFails(current) ==
  /\ \/ NoneFound(current) /\ ret' = "no_space"
     \/ MayFail /\ ret' = "io"
  /\ UNCHANGED <<fat, m_allocSearchStart, m_freeClusterCount, head, skipped, leaked>>

(* It finds one: moves the search start, marks the end of chain, links the *)
(* current cluster to it, counts.  Each FAT write may be the one to fail.  *)
AllocTakes(f, current, find, setStart) ==
  /\ m_allocSearchStart' = IF setStart THEN find ELSE m_allocSearchStart
  /\ \/ /\ MayFail /\ ret' = "io"                       \* fatPutEOC(find)
        /\ UNCHANGED <<fat, head, leaked, m_freeClusterCount>>
        /\ Skip({find})
     \/ /\ current # 0 /\ MayFail /\ ret' = "io"        \* fatPut(current, find)
        /\ fat' = fatPut(find, EOC)
        /\ Skip({})
        /\ leaked' = leaked \cup {find}
        /\ UNCHANGED <<head, m_freeClusterCount>>
     \/ /\ ret' = "ok"
        /\ fat' = IF current = 0 THEN fatPut(find, EOC)
                  ELSE [fat EXCEPT ![find] = EOC, ![current] = find]
        /\ head' = IF current = 0 THEN [head EXCEPT ![f] = find] ELSE head
        /\ Skip({})
        /\ updateFreeClusterCount(-1)
        /\ UNCHANGED leaked

(* Called by FatFile::addCluster with the last cluster of the file, or     *)
(* with 0 when the file has none; the file's first cluster is set then.    *)
allocateCluster(f, current) ==
  /\ Idle(f)
  /\ IF head[f] = 0 THEN current = 0 ELSE current \in Chain(f) /\ fat[current] = EOC
  /\ actor' = f
  /\ \/ AllocFails(current)
     \/ \E find \in Cluster, setStart \in BOOLEAN :
          Found(current, find, setStart) /\ AllocTakes(f, current, find, setStart)
  /\ UNCHANGED <<freeing, gone>>

(* Called by FatFile::preAllocate for a file without clusters.  The group  *)
(* is linked from its end down; k of its n entries are written.            *)
ContiguousTakes(f, b, n, k) ==
  LET e == b + n - 1 IN
  /\ m_allocSearchStart' = IF NoGap(b) THEN StartAfter(e) ELSE m_allocSearchStart
  /\ fat' = [c \in Cluster |-> IF c \in (e - k + 1) .. e
                               THEN IF c = e THEN EOC ELSE c + 1
                               ELSE fat[c]]
  /\ Skip(b .. e)
  /\ IF k = n
     THEN /\ ret' = "ok"
          /\ head' = [head EXCEPT ![f] = b]
          /\ updateFreeClusterCount(-n)
          /\ UNCHANGED leaked
     ELSE /\ ret' = "io"
          /\ leaked' = leaked \cup ((e - k + 1) .. e)
          /\ UNCHANGED <<head, m_freeClusterCount>>

allocContiguous(f, n) ==
  /\ Idle(f)
  /\ head[f] = 0
  /\ actor' = f
  /\ \/ /\ \/ (\A b \in Cluster : ~Fits(b, n)) /\ ret' = "no_group"
           \/ MayFail /\ ret' = "io"
        /\ UNCHANGED <<fat, m_allocSearchStart, m_freeClusterCount, head, skipped, leaked>>
     \/ \E b \in Cluster, k \in IF MayFail THEN 0 .. n ELSE {n} :
          FirstFit(b, n) /\ ContiguousTakes(f, b, n, k)
  /\ UNCHANGED <<freeing, gone>>

-----------------------------------------------------------------------------
(* FatFile::truncate inside the file, at cluster c: cuts the chain, frees  *)
(* the rest.  At the last cluster there is nothing to free.                *)
truncate(f, c) ==
  /\ Idle(f)
  /\ c \in Chain(f)
  /\ actor' = f
  /\ \/ MayFail /\ ret' = "io" /\ UNCHANGED <<fat, freeing>>
     \/ /\ ret' = "ok"
        /\ IF fat[c] = EOC THEN UNCHANGED <<fat, freeing>>
           ELSE fat' = Cut(c) /\ freeing' = fat[c]
  /\ UNCHANGED <<m_allocSearchStart, m_freeClusterCount, head, gone, skipped, leaked>>

(* FatFile::remove, open with O_TRUNC and truncate at position 0: the      *)
(* directory entry names the first cluster until the whole chain is free   *)
(* and the entry is written (truncate forgets it only in the object).      *)
(* When freeChain fails the entry is left naming a freed chain; that file  *)
(* is assumed not to be used again (gone), as its call failed.             *)
remove(f) ==
  /\ Idle(f)
  /\ head[f] # 0
  /\ freeing' = head[f]
  /\ gone' = gone \cup {f}
  /\ actor' = f
  /\ ret' = "ok"
  /\ UNCHANGED <<fat, m_allocSearchStart, m_freeClusterCount, head, skipped, leaked>>

(* One turn of the loop of freeChain, or its failure in fatGet or fatPut.  *)
freeChain ==
  /\ freeing # 0
  /\ \/ /\ fat' = fatPut(freeing, 0)
        /\ updateFreeClusterCount(1)
        /\ m_allocSearchStart' = IF freeing < m_allocSearchStart
                                 THEN freeing - 1 ELSE m_allocSearchStart
        /\ Skip({freeing})
        /\ IF fat[freeing] = EOC
           THEN /\ freeing' = 0
                /\ gone' = gone \ {actor}
                /\ head' = IF actor \in gone THEN [head EXCEPT ![actor] = 0] ELSE head
           ELSE freeing' = fat[freeing] /\ UNCHANGED <<gone, head>>
        /\ UNCHANGED <<ret, leaked>>
     \/ /\ MayFail /\ ret' = "io"
        /\ freeing' = 0
        /\ UNCHANGED <<fat, m_allocSearchStart, m_freeClusterCount, head, gone, skipped, leaked>>
  /\ UNCHANGED actor

(* The first call after init() counts; later ones return what was kept. *)
freeClusterCount ==
  /\ freeing = 0
  /\ m_freeClusterCount < 0
  /\ m_freeClusterCount' = Cardinality(Free)
  /\ actor' = NoFile
  /\ ret' = "none"
  /\ leaked' = {}
  /\ UNCHANGED <<fat, m_allocSearchStart, head, freeing, gone, skipped>>

(* The volume is begun again, its FAT written back before. *)
init ==
  /\ freeing = 0
  /\ m_allocSearchStart' = 1
  /\ m_freeClusterCount' = -1
  /\ actor' = NoFile
  /\ ret' = "none"
  /\ skipped' = {}
  /\ leaked' = {}
  /\ UNCHANGED <<fat, head, freeing, gone>>

Next ==
  \/ \E f \in File, current \in {0} \cup Cluster : allocateCluster(f, current)
  \/ \E f \in File, n \in 1 .. m_lastCluster - 1 : allocContiguous(f, n)
  \/ \E f \in File, c \in Cluster : truncate(f, c)
  \/ \E f \in File : remove(f)
  \/ freeChain
  \/ freeClusterCount
  \/ init

Spec == Init /\ [][Next]_vars

-----------------------------------------------------------------------------
(* Types; the search start is a cluster or 1, never past the last cluster. *)
TypeOK ==
  /\ fat \in [Cluster -> {0, EOC} \cup Cluster]
  /\ m_allocSearchStart \in 1 .. m_lastCluster
  /\ m_freeClusterCount \in Int
  /\ head \in [File -> {0} \cup Cluster]
  /\ freeing \in {0} \cup Cluster
  /\ actor \in File \cup {NoFile}
  /\ ret \in {"none", "ok", "io", "no_space", "no_group"}
  /\ gone \subseteq File
  /\ skipped \subseteq Cluster
  /\ leaked \subseteq Cluster
  /\ freeing # 0 => actor \in File

(* No two entries name the same cluster, and none names a free one. *)
LinksInjective == \A c, d \in Cluster : fat[c] = fat[d] /\ fat[c] \in Cluster => c = d
LinksInUse == \A c \in Cluster : fat[c] \in Cluster => fat[fat[c]] # 0

(* A cluster where a chain begins: a file's first one, or the next one to  *)
(* be freed.                                                               *)
Roots == {head[f] : f \in Live} \cup {freeing}
RootsInUse == \A r \in Roots : r # 0 => fat[r] # 0 /\ \A c \in Cluster : fat[c] # r
RootsDistinct ==
  /\ \A f, g \in Live : f # g /\ head[f] # 0 => head[f] # head[g]
  /\ \A f \in Live : head[f] # 0 => head[f] # freeing

(* The clusters that failed allocations took are in no chain. *)
LeakedApart ==
  /\ \A c \in leaked : fat[c] # 0 /\ c \notin Roots
  /\ \A c \in Cluster : fat[c] \in leaked => c \in leaked

(* The FAT is a set of chains, each begun at one place only, whatever FAT  *)
(* accesses failed in the middle of allocateCluster, allocContiguous,      *)
(* truncate and freeChain: no cross-links and no chain into free space.    *)
NoCrossLinks ==
  LinksInjective /\ LinksInUse /\ RootsInUse /\ RootsDistinct /\ LeakedApart

(* Two files never share a cluster, a file's clusters are never free, and  *)
(* the rest of a chain that freeChain walks is no file's.                  *)
ChainsDisjoint ==
  \A f \in Live :
    /\ \A g \in Live : f # g => Chain(f) \cap Chain(g) = {}
    /\ Chain(f) \cap Free = {}
    /\ freeing \notin Chain(f)

(* A call made for one file changes no FAT entry in the chain of another.  *)
Isolation ==
  [][\A g \in Live \ {actor'} : \A c \in Chain(g) : fat'[c] = fat[c]]_vars

(* The kept count is the number of free clusters, off by exactly the       *)
(* clusters that allocations lost when a FAT write failed.                 *)
CountExact ==
  m_freeClusterCount >= 0 =>
    m_freeClusterCount = Cardinality(Free) + Cardinality(leaked)

(* A free cluster is above the search start, where every search looks, or  *)
(* is one of those freed at the search start itself or left behind by a    *)
(* failed FAT write: setStart and the wrap of the search hide no other.    *)
SearchReaches == \A c \in Free : c > m_allocSearchStart \/ c \in skipped

(* allocateCluster: "Can't find space, checked all clusters."              *)
(* (FatPartition.cpp:45) and "already searched clusters after current"     *)
(* (:54): it reports that only when no cluster is free.                    *)
CheckedAll == ret = "no_space" => Free = {}
=============================================================================
