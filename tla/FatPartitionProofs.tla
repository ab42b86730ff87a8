------------------------- MODULE FatPartitionProofs -------------------------
(* Proofs about cluster allocation for every volume size, set of files and  *)
(* sequence of failing FAT accesses.                                        *)
EXTENDS FatPartition, FiniteSetTheorems, TLAPS

(* NoCrossLinks speaks of single entries, so that one step can be checked   *)
(* against it; that chains are disjoint is derived from it.                 *)
IInv == TypeOK /\ NoCrossLinks /\ SearchReaches

LEMMA Numbers ==
  /\ Cluster \subseteq Nat
  /\ 0 \notin Cluster /\ EOC \notin Cluster /\ EOC # 0
  /\ IsFiniteSet(Cluster)
<1>1. IsFiniteSet(Cluster)
  BY FS_Interval, ClusterAssumption DEF Cluster
<1> QED BY <1>1, ClusterAssumption DEF Cluster

-----------------------------------------------------------------------------
(* A chain is within every closed set that holds its first cluster, and is  *)
(* closed itself.                                                           *)
LEMMA ChainLeast ==
  ASSUME NEW f, NEW S \in SUBSET Cluster, head[f] \in S, Closed(S)
  PROVE  Chain(f) \subseteq S
BY DEF Chain

LEMMA ChainClosed ==
  ASSUME TypeOK, NEW f \in File
  PROVE  /\ head[f] # 0 => head[f] \in Chain(f)
         /\ head[f] = 0 => Chain(f) = {}
         /\ Closed(Chain(f))
         /\ Chain(f) \subseteq Cluster
<1>1. Closed(Chain(f))
  <2> SUFFICES ASSUME NEW c \in Chain(f), fat[c] \in Cluster PROVE fat[c] \in Chain(f)
    BY DEF Closed
  <2> QED BY DEF Chain, Closed
<1> QED BY <1>1 DEF Chain, TypeOK

(* Every cluster of a chain but the first has a predecessor in it.          *)
LEMMA ChainPred ==
  ASSUME TypeOK, NEW f \in File, NEW c \in Chain(f), c # head[f]
  PROVE  \E d \in Chain(f) : fat[d] = c
<1> SUFFICES ASSUME \A d \in Chain(f) : fat[d] # c PROVE FALSE
  OBVIOUS
<1> DEFINE S == Chain(f) \ {c}
<1>1. head[f] \in S
  BY ChainClosed
<1>2. S \in SUBSET Cluster
  BY ChainClosed
<1>3. Closed(S)
  BY ChainClosed DEF Closed
<1>4. Chain(f) \subseteq S
  BY <1>1, <1>2, <1>3, ChainLeast
<1> QED BY <1>4

(* What keeps a chain apart: its clusters are in use, not lost, not being   *)
(* freed, and in no other chain.                                            *)
LEMMA ChainApart ==
  ASSUME TypeOK, NoCrossLinks, NEW f \in Live
  PROVE  /\ \A c \in Chain(f) : fat[c] # 0 /\ c \notin leaked /\ c # freeing
         /\ \A g \in Live : f # g => Chain(f) \cap Chain(g) = {}
<1> USE DEF NoCrossLinks
<1>0. f \in File /\ head[f] \in {0} \cup Cluster /\ head[f] \in Roots
  BY DEF Live, TypeOK, Roots
<1>1. ASSUME NEW c \in Chain(f)
      PROVE  fat[c] # 0 /\ c \notin leaked
  <2> DEFINE S == {d \in Cluster : fat[d] # 0 /\ d \notin leaked}
  <2>1. head[f] # 0
    BY DEF Chain
  <2>2. head[f] \in S
    BY <1>0, <2>1 DEF RootsInUse, LeakedApart
  <2>3. Closed(S)
    BY DEF Closed, LinksInUse, LeakedApart
  <2>4. Chain(f) \subseteq S
    BY <2>2, <2>3, ChainLeast
  <2> QED BY <2>4
<1>2. ASSUME NEW c \in Chain(f)
      PROVE  c # freeing
  <2>1. head[f] # 0 /\ c \in Cluster
    BY DEF Chain
  <2>2. CASE c = head[f]
    BY <2>1, <2>2 DEF RootsDistinct
  <2>3. CASE c # head[f]
    <3>1. PICK d \in Chain(f) : fat[d] = c
      BY <1>0, <2>3, ChainPred
    <3>2. d \in Cluster
      BY DEF Chain
    <3> QED BY <3>1, <3>2, <2>1, Numbers DEF RootsInUse, Roots
  <2> QED BY <2>2, <2>3
<1>3. ASSUME NEW g \in Live, f # g
      PROVE  Chain(f) \cap Chain(g) = {}
  <2>0. g \in File /\ head[g] \in Roots
    BY DEF Live, Roots
  <2>1. CASE head[f] = 0
    BY <2>1, <1>0, ChainClosed
  <2>2. CASE head[f] # 0
    <3> DEFINE S == Chain(f) \ Chain(g)
    <3>1. head[f] \notin Chain(g)
      <4> SUFFICES ASSUME head[f] \in Chain(g) PROVE FALSE
        OBVIOUS
      <4>1. head[f] # head[g]
        BY <1>3, <2>2 DEF RootsDistinct
      <4>2. PICK d \in Chain(g) : fat[d] = head[f]
        BY <4>1, <2>0, ChainPred
      <4>3. d \in Cluster
        BY DEF Chain
      <4> QED BY <4>2, <4>3, <2>2, <1>0 DEF RootsInUse
    <3>2. Closed(S)
      <4> SUFFICES ASSUME NEW d \in S, fat[d] \in Cluster, fat[d] \in Chain(g) PROVE FALSE
        BY <1>0, ChainClosed DEF Closed
      <4>1. d \in Cluster
        BY DEF Chain
      <4>2. fat[d] # head[g]
        <5>1. head[g] # 0
          BY DEF Chain
        <5> QED BY <5>1, <4>1, <2>0 DEF RootsInUse
      <4>3. PICK e \in Chain(g) : fat[e] = fat[d]
        BY <4>2, <2>0, ChainPred
      <4>4. e \in Cluster
        BY DEF Chain
      <4> QED BY <4>1, <4>3, <4>4 DEF LinksInjective
    <3>3. Chain(f) \subseteq S
      BY <3>1, <3>2, <2>2, <1>0, ChainClosed, ChainLeast
    <3> QED BY <3>3
  <2> QED BY <2>1, <2>2
<1> QED BY <1>1, <1>2, <1>3

(* The chains of any two files are disjoint, and apart from free space and  *)
(* from the chain that is being freed.                                      *)
LEMMA NoCrossLinksImpliesDisjoint == TypeOK /\ NoCrossLinks => ChainsDisjoint
BY ChainApart DEF ChainsDisjoint, Free

-----------------------------------------------------------------------------
(* What the searches return.                                                *)
LEMMA FoundFacts ==
  ASSUME TypeOK, NEW current \in {0} \cup Cluster, NEW find \in Cluster,
         NEW setStart \in BOOLEAN, Found(current, find, setStart)
  PROVE  /\ fat[find] = 0
         /\ setStart => \A c \in Cluster :
              m_allocSearchStart < c /\ c < find => fat[c] # 0
<1> USE ClusterAssumption DEF TypeOK, Cluster
<1>1. CASE m_allocSearchStart < current /\ setStart = FALSE
  BY <1>1 DEF Found, First, FreeIn
<1>2. CASE m_allocSearchStart < current /\ setStart = TRUE
  <2>1. First(find, m_allocSearchStart + 1, current - 1)
    BY <1>2 DEF Found
  <2> QED BY <2>1 DEF First, FreeIn
<1>3. CASE ~(m_allocSearchStart < current)
  <2>1. First(find, m_allocSearchStart + 1, m_lastCluster)
    BY <1>3 DEF Found
  <2> QED BY <2>1 DEF First, FreeIn
<1> QED BY <1>1, <1>2, <1>3

LEMMA RootsType == TypeOK => Roots \subseteq {0} \cup Cluster
BY DEF TypeOK, Roots, Live

(* Steps that leave the FAT and the roots alone, or only forget roots.      *)
LEMMA SameFat ==
  ASSUME IInv, TypeOK', UNCHANGED <<fat, leaked>>, Roots' \subseteq Roots \cup {0},
         RootsDistinct'
  PROVE  NoCrossLinks'
<1> USE DEF IInv, NoCrossLinks, TypeOK
<1>1. LinksInjective' /\ LinksInUse'
  BY DEF LinksInjective, LinksInUse
<1>2. RootsInUse'
  BY DEF RootsInUse
<1>3. LeakedApart'
  BY Numbers DEF LeakedApart
<1> QED BY <1>1, <1>2, <1>3

LEMMA AllocateInv ==
  ASSUME IInv, NEW f \in File, NEW current \in {0} \cup Cluster,
         allocateCluster(f, current)
  PROVE  IInv'
<1> USE Numbers DEF IInv
<1>0. /\ f \in Live /\ freeing = 0 /\ actor' = f
      /\ IF head[f] = 0 THEN current = 0
         ELSE current \in Chain(f) /\ current \in Cluster /\ fat[current] = EOC
      /\ UNCHANGED <<freeing, gone>>
  BY DEF allocateCluster, Idle, Chain
<1>1. CASE AllocFails(current)
  <2>1. UNCHANGED <<fat, m_allocSearchStart, m_freeClusterCount, head, skipped, leaked>>
    BY <1>1 DEF AllocFails
  <2>2. TypeOK'
    BY <1>0, <1>1, <2>1 DEF TypeOK, AllocFails, Live
  <2>3. NoCrossLinks'
    BY <1>0, <2>1, <2>2, SameFat DEF Roots, Live, RootsDistinct, NoCrossLinks
  <2>4. SearchReaches'
    BY <2>1 DEF SearchReaches, Free
  <2> QED BY <2>2, <2>3, <2>4
<1>2. ASSUME NEW find \in Cluster, NEW setStart \in BOOLEAN,
             Found(current, find, setStart), AllocTakes(f, current, find, setStart)
      PROVE  IInv'
  <2>1. /\ fat[find] = 0
        /\ setStart => \A c \in Cluster :
             m_allocSearchStart < c /\ c < find => fat[c] # 0
    BY <1>2, FoundFacts
  <2>2. /\ m_allocSearchStart' = IF setStart THEN find ELSE m_allocSearchStart
        /\ m_allocSearchStart' \in 1 .. m_lastCluster
        /\ \A c \in Cluster : c <= m_allocSearchStart' /\ c # find /\ fat[c] = 0
              => c <= m_allocSearchStart
    <3>1. m_allocSearchStart' = IF setStart THEN find ELSE m_allocSearchStart
      BY <1>2 DEF AllocTakes, fatPut
    <3> QED BY <3>1, <2>1, ClusterAssumption DEF TypeOK, Cluster
  <2>3. find \notin Roots /\ \A c \in Cluster : fat[c] # find
    BY <2>1 DEF NoCrossLinks, RootsInUse, LinksInUse
  <2>4. CASE /\ ret' = "io" /\ UNCHANGED <<fat, head, leaked, m_freeClusterCount>>
             /\ Skip({find})
    <3>1. TypeOK'
      BY <1>0, <2>2, <2>4 DEF TypeOK, Live, Skip
    <3>2. NoCrossLinks'
      BY <1>0, <2>4, <3>1, SameFat DEF Roots, Live, RootsDistinct, NoCrossLinks
    <3>3. SearchReaches'
      BY <2>2, <2>4, <3>1, ClusterAssumption DEF SearchReaches, Free, Skip, TypeOK, Cluster
    <3> QED BY <3>1, <3>2, <3>3
  <2>5. CASE /\ ret' = "io" /\ fat' = [fat EXCEPT ![find] = EOC]
             /\ Skip({}) /\ leaked' = leaked \cup {find}
             /\ UNCHANGED <<head, m_freeClusterCount>>
    <3>1. TypeOK'
      BY <1>0, <2>2, <2>5 DEF TypeOK, Live, Skip
    <3>2. Roots' = Roots
      BY <1>0, <2>5 DEF Roots, Live
    <3>3. LinksInjective' /\ LinksInUse'
      BY <2>3, <2>5 DEF NoCrossLinks, LinksInjective, LinksInUse, TypeOK
    <3>4. RootsInUse'
      <4> SUFFICES ASSUME NEW r \in Roots, r # 0
                   PROVE  fat'[r] # 0 /\ \A c \in Cluster : fat'[c] # r
        BY <3>2 DEF RootsInUse
      <4>1. r \in Cluster
        BY RootsType
      <4> QED BY <4>1, <2>5 DEF NoCrossLinks, RootsInUse, TypeOK
    <3>5. RootsDistinct'
      BY <1>0, <2>5 DEF NoCrossLinks, RootsDistinct, Live
    <3>6. LeakedApart'
      BY <2>3, <2>5, <3>2 DEF NoCrossLinks, LeakedApart, TypeOK
    <3>7. SearchReaches'
      BY <2>2, <2>5, <3>1, ClusterAssumption DEF SearchReaches, Free, Skip, TypeOK, Cluster
    <3> QED BY <3>1, <3>3, <3>4, <3>5, <3>6, <3>7 DEF NoCrossLinks
  <2>6. CASE /\ ret' = "ok"
             /\ fat' = IF current = 0 THEN [fat EXCEPT ![find] = EOC]
                       ELSE [fat EXCEPT ![find] = EOC, ![current] = find]
             /\ head' = IF current = 0 THEN [head EXCEPT ![f] = find] ELSE head
             /\ Skip({})
             /\ updateFreeClusterCount(-1)
             /\ UNCHANGED leaked
    <3>2. current # find
      BY <1>0, <2>1
    <3>3. /\ fat' \in [Cluster -> {0, EOC} \cup Cluster]
          /\ \A c \in Cluster : fat'[c] = IF c = find THEN EOC
                                          ELSE IF c = current THEN find ELSE fat[c]
      <4>1. CASE current = 0
        BY <4>1, <2>6 DEF TypeOK
      <4>2. CASE current # 0
        BY <4>2, <2>6, <3>2, <1>0 DEF TypeOK
      <4> QED BY <4>1, <4>2
    <3>1. TypeOK'
      <4>1. head' \in [File -> {0} \cup Cluster]
        BY <2>6 DEF TypeOK
      <4>2. m_freeClusterCount' \in Int
        BY <2>6 DEF TypeOK, updateFreeClusterCount
      <4>3. skipped' \subseteq Cluster
        BY <2>6 DEF TypeOK, Skip
      <4> QED BY <1>0, <2>2, <2>6, <3>3, <4>1, <4>2, <4>3 DEF TypeOK, Live
    <3>4. LinksInjective' /\ LinksInUse'
      <4>1. LinksInjective'
        <5> SUFFICES ASSUME NEW c \in Cluster, NEW d \in Cluster,
                            fat'[c] = fat'[d], fat'[c] \in Cluster
                     PROVE  c = d
          BY DEF LinksInjective
        <5> QED BY <2>3, <3>3, Numbers DEF NoCrossLinks, LinksInjective
      <4>2. LinksInUse'
        <5> SUFFICES ASSUME NEW c \in Cluster, fat'[c] \in Cluster
                     PROVE  fat'[fat'[c]] # 0
          BY DEF LinksInUse
        <5>1. find # 0
          OBVIOUS
        <5> QED BY <5>1, <2>3, <3>3, Numbers DEF NoCrossLinks, LinksInUse
      <4> QED BY <4>1, <4>2
    <3>5. current = 0 => Roots' \subseteq Roots \cup {find}
      BY <1>0, <2>6 DEF Roots, Live, TypeOK
    <3>6. current # 0 => Roots' = Roots
      BY <1>0, <2>6 DEF Roots, Live
    <3>7. RootsInUse'
      <4>1. CASE current = 0
        <5> SUFFICES ASSUME NEW r \in Roots \cup {find}, r # 0
                     PROVE  fat'[r] # 0 /\ \A c \in Cluster : fat'[c] # r
          BY <4>1, <3>5 DEF RootsInUse
        <5>1. r \in Cluster
          BY RootsType
        <5> QED BY <4>1, <2>3, <3>3, <5>1 DEF NoCrossLinks, RootsInUse
      <4>2. CASE current # 0
        <5> SUFFICES ASSUME NEW r \in Roots, r # 0
                     PROVE  fat'[r] # 0 /\ \A c \in Cluster : fat'[c] # r
          BY <4>2, <3>6 DEF RootsInUse
        <5>1. r \in Cluster
          BY RootsType
        <5> QED BY <4>2, <2>3, <3>3, <1>0, <5>1 DEF NoCrossLinks, RootsInUse
      <4> QED BY <4>1, <4>2
    <3>8. RootsDistinct'
      <4>1. \A g \in Live : head[g] # find
        BY <2>3 DEF Roots
      <4>2. Live' = Live
        BY <1>0 DEF Live
      <4> QED BY <1>0, <2>6, <4>1, <4>2 DEF NoCrossLinks, RootsDistinct, TypeOK, Live
    <3>9. LeakedApart'
      <4>1. find \notin leaked
        BY <2>1 DEF NoCrossLinks, LeakedApart
      <4>2. \A c \in leaked : c \in Cluster /\ c \notin Roots'
        BY <4>1, <3>5, <3>6 DEF NoCrossLinks, LeakedApart, TypeOK
      <4>3. \A c \in leaked : fat'[c] # 0
        BY <4>2, <3>3 DEF NoCrossLinks, LeakedApart
      <4>4. ASSUME NEW c \in Cluster, fat'[c] \in leaked
            PROVE  c \in leaked
        <5>1. c # find /\ c # current
          BY <4>1, <4>2, <4>4, <3>2, <3>3
        <5> QED BY <5>1, <4>4, <3>3 DEF NoCrossLinks, LeakedApart
      <4> QED BY <4>2, <4>3, <4>4, <2>6 DEF LeakedApart
    <3>10. SearchReaches'
      BY <1>0, <2>2, <3>3, <3>1, <2>6, ClusterAssumption
      DEF SearchReaches, Free, Skip, TypeOK, Cluster
    <3> QED BY <3>1, <3>4, <3>7, <3>8, <3>9, <3>10 DEF NoCrossLinks
  <2> QED BY <1>2, <2>4, <2>5, <2>6 DEF AllocTakes, fatPut
<1> QED BY <1>1, <1>2 DEF allocateCluster

(* The entries allocContiguous has written after k links of the group from  *)
(* b up to e.                                                               *)
LEMMA ContiguousFat ==
  ASSUME TypeOK, NEW b \in Cluster, NEW n \in 1 .. m_lastCluster - 1, NEW k \in 0 .. n,
         FirstFit(b, n), NEW f, ContiguousTakes(f, b, n, k)
  PROVE  LET e == b + n - 1 IN
         /\ e \in Cluster /\ b <= e /\ b .. e \subseteq Cluster
         /\ (e - k + 1) .. e \subseteq b .. e
         /\ \A c \in b .. e : fat[c] = 0
         /\ fat' \in [Cluster -> {0, EOC} \cup Cluster]
         /\ \A c \in Cluster : fat'[c] = IF c \in (e - k + 1) .. e
                                         THEN IF c = e THEN EOC ELSE c + 1
                                         ELSE fat[c]
         /\ m_allocSearchStart' \in 1 .. m_lastCluster
         /\ m_allocSearchStart' # m_allocSearchStart =>
              /\ m_allocSearchStart' = e
              /\ \A c \in Cluster : m_allocSearchStart < c /\ c < b => fat[c] # 0
<1> DEFINE e == b + n - 1
<1> USE ClusterAssumption
<1>1. /\ b \in Int /\ n \in Int /\ k \in Int /\ n >= 1 /\ k >= 0 /\ k <= n /\ b >= 2
      /\ e <= m_lastCluster /\ m_allocSearchStart < b
      /\ \A c \in b .. e : fat[c] = 0
  BY DEF FirstFit, Fits, Cluster
<1>2. /\ e \in Cluster /\ b <= e /\ b .. e \subseteq Cluster
      /\ (e - k + 1) .. e \subseteq b .. e
  BY <1>1 DEF Cluster
<1>3. \A c \in (e - k + 1) .. e : c # e => c + 1 \in Cluster
  BY <1>1 DEF Cluster
<1>4. fat' = [c \in Cluster |-> IF c \in (e - k + 1) .. e
                               THEN IF c = e THEN EOC ELSE c + 1
                               ELSE fat[c]]
  BY DEF ContiguousTakes
<1>5. fat' \in [Cluster -> {0, EOC} \cup Cluster]
  BY <1>3, <1>4 DEF TypeOK
<1>6. m_allocSearchStart' = IF NoGap(b) THEN e ELSE m_allocSearchStart
  BY DEF ContiguousTakes, StartAfter
<1>7. /\ m_allocSearchStart' \in 1 .. m_lastCluster
      /\ m_allocSearchStart' # m_allocSearchStart =>
           /\ m_allocSearchStart' = e
           /\ \A c \in Cluster : m_allocSearchStart < c /\ c < b => fat[c] # 0
  BY SMTT(30), <1>1, <1>6 DEF NoGap, FreeIn, TypeOK, Cluster
<1> QED BY <1>1, <1>2, <1>4, <1>5, <1>7

LEMMA ContiguousInv ==
  ASSUME IInv, NEW f \in File, NEW n \in 1 .. m_lastCluster - 1, allocContiguous(f, n)
  PROVE  IInv'
<1> USE Numbers DEF IInv
<1>0. /\ f \in Live /\ freeing = 0 /\ actor' = f /\ head[f] = 0
      /\ UNCHANGED <<freeing, gone>>
  BY DEF allocContiguous, Idle
<1>1. CASE /\ UNCHANGED <<fat, m_allocSearchStart, m_freeClusterCount, head, skipped, leaked>>
           /\ ret' \in {"no_group", "io"}
  <2>2. TypeOK'
    BY <1>0, <1>1 DEF TypeOK, Live
  <2>3. NoCrossLinks'
    BY <1>0, <1>1, <2>2, SameFat DEF Roots, Live, RootsDistinct, NoCrossLinks
  <2>4. SearchReaches'
    BY <1>1 DEF SearchReaches, Free
  <2> QED BY <2>2, <2>3, <2>4
<1>2. ASSUME NEW b \in Cluster, NEW k \in 0 .. n,
             FirstFit(b, n), ContiguousTakes(f, b, n, k)
      PROVE  IInv'
  <2> DEFINE e == b + n - 1
             New == (e - k + 1) .. e
  <2>1. /\ e \in Cluster /\ b <= e /\ b .. e \subseteq Cluster
        /\ New \subseteq b .. e
        /\ \A c \in b .. e : fat[c] = 0
        /\ fat' \in [Cluster -> {0, EOC} \cup Cluster]
        /\ \A c \in Cluster : fat'[c] = IF c \in New
                                        THEN IF c = e THEN EOC ELSE c + 1
                                        ELSE fat[c]
        /\ m_allocSearchStart' \in 1 .. m_lastCluster
        /\ m_allocSearchStart' # m_allocSearchStart =>
             /\ m_allocSearchStart' = e
             /\ \A c \in Cluster : m_allocSearchStart < c /\ c < b => fat[c] # 0
    BY <1>2, ContiguousFat
  <2>2. /\ \A c \in New : c # e => c + 1 \in New
        /\ b \in Int /\ e \in Int /\ k \in Int
        /\ \A c, d \in New : c + 1 = d + 1 => c = d
    BY <2>1 DEF Cluster
  <2>3. New \subseteq Cluster /\ \A c \in New : fat[c] = 0
    BY <2>1
  <2>4. \A c \in New : c \notin Roots /\ c \notin leaked /\ \A d \in Cluster : fat[d] # c
    BY <2>3 DEF NoCrossLinks, RootsInUse, LinksInUse, LeakedApart
  <2>5. LinksInjective'
    <3> SUFFICES ASSUME NEW c \in Cluster, NEW d \in Cluster,
                        fat'[c] = fat'[d], fat'[c] \in Cluster
                 PROVE  c = d
      BY DEF LinksInjective
    <3>1. CASE c \in New /\ d \in New
      BY <3>1, <2>1, <2>2
    <3>2. CASE c \in New /\ d \notin New
      BY <3>2, <2>1, <2>2, <2>4
    <3>3. CASE c \notin New /\ d \in New
      BY <3>3, <2>1, <2>2, <2>4
    <3>4. CASE c \notin New /\ d \notin New
      BY <3>4, <2>1 DEF NoCrossLinks, LinksInjective
    <3> QED BY <3>1, <3>2, <3>3, <3>4
  <2>6. LinksInUse'
    <3> SUFFICES ASSUME NEW c \in Cluster, fat'[c] \in Cluster PROVE fat'[fat'[c]] # 0
      BY DEF LinksInUse
    <3>0. \A d \in New : fat'[d] # 0
      BY <2>1, <2>2, <2>3
    <3>1. CASE c \in New
      BY <3>1, <3>0, <2>1, <2>2
    <3>2. CASE c \notin New
      BY <3>2, <3>0, <2>1, <2>3 DEF NoCrossLinks, LinksInUse
    <3> QED BY <3>1, <3>2
  <2>7. /\ Skip(b .. e)
        /\ m_freeClusterCount' \in Int
        /\ \/ /\ k = n /\ ret' = "ok" /\ head' = [head EXCEPT ![f] = b]
              /\ UNCHANGED leaked
           \/ /\ ret' = "io" /\ leaked' = leaked \cup New
              /\ UNCHANGED head
    BY <1>2 DEF ContiguousTakes, updateFreeClusterCount, TypeOK
  <2>8. TypeOK'
    <3>1. skipped' \subseteq Cluster
      BY <2>1, <2>7 DEF TypeOK, Skip
    <3>2. head' \in [File -> {0} \cup Cluster] /\ leaked' \subseteq Cluster
      BY <2>3, <2>7 DEF TypeOK
    <3>3. ret' \in {"none", "ok", "io", "no_space", "no_group"}
      BY <2>7
    <3> QED BY <1>0, <2>1, <2>7, <3>1, <3>2, <3>3 DEF TypeOK, Live
  <2>9. SearchReaches'
    <3> SUFFICES ASSUME NEW c \in Cluster, fat'[c] = 0, c <= m_allocSearchStart'
                 PROVE  c \in skipped'
      BY <2>8, ClusterAssumption DEF SearchReaches, Free, TypeOK, Cluster
    <3>1. c \notin New
      BY <2>1, <2>2, <2>3
    <3>2. fat[c] = 0
      BY <3>1, <2>1
    <3>3. c \in skipped \/ c \in b .. e
      <4>1. CASE m_allocSearchStart' = m_allocSearchStart
        BY <4>1, <3>2, ClusterAssumption DEF SearchReaches, Free, Cluster, TypeOK
      <4>2. CASE m_allocSearchStart' # m_allocSearchStart
        BY <4>2, <3>2, <2>1, <2>2, ClusterAssumption DEF SearchReaches, Free, Cluster, TypeOK
      <4> QED BY <4>1, <4>2
    <3> QED BY <3>3, <2>7, <2>1 DEF Skip
  <2>10. CASE /\ ret' = "io" /\ leaked' = leaked \cup New
              /\ UNCHANGED head
    <3>1. Roots' = Roots
      BY <1>0, <2>10 DEF Roots, Live
    <3>2. RootsInUse'
      <4> SUFFICES ASSUME NEW r \in Roots, r # 0
                   PROVE  fat'[r] # 0 /\ \A c \in Cluster : fat'[c] # r
        BY <3>1 DEF RootsInUse
      <4>1. r \in Cluster /\ r \notin New
        BY <2>4, RootsType
      <4>2. \A c \in New : fat'[c] # r
        BY <4>1, <2>1, <2>2
      <4> QED BY <4>1, <4>2, <2>1 DEF NoCrossLinks, RootsInUse
    <3>3. RootsDistinct'
      BY <1>0, <2>10 DEF NoCrossLinks, RootsDistinct, Live
    <3>4. LeakedApart'
      <4>1. \A c \in leaked' : fat'[c] # 0 /\ c \notin Roots'
        <5>1. \A c \in New : fat'[c] # 0
          BY <2>1, <2>2, <2>3
        <5>2. \A c \in leaked : fat'[c] # 0
          BY <2>1, <2>4 DEF NoCrossLinks, LeakedApart, TypeOK
        <5> QED BY <5>1, <5>2, <3>1, <2>4, <2>10 DEF NoCrossLinks, LeakedApart
      <4>2. ASSUME NEW c \in Cluster, fat'[c] \in leaked' PROVE c \in leaked'
        <5>1. CASE c \in New
          BY <5>1, <2>10
        <5>2. CASE c \notin New
          BY <5>2, <4>2, <2>1, <2>4, <2>10 DEF NoCrossLinks, LeakedApart
        <5> QED BY <5>1, <5>2
      <4> QED BY <4>1, <4>2 DEF LeakedApart
    <3> QED BY <3>2, <3>3, <3>4, <2>5, <2>6, <2>8, <2>9 DEF NoCrossLinks
  <2>11. CASE /\ k = n /\ ret' = "ok" /\ head' = [head EXCEPT ![f] = b]
              /\ UNCHANGED leaked
    <3>1. Roots' \subseteq Roots \cup {b}
      BY <1>0, <2>11 DEF Roots, Live, TypeOK
    <3>2. b \in New /\ New = b .. e
      BY <2>11, <2>1, <2>2
    <3>3. RootsInUse'
      <4> SUFFICES ASSUME NEW r \in Roots \cup {b}, r # 0
                   PROVE  fat'[r] # 0 /\ \A c \in Cluster : fat'[c] # r
        BY <3>1 DEF RootsInUse
      <4>1. r \in Cluster /\ (r \in New => r = b)
        BY <2>4, RootsType
      <4>2. \A c \in New : fat'[c] # r
        <5>1. \A c \in New : c # e => c + 1 # b
          BY <3>2, <2>2
        <5> QED BY <5>1, <4>1, <2>1, <2>2
      <4>3. fat'[r] # 0
        BY <4>1, <3>2, <2>1, <2>2 DEF NoCrossLinks, RootsInUse
      <4>4. \A c \in Cluster : c \notin New => fat'[c] # r
        BY <2>1, <2>4, <3>2 DEF NoCrossLinks, RootsInUse
      <4> QED BY <4>2, <4>3, <4>4
    <3>4. RootsDistinct'
      <4>1. \A g \in Live : head[g] # b
        BY <3>2, <2>4 DEF Roots
      <4>2. Live' = Live
        BY <1>0 DEF Live
      <4> QED BY <1>0, <2>11, <4>1, <4>2 DEF NoCrossLinks, RootsDistinct, TypeOK, Live
    <3>5. LeakedApart'
      <4>1. \A c \in leaked : fat'[c] # 0 /\ c \notin Roots'
        <5>1. \A c \in leaked : c \in Cluster /\ c \notin New
          BY <2>4 DEF TypeOK
        <5> QED BY <5>1, <3>1, <3>2, <2>1 DEF NoCrossLinks, LeakedApart
      <4>2. ASSUME NEW c \in Cluster, fat'[c] \in leaked PROVE c \in leaked
        <5>1. c \notin New
          <6>1. SUFFICES ASSUME c \in New PROVE FALSE
            OBVIOUS
          <6>2. fat'[c] = EOC \/ fat'[c] \in New
            BY <6>1, <2>1, <2>2
          <6> QED BY <6>2, <4>2, <2>4 DEF TypeOK
        <5> QED BY <5>1, <4>2, <2>1 DEF NoCrossLinks, LeakedApart
      <4> QED BY <4>1, <4>2, <2>11 DEF LeakedApart
    <3> QED BY <3>3, <3>4, <3>5, <2>5, <2>6, <2>8, <2>9 DEF NoCrossLinks
  <2> QED BY <2>7, <2>10, <2>11
<1> QED BY <1>1, <1>2 DEF allocContiguous

-----------------------------------------------------------------------------
LEMMA TruncateInv ==
  ASSUME IInv, NEW f \in File, NEW c \in Cluster, truncate(f, c)
  PROVE  IInv'
<1> USE Numbers DEF IInv
<1>0. /\ f \in Live /\ freeing = 0 /\ c \in Chain(f) /\ actor' = f
      /\ UNCHANGED <<m_allocSearchStart, m_freeClusterCount, head, gone, skipped, leaked>>
      /\ fat[c] # 0 /\ c \notin leaked
  BY ChainApart DEF truncate, Idle, NoCrossLinks
<1>1. CASE UNCHANGED <<fat, freeing>> /\ ret' \in {"ok", "io"}
  <2>1. TypeOK'
    BY <1>0, <1>1 DEF TypeOK
  <2>2. NoCrossLinks'
    BY <1>0, <1>1, <2>1, SameFat DEF Roots, Live, RootsDistinct, NoCrossLinks
  <2>3. SearchReaches'
    BY <1>0, <1>1 DEF SearchReaches, Free
  <2> QED BY <2>1, <2>2, <2>3
<1>2. CASE /\ fat[c] # EOC /\ fat' = [fat EXCEPT ![c] = EOC]
           /\ freeing' = fat[c] /\ ret' = "ok"
  <2>0. fat[c] \in Cluster /\ fat[c] # c
    <3>1. fat[c] \in Cluster
      BY <1>0, <1>2 DEF TypeOK
    <3>2. CASE c = head[f]
      BY <3>1, <3>2, <1>0 DEF NoCrossLinks, RootsInUse, Roots
    <3>3. CASE c # head[f]
      <4>1. PICK d \in Chain(f) : fat[d] = c
        BY <3>3, <1>0, ChainPred
      <4>2. d \in Cluster
        BY DEF Chain
      <4> SUFFICES ASSUME fat[c] = c PROVE FALSE
        BY <3>1
      <4> DEFINE S == Chain(f) \ {c}
      <4>3. d = c
        BY <4>1, <4>2 DEF NoCrossLinks, LinksInjective
      <4>4. \A x \in Cluster : fat[x] = c => x = c
        BY DEF NoCrossLinks, LinksInjective
      <4>5. Closed(S)
        BY <4>4, <1>0, ChainClosed DEF Closed
      <4>6. head[f] \in S
        BY <3>3, <1>0, ChainClosed DEF Chain
      <4>7. S \in SUBSET Cluster
        BY DEF Chain
      <4>8. Chain(f) \subseteq S
        BY <4>5, <4>6, <4>7, ChainLeast
      <4> QED BY <4>8, <1>0
    <3> QED BY <3>1, <3>2, <3>3
  <2>1. TypeOK'
    BY <1>0, <1>2, <2>0 DEF TypeOK
  <2>2. \A d \in Cluster : fat'[d] = IF d = c THEN EOC ELSE fat[d]
    BY <1>2 DEF TypeOK
  <2>3. LinksInjective' /\ LinksInUse'
    BY <2>2, <1>0 DEF NoCrossLinks, LinksInjective, LinksInUse
  <2>4. Roots' \subseteq Roots \cup {fat[c]}
    BY <1>0, <1>2 DEF Roots, Live
  <2>5. \A d \in Cluster : fat'[d] # fat[c]
    BY <2>2, <2>0 DEF NoCrossLinks, LinksInjective
  <2>6. RootsInUse'
    <3> SUFFICES ASSUME NEW r \in Roots \cup {fat[c]}, r # 0
                 PROVE  fat'[r] # 0 /\ \A d \in Cluster : fat'[d] # r
      BY <2>4 DEF RootsInUse
    <3>1. r \in Cluster
      BY <2>0, RootsType
    <3>2. fat'[r] # 0
      BY <3>1, <2>0, <2>2 DEF NoCrossLinks, RootsInUse, LinksInUse
    <3>3. \A d \in Cluster : fat'[d] # r
      BY <3>1, <2>2, <2>5 DEF NoCrossLinks, RootsInUse
    <3> QED BY <3>2, <3>3
  <2>7. RootsDistinct'
    <3>1. \A g \in Live : head[g] # 0 => head[g] # fat[c]
      BY <2>0 DEF NoCrossLinks, RootsInUse, Roots
    <3> QED BY <3>1, <1>0, <1>2 DEF NoCrossLinks, RootsDistinct, Live
  <2>8. LeakedApart'
    <3>1. fat[c] \notin leaked
      BY <1>0 DEF NoCrossLinks, LeakedApart
    <3>2. EOC \notin leaked
      BY DEF TypeOK
    <3> QED BY <3>1, <3>2, <2>2, <2>4, <1>0 DEF NoCrossLinks, LeakedApart, TypeOK
  <2>9. SearchReaches'
    BY <2>2, <1>0 DEF SearchReaches, Free
  <2> QED BY <2>1, <2>3, <2>6, <2>7, <2>8, <2>9 DEF NoCrossLinks
<1> QED BY <1>1, <1>2 DEF truncate, Cut, fatPut

LEMMA RemoveInv ==
  ASSUME IInv, NEW f \in File, remove(f)
  PROVE  IInv'
<1> USE Numbers DEF IInv
<1>0. /\ f \in Live /\ freeing = 0 /\ head[f] # 0 /\ actor' = f /\ ret' = "ok"
      /\ freeing' = head[f] /\ gone' = gone \cup {f}
      /\ UNCHANGED <<fat, m_allocSearchStart, m_freeClusterCount, head, skipped, leaked>>
  BY DEF remove, Idle
<1>1. TypeOK'
  BY <1>0 DEF TypeOK, Live
<1>2. RootsDistinct'
  BY <1>0 DEF NoCrossLinks, RootsDistinct, Live
<1>3. Roots' \subseteq Roots \cup {0}
  BY <1>0 DEF Roots, Live
<1>4. NoCrossLinks'
  BY <1>0, <1>1, <1>2, <1>3, SameFat
<1>5. SearchReaches'
  BY <1>0 DEF SearchReaches, Free
<1> QED BY <1>1, <1>4, <1>5

LEMMA FreeChainInv ==
  ASSUME IInv, freeChain
  PROVE  IInv'
<1> USE Numbers DEF IInv
<1>0. freeing \in Cluster /\ actor \in File /\ actor' = actor
  BY DEF freeChain, fatPut, TypeOK
<1>1. CASE /\ ret' = "io" /\ freeing' = 0
           /\ UNCHANGED <<fat, m_allocSearchStart, m_freeClusterCount, head, gone,
                          skipped, leaked>>
  <2>1. TypeOK'
    BY <1>0, <1>1 DEF TypeOK
  <2>2. RootsDistinct'
    BY <1>1 DEF NoCrossLinks, RootsDistinct, Live
  <2>3. Roots' \subseteq Roots \cup {0}
    BY <1>1 DEF Roots, Live
  <2>4. NoCrossLinks'
    BY <1>1, <2>1, <2>2, <2>3, SameFat
  <2>5. SearchReaches'
    BY <1>1 DEF SearchReaches, Free
  <2> QED BY <2>1, <2>4, <2>5
<1>2. CASE /\ fat' = [fat EXCEPT ![freeing] = 0]
           /\ updateFreeClusterCount(1)
           /\ m_allocSearchStart' = IF freeing < m_allocSearchStart
                                    THEN freeing - 1 ELSE m_allocSearchStart
           /\ Skip({freeing})
           /\ IF fat[freeing] = EOC
              THEN /\ freeing' = 0
                   /\ gone' = gone \ {actor}
                   /\ head' = IF actor \in gone THEN [head EXCEPT ![actor] = 0] ELSE head
              ELSE freeing' = fat[freeing] /\ UNCHANGED <<gone, head>>
           /\ UNCHANGED <<ret, leaked>>
  <2>0. /\ fat[freeing] # 0 /\ freeing \notin leaked
        /\ \A c \in Cluster : fat[c] # freeing
        /\ fat[freeing] # EOC => fat[freeing] \in Cluster
    BY <1>0 DEF NoCrossLinks, RootsInUse, LeakedApart, Roots, TypeOK
  <2>1. TypeOK'
    <3>1. fat' \in [Cluster -> {0, EOC} \cup Cluster]
      BY <1>0, <1>2 DEF TypeOK
    <3>2. m_allocSearchStart' \in 1 .. m_lastCluster
      BY <1>0, <1>2, ClusterAssumption DEF TypeOK, Cluster
    <3>3. head' \in [File -> {0} \cup Cluster] /\ gone' \subseteq File
      BY <1>2 DEF TypeOK
    <3>4. skipped' \subseteq Cluster
      BY <1>0, <1>2 DEF TypeOK, Skip
    <3>5. m_freeClusterCount' \in Int
      BY <1>2 DEF TypeOK, updateFreeClusterCount
    <3>6. freeing' \in {0} \cup Cluster
      BY <1>2, <2>0
    <3> QED BY <3>1, <3>2, <3>3, <3>4, <3>5, <3>6, <1>0, <1>2 DEF TypeOK
  <2>2. \A c \in Cluster : fat'[c] = IF c = freeing THEN 0 ELSE fat[c]
    BY <1>2 DEF TypeOK
  <2>3. LinksInjective' /\ LinksInUse'
    <3>1. LinksInjective'
      BY <2>2 DEF NoCrossLinks, LinksInjective
    <3>2. LinksInUse'
      BY <2>0, <2>2 DEF NoCrossLinks, LinksInUse
    <3> QED BY <3>1, <3>2
  (* The roots: the heads as before, but a removed file has none now, and   *)
  (* the next cluster of the chain.                                         *)
  <2>4. \A g \in Live' : head'[g] # 0 => g \in Live /\ head'[g] = head[g]
    BY <1>2 DEF Live, TypeOK
  <2>5. /\ \A r \in Roots' : r = 0 \/ r \in Roots \ {freeing} \/ r = fat[freeing]
        /\ EOC \notin Roots'
    <3>1. \A g \in Live' : head'[g] = 0 \/ head'[g] \in Roots \ {freeing}
      BY <2>4 DEF Roots, NoCrossLinks, RootsDistinct
    <3>2. freeing' = 0 \/ freeing' = fat[freeing]
      BY <1>2
    <3>3. Roots' \subseteq {0} \cup Cluster
      <4>1. TypeOK' => (Roots \subseteq {0} \cup Cluster)'
        BY DEF TypeOK, Roots, Live
      <4> QED BY <4>1, <2>1
    <3> QED BY <3>1, <3>2, <3>3 DEF Roots
  <2>6. RootsInUse'
    <3> SUFFICES ASSUME NEW r \in Roots', r # 0
                 PROVE  fat'[r] # 0 /\ \A c \in Cluster : fat'[c] # r
      BY DEF RootsInUse
    <3>1. CASE r \in Roots \ {freeing}
      <4>1. r \in Cluster
        BY <3>1, RootsType
      <4> QED BY <3>1, <4>1, <2>2 DEF NoCrossLinks, RootsInUse
    <3>2. CASE r = fat[freeing]
      <4>1. r \in Cluster /\ r # freeing
        BY <3>2, <2>0, <2>5, <1>0
      <4>2. fat'[r] # 0
        BY <3>2, <4>1, <2>2, <1>0 DEF NoCrossLinks, LinksInUse
      <4>3. \A c \in Cluster : fat'[c] # r
        BY <3>2, <4>1, <2>2, <1>0 DEF NoCrossLinks, LinksInjective
      <4> QED BY <4>2, <4>3
    <3> QED BY <3>1, <3>2, <2>5
  <2>7. RootsDistinct'
    <3>1. \A g \in Live : head[g] # 0 => head[g] # fat[freeing]
      <4>1. \A g \in Live : head[g] # 0 => \A c \in Cluster : fat[c] # head[g]
        BY DEF NoCrossLinks, RootsInUse, Roots
      <4> QED BY <4>1, <1>0
    <3>2. \A g \in Live' : head'[g] # 0 => head'[g] # freeing'
      BY <2>4, <3>1, <1>2
    <3>3. \A g, h \in Live' : g # h /\ head'[g] # 0 => head'[g] # head'[h]
      BY <2>4 DEF NoCrossLinks, RootsDistinct
    <3> QED BY <3>2, <3>3 DEF RootsDistinct
  <2>8. LeakedApart'
    <3>1. fat[freeing] \notin leaked /\ 0 \notin leaked
      BY <1>0, <2>0 DEF NoCrossLinks, LeakedApart, TypeOK
    <3>2. \A c \in leaked : c \notin Roots'
      BY <2>5, <3>1 DEF NoCrossLinks, LeakedApart
    <3>3. \A c \in leaked : fat'[c] # 0
      BY <2>0, <2>2 DEF NoCrossLinks, LeakedApart, TypeOK
    <3>4. \A c \in Cluster : fat'[c] \in leaked => c \in leaked
      BY <2>2, <3>1 DEF NoCrossLinks, LeakedApart
    <3> QED BY <3>2, <3>3, <3>4, <1>2 DEF LeakedApart
  <2>9. SearchReaches'
    <3> SUFFICES ASSUME NEW c \in Cluster, fat'[c] = 0, c <= m_allocSearchStart'
                 PROVE  c \in skipped'
      BY <2>1, ClusterAssumption DEF SearchReaches, Free, TypeOK, Cluster
    <3>1. c = freeing \/ c \in skipped
      <4>1. m_allocSearchStart' <= m_allocSearchStart
        BY <1>0, <1>2, ClusterAssumption DEF TypeOK, Cluster
      <4>2. c = freeing \/ fat[c] = 0
        BY <2>2
      <4> QED BY <4>1, <4>2, <2>1, ClusterAssumption
              DEF SearchReaches, Free, TypeOK, Cluster
    <3> QED BY <3>1, <1>2 DEF Skip
  <2> QED BY <2>1, <2>3, <2>6, <2>7, <2>8, <2>9 DEF NoCrossLinks
<1> QED BY <1>1, <1>2 DEF freeChain, fatPut

LEMMA CountInv ==
  ASSUME IInv, freeClusterCount \/ init
  PROVE  IInv'
<1> USE Numbers DEF IInv
<1>1. /\ UNCHANGED <<fat, head, freeing, gone>>
      /\ freeing = 0 /\ actor' = NoFile /\ ret' = "none" /\ leaked' = {}
  BY DEF freeClusterCount, init
<1>2. Cardinality(Free) \in Int
  <2>1. IsFiniteSet(Free)
    BY FS_Subset DEF Free
  <2> QED BY <2>1, FS_CardinalityType
<1>3. TypeOK'
  <2>1. CASE freeClusterCount
    BY <1>1, <1>2, <2>1 DEF TypeOK, freeClusterCount
  <2>2. CASE init
    <3>1. 1 \in 1 .. m_lastCluster /\ -1 \in Int
      BY ClusterAssumption
    <3> QED BY <1>1, <2>2, <3>1 DEF TypeOK, init
  <2> QED BY <2>1, <2>2
<1>4. NoCrossLinks'
  <2>1. Roots' = Roots
    BY <1>1 DEF Roots, Live
  <2>2. RootsInUse' /\ RootsDistinct' /\ LinksInjective' /\ LinksInUse'
    BY <1>1, <2>1 DEF NoCrossLinks, RootsInUse, RootsDistinct, LinksInjective, LinksInUse, Live
  <2>3. LeakedApart'
    BY <1>1 DEF LeakedApart
  <2> QED BY <2>2, <2>3 DEF NoCrossLinks
<1>5. SearchReaches'
  <2>1. CASE freeClusterCount
    BY <2>1 DEF SearchReaches, Free, freeClusterCount
  <2>2. CASE init
    BY <2>2, ClusterAssumption DEF SearchReaches, Free, init, Cluster
  <2> QED BY <2>1, <2>2
<1> QED BY <1>3, <1>4, <1>5

-----------------------------------------------------------------------------
(* A volume starts with all clusters free.                                  *)
LEMMA InitEstablishes == Init => IInv /\ CountExact
<1> SUFFICES ASSUME Init PROVE IInv /\ CountExact
  OBVIOUS
<1> USE ClusterAssumption, Numbers DEF Init
<1>1. TypeOK
  <2>1. 1 \in 1 .. m_lastCluster /\ -1 \in Int
    OBVIOUS
  <2> QED BY <2>1 DEF TypeOK
<1>2. NoCrossLinks
  BY DEF NoCrossLinks, LinksInjective, LinksInUse, RootsInUse, RootsDistinct, LeakedApart,
         Roots, Live
<1>3. SearchReaches
  BY DEF SearchReaches, Free, Cluster
<1>4. CountExact
  BY DEF CountExact
<1> QED BY <1>1, <1>2, <1>3, <1>4 DEF IInv

LEMMA NextPreserves == IInv /\ [Next]_vars => IInv'
<1> SUFFICES ASSUME IInv, [Next]_vars PROVE IInv'
  OBVIOUS
<1>1. CASE UNCHANGED vars
  BY <1>1 DEF vars, IInv, TypeOK, NoCrossLinks, LinksInjective, LinksInUse, RootsInUse,
              RootsDistinct, LeakedApart, Roots, Live, SearchReaches, Free
<1> QED BY <1>1, AllocateInv, ContiguousInv, TruncateInv, RemoveInv,
           FreeChainInv, CountInv DEF Next

(* In every reachable state the FAT is a set of separate chains, the files' *)
(* clusters are pairwise disjoint and in use, and a free cluster the search *)
(* cannot reach is one of those in skipped.                                 *)
THEOREM AllocationCorrect ==
  Spec => [](TypeOK /\ NoCrossLinks /\ ChainsDisjoint /\ SearchReaches)
<1>1. Init => IInv
  BY InitEstablishes
<1>2. IInv => TypeOK /\ NoCrossLinks /\ ChainsDisjoint /\ SearchReaches
  BY NoCrossLinksImpliesDisjoint DEF IInv
<1> QED BY <1>1, <1>2, NextPreserves, PTL DEF Spec

(* The variables keep their types; the search start is a cluster number.    *)
COROLLARY AllocationTyped == Spec => []TypeOK
<1> QED BY AllocationCorrect, PTL

(* allocateCluster misses a free cluster only if it is one of skipped.      *)
COROLLARY FreeFound == Spec => []SearchReaches
<1> QED BY AllocationCorrect, PTL

-----------------------------------------------------------------------------
(* A call for one file leaves every entry in the chain of another.          *)
LEMMA StepIsolates ==
  ASSUME IInv, Next, NEW g \in Live \ {actor'}, NEW c \in Chain(g)
  PROVE  fat'[c] = fat[c]
<1> USE Numbers DEF IInv
<1>0. /\ c \in Cluster /\ fat[c] # 0 /\ c # freeing
      /\ \A f \in Live : f # g => c \notin Chain(f)
  BY ChainApart DEF Chain
<1>1. ASSUME NEW f \in File, NEW current \in {0} \cup Cluster, allocateCluster(f, current)
      PROVE  fat'[c] = fat[c]
  <2>0. f \in Live /\ actor' = f /\ (current = 0 \/ current \in Chain(f))
    BY <1>1 DEF allocateCluster, Idle
  <2>1. CASE AllocFails(current)
    BY <2>1 DEF AllocFails
  <2>2. ASSUME NEW find \in Cluster, NEW setStart \in BOOLEAN,
               Found(current, find, setStart), AllocTakes(f, current, find, setStart)
        PROVE  fat'[c] = fat[c]
    <3>1. c # find /\ c # current
      BY <1>0, <2>0, <2>2, FoundFacts
    <3>2. fat' \in {fat, [fat EXCEPT ![find] = EOC],
                   [fat EXCEPT ![find] = EOC, ![current] = find]}
      BY <2>2 DEF AllocTakes, fatPut
    <3> QED BY <1>0, <3>1, <3>2 DEF TypeOK
  <2> QED BY <1>1, <2>1, <2>2 DEF allocateCluster
<1>2. ASSUME NEW f \in File, NEW n \in 1 .. m_lastCluster - 1, allocContiguous(f, n)
      PROVE  fat'[c] = fat[c]
  <2>1. ASSUME NEW b \in Cluster, NEW k \in 0 .. n,
               FirstFit(b, n), ContiguousTakes(f, b, n, k)
        PROVE  fat'[c] = fat[c]
    BY <1>0, <2>1, ContiguousFat
  <2> QED BY <1>2, <2>1 DEF allocContiguous
<1>3. ASSUME NEW f \in File, NEW d \in Cluster, truncate(f, d)
      PROVE  fat'[c] = fat[c]
  <2>1. d \in Chain(f) /\ f \in Live /\ actor' = f
    BY <1>3 DEF truncate, Idle
  <2>2. fat' \in {fat, [fat EXCEPT ![d] = EOC]}
    BY <1>3 DEF truncate, Cut, fatPut
  <2> QED BY <1>0, <2>1, <2>2 DEF TypeOK
<1>4. CASE freeChain
  BY <1>0, <1>4 DEF freeChain, fatPut, TypeOK
<1>5. CASE (\E f \in File : remove(f)) \/ freeClusterCount \/ init
  BY <1>5 DEF remove, freeClusterCount, init
<1> QED BY <1>1, <1>2, <1>3, <1>4, <1>5 DEF Next

(* No step made for one file touches the chain of another.                  *)
THEOREM FilesIsolated == Spec => Isolation
<1> DEFINE A == \A g \in Live \ {actor'} : \A c \in Chain(g) : fat'[c] = fat[c]
<1>1. Init => IInv
  BY InitEstablishes
<1>2. IInv /\ [Next]_vars => [A]_vars
  BY StepIsolates
<1>3. Isolation <=> [][A]_vars
  BY DEF Isolation
<1> QED BY <1>1, <1>2, <1>3, NextPreserves, PTL DEF Spec

-----------------------------------------------------------------------------
(* Cardinalities of the free and the lost clusters after a step.            *)
LEMMA Finite ==
  ASSUME TypeOK
  PROVE  /\ IsFiniteSet(Free) /\ Cardinality(Free) \in Nat
         /\ IsFiniteSet(leaked) /\ Cardinality(leaked) \in Nat
<1>1. IsFiniteSet(Free) /\ IsFiniteSet(leaked)
  BY Numbers, FS_Subset DEF Free, TypeOK
<1> QED BY <1>1, FS_CardinalityType

(* Taking clusters S from free space.                                       *)
LEMMA TakeCount ==
  ASSUME TypeOK, NEW S, S \subseteq Free, Free' = Free \ S
  PROVE  IsFiniteSet(S) /\ Cardinality(S) \in Nat
         /\ Cardinality(Free') = Cardinality(Free) - Cardinality(S)
<1>1. IsFiniteSet(S) /\ Cardinality(S) \in Nat
  BY Finite, FS_Subset, FS_CardinalityType
<1>2. Free \cap S = S
  OBVIOUS
<1>3. Cardinality(Free \ S) = Cardinality(Free) - Cardinality(Free \cap S)
  BY Finite, FS_Difference
<1> QED BY <1>1, <1>2, <1>3

LEMMA LeakCount ==
  ASSUME TypeOK, NoCrossLinks, NEW S, S \subseteq Free, leaked' = leaked \cup S
  PROVE  Cardinality(leaked') = Cardinality(leaked) + Cardinality(S)
<1>1. IsFiniteSet(S)
  BY Finite, FS_Subset
<1>2. leaked \cap S = {}
  BY DEF NoCrossLinks, LeakedApart, Free
<1>3. Cardinality(leaked \cup S) =
        Cardinality(leaked) + Cardinality(S) - Cardinality(leaked \cap S)
  BY <1>1, Finite, FS_Union
<1>4. Cardinality(S) \in Nat
  BY <1>1, FS_CardinalityType
<1>5. Cardinality(leaked \cap S) = 0
  BY <1>2, FS_EmptySet
<1>6. Cardinality(leaked) \in Nat
  BY Finite
<1>7. Cardinality(leaked \cup S) = Cardinality(leaked) + Cardinality(S)
  BY <1>3, <1>4, <1>5, <1>6
<1> QED BY <1>7

LEMMA CountPreserved == IInv /\ CountExact /\ [Next]_vars => CountExact'
<1> SUFFICES ASSUME IInv, CountExact, [Next]_vars PROVE CountExact'
  OBVIOUS
<1> USE Numbers DEF IInv
<1>0. Cardinality(Free) \in Nat /\ Cardinality(leaked) \in Nat /\ m_freeClusterCount \in Int
  BY Finite DEF TypeOK
<1>a. CASE m_freeClusterCount' = m_freeClusterCount /\ Free' = Free /\ leaked' = leaked
  BY <1>a DEF CountExact
<1>1. ASSUME NEW f \in File, NEW current \in {0} \cup Cluster, allocateCluster(f, current)
      PROVE  CountExact'
  <2>1. CASE AllocFails(current)
    BY <2>1, <1>a DEF AllocFails, Free
  <2>2. ASSUME NEW find \in Cluster, NEW setStart \in BOOLEAN,
               Found(current, find, setStart), AllocTakes(f, current, find, setStart)
        PROVE  CountExact'
    <3>1. fat[find] = 0 /\ {find} \subseteq Free /\ Cardinality({find}) = 1
      BY <2>2, FoundFacts, FS_Singleton DEF Free
    <3>2. current = 0 \/ (current \in Cluster /\ fat[current] = EOC)
      BY <1>1 DEF allocateCluster, Chain
    <3>3. CASE UNCHANGED <<fat, leaked, m_freeClusterCount>>
      BY <3>3, <1>a DEF Free
    <3>4. CASE /\ fat' = [fat EXCEPT ![find] = EOC]
               /\ leaked' = leaked \cup {find}
               /\ UNCHANGED m_freeClusterCount
      <4>1. Free' = Free \ {find}
        BY <3>4 DEF Free, TypeOK
      <4>2. Cardinality(Free') = Cardinality(Free) - 1
        BY <3>1, <4>1, TakeCount
      <4>3. Cardinality(leaked') = Cardinality(leaked) + 1
        BY <3>1, <3>4, LeakCount
      <4> QED BY <3>4, <4>2, <4>3, <1>0 DEF CountExact
    <3>5. CASE /\ fat' = IF current = 0 THEN [fat EXCEPT ![find] = EOC]
                         ELSE [fat EXCEPT ![find] = EOC, ![current] = find]
               /\ updateFreeClusterCount(-1)
               /\ UNCHANGED leaked
      <4>1. \A c \in Cluster : fat'[c] = 0 <=> (fat[c] = 0 /\ c # find)
        BY <3>1, <3>2, <3>5 DEF TypeOK
      <4>2. Free' = Free \ {find}
        BY <4>1 DEF Free
      <4>3. Cardinality(Free') = Cardinality(Free) - 1
        BY <3>1, <4>2, TakeCount
      <4> QED BY <3>5, <4>3, <1>0 DEF CountExact, updateFreeClusterCount
    <3> QED BY <2>2, <3>3, <3>4, <3>5 DEF AllocTakes, fatPut
  <2> QED BY <1>1, <2>1, <2>2 DEF allocateCluster
<1>2. ASSUME NEW f \in File, NEW n \in 1 .. m_lastCluster - 1, allocContiguous(f, n)
      PROVE  CountExact'
  <2>1. ASSUME NEW b \in Cluster, NEW k \in 0 .. n,
               FirstFit(b, n), ContiguousTakes(f, b, n, k)
        PROVE  CountExact'
    <3> DEFINE e == b + n - 1
               New == (e - k + 1) .. e
    <3>1. /\ e \in Cluster /\ b .. e \subseteq Cluster /\ New \subseteq b .. e
          /\ \A c \in b .. e : fat[c] = 0
          /\ \A c \in Cluster : fat'[c] = IF c \in New
                                          THEN IF c = e THEN EOC ELSE c + 1
                                          ELSE fat[c]
      BY <2>1, ContiguousFat
    <3>2. b \in Int /\ n \in Int /\ k \in Int /\ k >= 0 /\ e \in Int /\ b >= 2 /\ e >= b
      BY ClusterAssumption DEF Cluster
    <3>3. New \subseteq Free /\ \A c \in New : c # e => c + 1 # 0
      BY <3>1, <3>2 DEF Free
    <3>4. \A c \in Cluster : fat'[c] = 0 <=> (fat[c] = 0 /\ c \notin New)
      BY <3>1, <3>3
    <3>5. Free' = Free \ New
      BY <3>4 DEF Free
    <3>6. Cardinality(New) = k
      BY <3>2, FS_Interval
    <3>7. Cardinality(Free') = Cardinality(Free) - k
      BY <3>3, <3>5, <3>6, TakeCount
    <3>8. CASE k = n /\ updateFreeClusterCount(-n) /\ UNCHANGED leaked
      BY <3>2, <3>7, <3>8, <1>0 DEF CountExact, updateFreeClusterCount
    <3>9. CASE leaked' = leaked \cup New /\ UNCHANGED m_freeClusterCount
      <4>1. Cardinality(leaked') = Cardinality(leaked) + k
        BY <3>3, <3>6, <3>9, LeakCount
      <4> QED BY <4>1, <3>2, <3>7, <3>9, <1>0 DEF CountExact
    <3> QED BY <2>1, <3>8, <3>9 DEF ContiguousTakes
  <2> QED BY <1>2, <2>1, <1>a DEF allocContiguous, Free
<1>3. ASSUME NEW f \in File, NEW c \in Cluster, truncate(f, c)
      PROVE  CountExact'
  <2>1. fat[c] # 0
    BY <1>3, ChainApart DEF truncate, Idle
  <2>2. Free' = Free
    BY <1>3, <2>1 DEF truncate, Cut, fatPut, Free, TypeOK
  <2> QED BY <1>3, <2>2, <1>a DEF truncate
<1>4. CASE \E f \in File : remove(f)
  BY <1>4, <1>a DEF remove, Free
<1>5. CASE freeChain
  <2>1. CASE UNCHANGED <<fat, m_freeClusterCount, leaked>>
    BY <2>1, <1>a DEF Free
  <2>2. CASE /\ fat' = [fat EXCEPT ![freeing] = 0]
             /\ updateFreeClusterCount(1) /\ UNCHANGED leaked
    <3>1. freeing \in Cluster /\ fat[freeing] # 0
      BY <1>5 DEF freeChain, fatPut, TypeOK, NoCrossLinks, RootsInUse, Roots
    <3>2. Free' = Free \cup {freeing}
      BY <2>2, <3>1 DEF Free, TypeOK
    <3>3. freeing \notin Free
      BY <3>1 DEF Free
    <3>4. Cardinality(Free') = Cardinality(Free) + 1
      BY <3>2, <3>3, Finite, FS_AddElement
    <3> QED BY <2>2, <3>4, <1>0 DEF CountExact, updateFreeClusterCount
  <2> QED BY <1>5, <2>1, <2>2 DEF freeChain, fatPut
<1>6. CASE freeClusterCount
  BY <1>6, <1>0, FS_EmptySet DEF freeClusterCount, CountExact, Free
<1>7. CASE init
  BY <1>7 DEF init, CountExact
<1>8. CASE UNCHANGED vars
  BY <1>8, <1>a DEF vars, Free
<1> QED BY <1>1, <1>2, <1>3, <1>4, <1>5, <1>6, <1>7, <1>8 DEF Next

(* The kept count is exact but for the clusters that failed allocations lost.*)
THEOREM CountCorrect == Spec => []CountExact
<1>1. Init => IInv /\ CountExact
  BY InitEstablishes
<1> QED BY <1>1, NextPreserves, CountPreserved, PTL DEF Spec
=============================================================================
