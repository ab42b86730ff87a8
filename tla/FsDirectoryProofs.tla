-------------------------- MODULE FsDirectoryProofs --------------------------
(***************************************************************************)
(* Proofs about FsDirectory while the volume is FAT: what its directory    *)
(* entries, its FAT and its sectors are at any moment of any sequence of   *)
(* calls, for every size of the volume, of its directories and of a long   *)
(* name, and for every set of names.                                       *)
(*                                                                         *)
(* The steps of IInv that are left come first: those that make, copy and   *)
(* remove directories, and their two writes, the restart and the initial   *)
(* states.  The second part is about names.  NInv is IInv and, of the tree *)
(* that the program sees, at any moment:                                   *)
(*   - no two entries of a directory have the same short name or the same  *)
(*     name, and a short name made for a long one has all of it in front   *)
(*     (Named), which the device's tree has too;                           *)
(*   - each entry of a long name belongs to a short entry, or is one that  *)
(*     the call is writing or deleting (Owned);                            *)
(*   - at, what the calls have made, has the same names (Agree);           *)
(*   - the open object is open by the name of its entry (NameIs), and a    *)
(*     directory starts with its dot entries (Dots);                       *)
(*   - a call that creates has searched for both names and found neither   *)
(*     (NamePhase).                                                        *)
(* A step named s keeps NInv by sNames.  The heart of it is NameScanned:   *)
(* what a search knows of the names in the entries it has passed.          *)
(***************************************************************************)
EXTENDS FsDirectoryLemmas


-----------------------------------------------------------------------------
(* The entry i of d becomes slot, which names x: x comes into the tree, all free. *)
AllFree(s) == \A j \in DOMAIN s : s[j] = F!Free
Added(T, U, d, i, slot, x) ==
  /\ DOMAIN U = Plus(DOMAIN T, x) /\ x \notin DOMAIN T
  /\ \A e \in DOMAIN T : U[e] = TreeWith(T, d, i, slot)[e]
  /\ AllFree(U[x])

(* The new directory that a call is making. *)
LEMMA PendingIs ==
  ASSUME F!DirectoryAssumption, IInv, NEW x, x = PendingAt(pc, call), x # 0, pc # "del"
  PROVE  /\ x \notin DOMAIN T0 /\ x \in F!Cluster /\ FirstOf(x) = x /\ x \notin Targets(fat) /\ fat[x] # 0
         /\ \A d \in DOMAIN T0 : x \notin F!ChainSet(fat, d)
<1>0. program \in FatPrograms /\ Good(fat) /\ TreeTyped(T0) /\ HeldP(T0, fat, file, pc, call)
  BY Now
<1>1. Held(fat, HNow, SNow) /\ HNow = Holding(T0, file, GoneAt(pc, call), x)
  BY <1>0 DEF HeldP, HNow, SNow, HoldsP
<1>2. NewKey \in DOMAIN HNow /\ HNow[NewKey] = x
  BY <1>0, <1>1, HoldingIs
<1>3. x \in F!Cluster /\ fat[x] # 0 /\ x \notin Targets(fat)
  BY <1>1, <1>2, HeldHead
<1>4. RootKey \in DOMAIN HNow /\ HNow[RootKey] = rootDirStart
  BY <1>0, <1>1, HoldingIs
<1>5. x # rootDirStart
  <2>1. RootKey # NewKey
    BY DEF RootKey, NewKey
  <2> QED BY <2>1, <1>1, <1>2, <1>4 DEF Held
<1>6. FirstOf(x) = x /\ x \in F!ChainSet(fat, x)
  <2>1. FirstOf(x) = x
    BY DEF FirstOf
  <2> QED BY <2>1, <1>0, <1>3, ChainSetIs
<1>o. x \notin DOMAIN T0
  <2>1. x = call.first /\ pc \in {"newentry", "dotdot"}
    BY DEF PendingAt
  <2>2. PhaseOK(pc, T0, Inside, file, call, F!Contents, fatOnDevice, fat, m_sector)
    BY Now
  <2>3. CASE pc = "newentry"
    BY <2>1, <2>2, <2>3, PhaseIs DEF NewentryOK
  <2>4. CASE pc = "dotdot"
    BY <2>1, <2>2, <2>4, PhaseIs DEF DotdotOK
  <2> QED BY <2>1, <2>3, <2>4
<1>7. ASSUME NEW d \in DOMAIN T0 PROVE x \notin F!ChainSet(fat, d)
  <2>1. ~RemovedNow(d) /\ d \in F!Cluster \cup {0}
    BY <1>0, <1>7 DEF RemovedNow, TreeTyped
  <2>2. FirstOf(d) \notin Targets(fat)
    BY DirHeld
  <2>3. PICK k \in DOMAIN HNow : HNow[k] = FirstOf(d) /\ k \notin SNow
    BY <2>1, DirHeld DEF HNow, SNow
  <2>4. CASE FirstOf(d) # x
    BY <2>1, <2>2, <2>4, <1>0, <1>3, <1>6, ChainsDisjoint
  <2>5. CASE FirstOf(d) = x
    <3>1. k = NewKey
      BY <2>3, <2>5, <1>1, <1>2 DEF Held
    <3>2. d = 0 \/ d = x
      BY <2>5 DEF FirstOf
    <3>3. d # 0
      BY <2>5, <1>5 DEF FirstOf
    <3> QED BY <3>2, <3>3, <1>7, <1>o
  <2> QED BY <2>4, <2>5
<1> QED BY <1>o, <1>3, <1>6, <1>7


LEMMA ZeroedSlots ==
  ASSUME F!DirectoryAssumption, program \in FatPrograms, NEW c, NEW l, NEW x \in F!Cluster, l[x] \notin F!Cluster, c[x] = F!Zeroed
  PROVE  /\ AllFree(F!Slots(c, l, x)) /\ Indexed(F!Slots(c, l, x)) /\ NoneBehind(F!Slots(c, l, x)) /\ Subs(c, l, x) = {}
         /\ F!ChainSet(l, x) = {x} /\ NoneData(F!ChainSet(l, x), c)
<1>1. PICK s : s = F!Slots(c, l, x)
  OBVIOUS
<1>2. Indexed(s) /\ DOMAIN s = 0 .. SizeOf(l, x) - 1
  BY <1>1, SlotsIndexed, SlotsDomain
<1>3. F!Chain(l, x) = <<x>> /\ F!ChainSet(l, x) = {x}
  BY ChainSingle
<1>4. ASSUME NEW j \in DOMAIN s PROVE s[j] = F!Free
  <2>1. j \in 0 .. SizeOf(l, x) - 1
    BY <1>2
  <2>2. s[j] = F!SlotIn(c[SectorAt(l, x, j)], j) /\ SectorAt(l, x, j) \in F!ChainSet(l, x)
        /\ j % F!EntriesPerSector \in 0 .. F!EntriesPerSector - 1
    BY <2>1, <1>1, SlotIs, IndexPlace
  <2>3. c[SectorAt(l, x, j)] = F!Zeroed
    BY <2>2, <1>3
  <2>4. F!Zeroed # F!Data
    BY TypedConstants, SectorNotData
  <2> QED BY <2>2, <2>3, <2>4 DEF F!SlotIn, F!Zeroed
<1>5. \A j \in DOMAIN s : s[j].kind = "free"
  BY <1>4 DEF F!Free, F!Slot
<1>6. NoneBehind(s) /\ UsedOf(s) = {}
  BY <1>5 DEF NoneBehind, UsedOf, InUse, F!isFatFileOrSubdir
<1>7. SubdirsOf(s) = {}
  BY <1>6 DEF SubdirsOf
<1>8. Subs(c, l, x) = {}
  BY <1>1, <1>6, <1>7, SubsIs
<1>9. NoneData(F!ChainSet(l, x), c)
  <2>1. F!Zeroed # F!Data
    BY TypedConstants, SectorNotData
  <2> QED BY <2>1, <1>3 DEF NoneData
<1> QED BY <1>1, <1>2, <1>3, <1>4, <1>6, <1>8, <1>9 DEF AllFree

LEMMA AddedTree ==
  ASSUME F!DirectoryAssumption, IInv, program' = program, fat' = fat, NEW d \in DOMAIN T0, NEW i \in DOMAIN T0[d],
         NEW slot \in SlotType, F!StoreEntry(d, i, slot), T0[d][i].kind = "file", slot.kind = "subdir", NEW x, slot.first = x,
         x = PendingAt(pc, call), x # 0, pc # "del", fat[x] = EOC, F!Contents[x] = F!Zeroed
  PROVE  /\ VolumeNext /\ View(F!Contents', fat') /\ TreeTyped(T0') /\ Added(T0, T0', d, i, slot, x)
         /\ \A y \in DOMAIN T0 : d \notin Below(F!Contents, fat, y) => Below(F!Contents', fat', y) = Below(F!Contents, fat, y)
<1>0. /\ TreeTyped(T0) /\ T0 = F!Tree(F!Contents, fat, 0) /\ Sectored(F!Contents) /\ program \in FatPrograms /\ View(F!Contents, fat)
  BY Now
<1>1. /\ VolumeNext /\ (\A e \in DOMAIN T0 : NoneData(F!ChainSet(fat, e), F!Contents'))
      /\ \A e \in DOMAIN T0 : F!Slots(F!Contents', fat, e) = IF e = d THEN With(T0[d], i, slot) ELSE T0[e]
      /\ \A y \in F!Cluster : y \notin F!ChainSet(fat, d) => F!Contents'[y] = F!Contents[y]
  BY EntryStored
<1>2. DOMAIN T0 = Below(F!Contents, fat, 0)
      /\ \A e \in DOMAIN T0 : e \in F!Cluster \cup {0} /\ T0[e] = F!Slots(F!Contents, fat, e) /\ Indexed(T0[e]) /\ NoneBehind(T0[e])
                              /\ Subs(F!Contents, fat, e) = SubdirsOf(T0[e]) /\ SubdirsOf(T0[e]) \subseteq DOMAIN T0
  BY <1>0, TreeClosed DEF TreeTyped
<1>3. Sectored(F!Contents')
  BY <1>1 DEF VolumeNext
<1>4. x \notin DOMAIN T0 /\ x \in F!Cluster /\ \A e \in DOMAIN T0 : x \notin F!ChainSet(fat, e)
  BY PendingIs
<1>5. F!Contents'[x] = F!Zeroed /\ fat[x] \notin F!Cluster
  BY <1>0, <1>1, <1>4, Setting
<1>6. PICK c2 : c2 = F!Contents'
  OBVIOUS
<1>7. /\ AllFree(F!Slots(c2, fat, x)) /\ NoneBehind(F!Slots(c2, fat, x)) /\ Subs(c2, fat, x) = {}
      /\ NoneData(F!ChainSet(fat, x), c2)
  BY <1>0, <1>4, <1>5, <1>6, ZeroedSlots
<1>8. NoneBehind(With(T0[d], i, slot))
  <2>1. T0[d][i].kind \notin {"free", "lfn"} /\ slot.kind # "free"
    OBVIOUS
  <2> QED BY <2>1, <1>2, UsedClear, NoneBehindWith
<1>9. /\ SubdirsOf(With(T0[d], i, slot)) \subseteq Plus(SubdirsOf(T0[d]), x)
      /\ SubdirsOf(T0[d]) \subseteq SubdirsOf(With(T0[d], i, slot)) /\ x \in SubdirsOf(With(T0[d], i, slot))
  BY <1>2, SubdirsWith DEF Plus
<1>10. F!Slots(c2, fat, d) = With(T0[d], i, slot) /\ Subs(c2, fat, d) = SubdirsOf(With(T0[d], i, slot))
  <2>1. F!Slots(c2, fat, d) = With(T0[d], i, slot)
    BY <1>1, <1>6
  <2> QED BY <2>1, <1>0, <1>2, <1>8, SubsIs
<1>11. ASSUME NEW e \in DOMAIN T0, e # d PROVE F!Slots(c2, fat, e) = T0[e] /\ Subs(c2, fat, e) = Subs(F!Contents, fat, e)
  BY <1>1, <1>2, <1>6, <1>11 DEF Subs
<1>12. ASSUME NEW e \in Below(F!Contents, fat, 0)
       PROVE  Subs(F!Contents, fat, e) \subseteq Subs(c2, fat, e) /\ Subs(c2, fat, e) \subseteq Plus(Below(F!Contents, fat, 0), x)
  <2>1. CASE e = d
    BY <2>1, <1>2, <1>9, <1>10 DEF Plus
  <2>2. CASE e # d
    BY <2>2, <1>2, <1>11 DEF Plus
  <2> QED BY <2>1, <2>2
<1>13. /\ Below(c2, fat, 0) = Plus(DOMAIN T0, x)
       /\ F!Tree(c2, fat, 0) = TreeOn(c2, fat, Plus(DOMAIN T0, x))
  <2>1. 0 \in F!Cluster \cup {0} /\ d \in Below(F!Contents, fat, 0) /\ x \in Subs(c2, fat, d)
    BY <1>2, <1>9, <1>10
  <2>2. Sectored(c2)
    BY <1>3, <1>6
  <2> QED BY <2>1, <2>2, <1>0, <1>2, <1>7, <1>12, TreeAdd
<1>14. T0' = TreeOn(c2, fat, Plus(DOMAIN T0, x))
  BY <1>6, <1>13, PrimedTree
<1>15. DOMAIN T0' = Plus(DOMAIN T0, x) /\ \A e \in Plus(DOMAIN T0, x) : T0'[e] = F!Slots(c2, fat, e)
  BY <1>14 DEF TreeOn
<1>16. \A e \in DOMAIN T0 : F!Slots(c2, fat, e) = TreeWith(T0, d, i, slot)[e]
  BY <1>2, <1>10, <1>11, TreeWithIs
<1>17. Added(T0, T0', d, i, slot, x)
  BY <1>4, <1>7, <1>15, <1>16 DEF Added, Plus
<1>18. View(c2, fat)
  <2>1. \A e \in DOMAIN T0 : NoneData(F!ChainSet(fat, e), c2) /\ NoneBehind(F!Slots(c2, fat, e))
    <3>1. \A e \in DOMAIN T0 : NoneBehind(F!Slots(c2, fat, e))
      BY <1>2, <1>8, <1>10, <1>11
    <3> QED BY <3>1, <1>1, <1>6
  <2>2. NoneData(F!ChainSet(fat, x), c2) /\ NoneBehind(F!Slots(c2, fat, x))
    BY <1>7
  <2> QED BY <2>1, <2>2, <1>13 DEF View, Plus
<1>19. TreeTyped(T0')
  <2>1. T0' = F!Tree(c2, fat, 0) /\ Sectored(c2)
    BY <1>3, <1>6, <1>13, <1>14
  <2> QED BY <2>1, <1>0, <1>18, ViewTree
<1>20. ASSUME NEW y \in DOMAIN T0, d \notin Below(F!Contents, fat, y)
       PROVE  Below(c2, fat, y) = Below(F!Contents, fat, y)
  <2>1. Below(F!Contents, fat, y) \subseteq DOMAIN T0
    BY <1>0, <1>2, BelowWithin
  <2>2. y \in F!Cluster \cup {0} /\ \A e \in Below(F!Contents, fat, y) : F!Slots(c2, fat, e) = F!Slots(F!Contents, fat, e)
    BY <2>1, <1>2, <1>11, <1>20
  <2>3. Sectored(c2)
    BY <1>3, <1>6
  <2> QED BY <2>2, <2>3, <1>0, TreeSame
<1> QED BY <1>1, <1>6, <1>17, <1>18, <1>19, <1>20

-----------------------------------------------------------------------------
LEMMA AddedEntries ==
  ASSUME NEW T, TreeTyped(T), NEW U, NEW d \in DOMAIN T, NEW i \in DOMAIN T[d], NEW slot, NEW x, Added(T, U, d, i, slot, x),
         F!isFatFileOrSubdir(slot)
  PROVE  /\ Entered(U) = Plus(Entered(T), <<d, i>>) /\ SameBut(T, U, <<d, i>>) /\ F!At(U, <<d, i>>) = slot
         /\ d \in DOMAIN U /\ DOMAIN U[d] = DOMAIN T[d] /\ U[d][i] = slot /\ EmptyDir(U, x)
<1>1. PICK V : V = TreeWith(T, d, i, slot)
  OBVIOUS
<1>2. Indexed(T[d])
  BY DEF TreeTyped
<1>3. /\ DOMAIN V = DOMAIN T /\ V[d] = With(T[d], i, slot) /\ V[d][i] = slot /\ DOMAIN V[d] = DOMAIN T[d]
      /\ Entered(V) = Plus(Entered(T), <<d, i>>) /\ SameBut(T, V, <<d, i>>) /\ F!At(V, <<d, i>>) = slot
  BY <1>1, <1>2, TreeWithIs, EnteredAdd
<1>4. DOMAIN U = Plus(DOMAIN T, x) /\ x \notin DOMAIN T /\ (\A e \in DOMAIN T : U[e] = V[e]) /\ AllFree(U[x])
  BY <1>1 DEF Added
<1>5. \A j \in DOMAIN U[x] : U[x][j].kind = "free"
  BY <1>4 DEF AllFree, F!Free, F!Slot
<1>6. UsedOf(U[x]) = {} /\ EmptyDir(U, x)
  BY <1>4, <1>5 DEF UsedOf, InUse, F!isFatFileOrSubdir, EmptyDir, Plus
<1>7. ASSUME NEW k PROVE k \in Entered(U) <=> k \in Entered(V)
  <2>1. k \in Entered(U) <=> k = <<k[1], k[2]>> /\ k[1] \in DOMAIN U /\ k[2] \in UsedOf(U[k[1]])
    BY EnteredIs
  <2>2. k \in Entered(V) <=> k = <<k[1], k[2]>> /\ k[1] \in DOMAIN V /\ k[2] \in UsedOf(V[k[1]])
    BY EnteredIs
  <2>3. CASE k[1] = x
    BY <2>1, <2>2, <2>3, <1>3, <1>4, <1>6
  <2>4. CASE k[1] # x
    BY <2>1, <2>2, <2>4, <1>3, <1>4 DEF Plus
  <2> QED BY <2>3, <2>4
<1>8. Entered(U) = Plus(Entered(T), <<d, i>>)
  <2>1. Entered(U) = Entered(V)
    BY <1>7
  <2> QED BY <2>1, <1>3
<1>9. SameBut(T, U, <<d, i>>)
  <2>1. SUFFICES ASSUME NEW k \in Entered(T), k # <<d, i>> PROVE F!At(U, k) = F!At(T, k)
    BY DEF SameBut
  <2>2. k[1] \in DOMAIN T
    BY EnteredIs
  <2>3. F!At(V, k) = F!At(T, k)
    BY <2>1, <1>3 DEF SameBut
  <2> QED BY <2>2, <2>3, <1>4 DEF F!At
<1>10. F!At(U, <<d, i>>) = slot /\ U[d] = V[d]
  BY <1>3, <1>4 DEF F!At
<1> QED BY <1>3, <1>4, <1>6, <1>8, <1>9, <1>10 DEF Plus

LEMMA AddedSets ==
  ASSUME NEW T, TreeTyped(T), NEW U, NEW d \in DOMAIN T, NEW i \in DOMAIN T[d], NEW slot, NEW x, Added(T, U, d, i, slot, x),
         slot.kind # "free", ClearBefore(T[d], i), T[d][i].kind \notin {"dot", "dotdot"}, FreeTail(T, {}), DotKinds(T, {})
  PROVE  FreeTail(U, {}) /\ DotKinds(U, {x})
<1>1. PICK V : V = TreeWith(T, d, i, slot)
  OBVIOUS
<1>2. Indexed(T[d])
  BY DEF TreeTyped
<1>3. FreeTail(V, {}) /\ DotKinds(V, {}) /\ DOMAIN V = DOMAIN T
  BY <1>1, <1>2, FreeTailUsed, DotKindsWith, TreeWithIs
<1>4. DOMAIN U = Plus(DOMAIN T, x) /\ (\A e \in DOMAIN T : U[e] = V[e]) /\ AllFree(U[x])
  BY <1>1 DEF Added
<1>5. \A j \in DOMAIN U[x] : U[x][j].kind = "free"
  BY <1>4 DEF AllFree, F!Free, F!Slot
<1>6. FreeTail(U, {})
  BY <1>3, <1>4, <1>5 DEF FreeTail, Plus
<1>7. DotKinds(U, {x})
  BY <1>3, <1>4 DEF DotKinds, Plus
<1> QED BY <1>6, <1>7

LEMMA FileAt ==
  ASSUME NEW T, NEW U, NEW o, FileIs(T, o),
         o.open => o.dir \in DOMAIN U /\ o.index \in DOMAIN U[o.dir] /\ U[o.dir][o.index] = T[o.dir][o.index]
  PROVE  FileIs(U, o)
<1>1. CASE o = F!Closed
  BY <1>1 DEF FileIs
<1>2. CASE Object(T, o)
  BY <1>2 DEF FileIs, Object, EntryIs
<1> QED BY <1>1, <1>2 DEF FileIs

LEMMA AddedFile ==
  ASSUME NEW T, TreeTyped(T), NEW U, NEW d \in DOMAIN T, NEW i \in DOMAIN T[d], NEW slot, NEW x, Added(T, U, d, i, slot, x),
         NEW o, FileIs(T, o), o.open => <<o.dir, o.index>> # <<d, i>>
  PROVE  /\ FileIs(U, o) /\ (o.open => U[o.dir][o.index] = T[o.dir][o.index])
         /\ DOMAIN T \subseteq DOMAIN U
<1>1. PICK V : V = TreeWith(T, d, i, slot)
  OBVIOUS
<1>2. Indexed(T[d])
  BY DEF TreeTyped
<1>3. /\ DOMAIN V = DOMAIN T
      /\ \A e \in DOMAIN T : DOMAIN V[e] = DOMAIN T[e]
      /\ \A e \in DOMAIN T : \A j \in DOMAIN T[e] : V[e][j] = IF e = d /\ j = i THEN slot ELSE T[e][j]
  BY <1>1, <1>2, TreeWithIs
<1>4. DOMAIN U = Plus(DOMAIN T, x) /\ (\A e \in DOMAIN T : U[e] = V[e])
  BY <1>1 DEF Added
<1>5. ASSUME o.open PROVE o.dir \in DOMAIN U /\ o.index \in DOMAIN U[o.dir] /\ U[o.dir][o.index] = T[o.dir][o.index]
  <2>1. o.dir \in DOMAIN T /\ o.index \in DOMAIN T[o.dir]
    BY <1>5 DEF FileIs, Object, EntryIs, F!Closed
  <2> QED BY <2>1, <1>3, <1>4, <1>5 DEF Plus
<1>6. FileIs(U, o)
  BY <1>5, FileAt
<1> QED BY <1>4, <1>5, <1>6 DEF Plus

(* The new directory gets the cluster that was held for it. *)
LEMMA EnteredHeld ==
  ASSUME NEW l, NEW T, TreeTyped(T), NEW U, TreeTyped(U), NEW o, NEW b, NEW x, x # 0,
         Held(l, Holding(T, o, {}, x), Singles(T, Holding(T, o, {}, x))),
         b \in Entered(T), b \in Entered(U), EntryFirst(T, o, b) = 0,
         EntryFirst(U, o, b) = x, F!At(U, b).kind = "subdir",
         \A k : k # b => /\ (k \in Entered(U) <=> k \in Entered(T))
                         /\ (k \in Entered(T) => EntryFirst(U, o, k) = EntryFirst(T, o, k) /\ F!At(U, k).kind = F!At(T, k).kind)
  PROVE  Held(l, Holding(U, o, {}, 0), Singles(U, Holding(U, o, {}, 0)))
<1>1. PICK H : H = Holding(T, o, {}, x)
  OBVIOUS
<1>2. PICK H2 : H2 = Holding(U, o, {}, 0)
  OBVIOUS
<1>3. PICK S : S = Singles(T, H)
  OBVIOUS
<1>4. PICK S2 : S2 = Singles(U, H2)
  OBVIOUS
<1>5. Held(l, H, S)
  BY <1>1, <1>3
<1>6. /\ RootKey \in DOMAIN H /\ H[RootKey] = rootDirStart /\ NewKey \in DOMAIN H /\ H[NewKey] = x
      /\ \A k \in DOMAIN H : k = RootKey \/ k = NewKey \/ k \in Entered(T)
      /\ \A k \in Entered(T) : k \in DOMAIN H /\ H[k] = EntryFirst(T, o, k)
      /\ \A k \in DOMAIN H : k \in S <=> k # RootKey /\ k # NewKey /\ F!At(T, k).kind = "file"
  BY <1>1, <1>3, HoldingIs
<1>7. /\ RootKey \in DOMAIN H2 /\ H2[RootKey] = rootDirStart /\ NewKey \notin DOMAIN H2
      /\ \A k \in DOMAIN H2 : k = RootKey \/ k \in Entered(U)
      /\ \A k \in Entered(U) : k \in DOMAIN H2 /\ H2[k] = EntryFirst(U, o, k)
      /\ \A k \in DOMAIN H2 : k \in S2 <=> k # RootKey /\ k # NewKey /\ F!At(U, k).kind = "file"
  BY <1>2, <1>4, HoldingIs
<1>8. \A k \in Entered(T) : k # RootKey /\ k # NewKey
  BY EnteredKey
<1>9. \A k \in Entered(U) : k # RootKey /\ k # NewKey
  BY EnteredKey
<1>10. H[b] = 0 /\ H2[b] = x /\ b \in DOMAIN H /\ b \in DOMAIN H2 /\ b \notin S2
  BY <1>6, <1>7, <1>9
<1>11. ASSUME NEW j \in DOMAIN H2, j # b PROVE j \in DOMAIN H /\ H[j] = H2[j] /\ (j \in S2 => j \in S) /\ j # NewKey
  <2>1. CASE j = RootKey
    <3>1. RootKey # NewKey
      BY DEF RootKey, NewKey
    <3> QED BY <2>1, <3>1, <1>6, <1>7
  <2>2. CASE j \in Entered(U)
    <3>1. j \in Entered(T) /\ EntryFirst(U, o, j) = EntryFirst(T, o, j) /\ F!At(U, j).kind = F!At(T, j).kind
      BY <1>11, <2>2
    <3> QED BY <3>1, <2>2, <1>6, <1>7, <1>8
  <2> QED BY <2>1, <2>2, <1>7
<1>12. ASSUME NEW k \in DOMAIN H, k # b, k # NewKey PROVE k \in DOMAIN H2 /\ H2[k] = H[k]
  <2>1. CASE k = RootKey
    BY <2>1, <1>6, <1>7
  <2>2. CASE k \in Entered(T)
    <3>1. k \in Entered(U) /\ EntryFirst(U, o, k) = EntryFirst(T, o, k)
      BY <1>12, <2>2
    <3> QED BY <3>1, <2>2, <1>6, <1>7
  <2> QED BY <2>1, <2>2, <1>6, <1>12
<1>13. ASSUME NEW j \in DOMAIN H2, H2[j] # 0 PROVE \E k \in DOMAIN H : H[k] = H2[j] /\ (j \in S2 => k \in S)
  <2>1. CASE j = b
    BY <2>1, <1>6, <1>10
  <2>2. CASE j # b
    BY <2>2, <1>11
  <2> QED BY <2>1, <2>2
<1>14. ASSUME NEW k \in DOMAIN H, H[k] # 0 PROVE \E j \in DOMAIN H2 : H2[j] = H[k]
  <2>1. CASE k = NewKey
    BY <2>1, <1>6, <1>10
  <2>2. CASE k # NewKey
    <3>1. k # b
      BY <1>10, <1>14
    <3> QED BY <2>2, <3>1, <1>12
  <2> QED BY <2>1, <2>2
<1>15. ASSUME NEW i \in DOMAIN H2, NEW j \in DOMAIN H2, H2[i] = H2[j], H2[i] # 0 PROVE i = j
  <2>1. CASE i = b /\ j = b
    BY <2>1
  <2>2. CASE i = b /\ j # b
    <3>1. H[NewKey] = H[j] /\ j # NewKey /\ j \in DOMAIN H
      BY <2>2, <1>6, <1>10, <1>11, <1>15
    <3> QED BY <3>1, <1>5, <1>6 DEF Held
  <2>3. CASE i # b /\ j = b
    <3>1. H[NewKey] = H[i] /\ i # NewKey /\ i \in DOMAIN H
      BY <2>3, <1>6, <1>10, <1>11, <1>15
    <3> QED BY <3>1, <1>5, <1>6 DEF Held
  <2>4. CASE i # b /\ j # b
    BY <2>4, <1>5, <1>11, <1>15 DEF Held
  <2> QED BY <2>1, <2>2, <2>3, <2>4
<1>16. Held(l, H2, S2)
  BY <1>5, <1>13, <1>14, <1>15, HeldMoved
<1> QED BY <1>2, <1>4, <1>16

-----------------------------------------------------------------------------
WithThen(c, then) == [c EXCEPT !.then = then]
LEMMA WithThenIs ==
  ASSUME F!DirectoryAssumption, program \in FatPrograms, NEW c \in Calls, NEW t \in Steps, NEW u, u = WithThen(c, t)
  PROVE  u \in Calls /\ u.then = t /\ u.op = c.op /\ u.dir = c.dir /\ u.name = c.name /\ u.index = c.index /\ u.saved = c.saved
         /\ u.first = c.first /\ u.old = c.old
  BY DEF Calls, WithThen

LEMMA NewEntryKeeps ==
  ASSUME F!DirectoryAssumption, IInv, F!newEntry
  PROVE  IInv'
<1>0. /\ program \in FatPrograms /\ call \in Calls /\ file \in Objects /\ SetsP(T0, pc, call) /\ FileIs(T0, file)
      /\ PhaseOK(pc, T0, Inside, file, call, F!Contents, fatOnDevice, fat, m_sector) /\ TreeTyped(T0) /\ Good(fat)
      /\ kept \subseteq F!Cluster /\ (\A k \in DOMAIN at : at[k] \in F!Index) /\ Good(fatOnDevice) /\ HeldP(T0, fat, file, pc, call)
      /\ Sectored(F!Contents) /\ Later(fatOnDevice, fat, SettlingAt(pc))
  BY Now
<1>1. PICK d, i, x, slot : d = call.dir /\ i = call.index /\ x = call.first /\ slot = F!ShortEntry("subdir", call.sfn, call.first)
  OBVIOUS
<1>2. /\ program' = program /\ fatOnDevice' = fatOnDevice /\ fat' = fat /\ file' = file /\ at' = at /\ kept' = kept /\ pc = "newentry"
      /\ F!StoreEntry(d, i, slot) /\ pc' = "data" /\ call' = WithThen(call, "dots")
  BY <1>1 DEF F!newEntry, F!history, F!Goes, WithThen
<1>3. /\ NewdirOK(T0, Inside, file, call) /\ x \in F!Cluster \ DOMAIN T0 /\ F!Contents[x] = F!Zeroed /\ fat[x] = EOC
  BY <1>0, <1>1, <1>2, PhaseIs DEF NewentryOK
<1>4. x # 0 /\ x # rootDirStart
  <2>1. fat[x] # 0 /\ 0 \notin F!Cluster
    BY <1>0, <1>3, Setting
  <2>2. x = PendingAt(pc, call) /\ pc # "del" /\ x # 0
    BY <2>1, <1>1, <1>2, <1>3 DEF PendingAt
  <2>3. x \notin F!ChainSet(fat, 0) /\ 0 \in DOMAIN T0
    BY <2>2, <1>0, PendingIs DEF TreeTyped
  <2>4. rootDirStart \in F!ChainSet(fat, 0)
    BY <1>0, ChainSetIs DEF FirstOf
  <2> QED BY <2>2, <2>3, <2>4
<1>5. /\ CreateOK(T0, Inside, file, call) /\ CreatesDir(file, call) /\ MadeIs(T0, file, call, "file", 0)
  BY <1>3 DEF NewdirOK
<1>6. /\ d \in DOMAIN T0 /\ i \in DOMAIN T0[d] /\ T0[d][i].kind = "file" /\ T0[d][i].first = 0
      /\ (file.open => <<file.dir, file.index>> # <<d, i>>) /\ i >= F!freeNeed(call.name) - 1
  BY <1>1, <1>5 DEF CreateOK, MadeIs
<1>7. slot \in SlotType /\ slot.kind = "subdir" /\ slot.first = x
  <2>1. call.sfn \in ShortNames \cup F!LongSfns /\ call.sfn \in Name /\ Basis \in Name /\ 0 \in 0 .. LfnEntries
    BY <1>0, Setting DEF Calls, Name
  <2> QED BY <2>1, <1>1, <1>3, <1>4 DEF F!ShortEntry, F!Slot, SlotType, Kinds, F!isFatFileOrSubdir
<1>8. /\ GoneAt(pc, call) = {} /\ PendingAt(pc, call) = x /\ DevXAt(pc, call) = {} /\ SettlingAt(pc) = FALSE /\ RawAt(pc, call) = {}
      /\ Building(pc, call) = {}
  BY <1>1, <1>2, BuildingNone DEF GoneAt, PendingAt, DevXAt, SettlingAt, RawAt, PhaseOf
<1>9. FreeTail(T0, {}) /\ DotKinds(T0, {})
  BY <1>0, <1>8 DEF SetsP
<1>10. PICK u : u = call' /\ u = WithThen(call, "dots")
  BY <1>2
<1>11. u \in Calls /\ u.then = "dots" /\ u.op = call.op /\ u.dir = d /\ u.name = call.name /\ u.index = i /\ u.saved = call.saved
       /\ u.first = x
  <2>1. "dots" \in Steps
    BY DEF Steps
  <2> QED BY <2>1, <1>0, <1>1, <1>10, WithThenIs
<1>12. PICK U : U = T0'
  OBVIOUS
<1>13. /\ VolumeNext /\ View(F!Contents', fat') /\ TreeTyped(U) /\ Added(T0, U, d, i, slot, x)
       /\ \A y \in DOMAIN T0 : d \notin Below(F!Contents, fat, y) => Below(F!Contents', fat', y) = Below(F!Contents, fat, y)
  <2>1. x = PendingAt(pc, call) /\ pc # "del"
    BY <1>2, <1>8
  <2> QED BY <2>1, <1>2, <1>3, <1>4, <1>6, <1>7, <1>12, AddedTree
<1>14. PICK b : b = <<d, i>>
  OBVIOUS
<1>15. F!isFatFileOrSubdir(slot)
  BY <1>7 DEF F!isFatFileOrSubdir
<1>16. /\ Entered(U) = Plus(Entered(T0), b) /\ SameBut(T0, U, b) /\ F!At(U, b) = slot
       /\ d \in DOMAIN U /\ DOMAIN U[d] = DOMAIN T0[d] /\ U[d][i] = slot /\ EmptyDir(U, x)
  BY <1>0, <1>6, <1>13, <1>14, <1>15, AddedEntries
<1>17. FreeTail(U, {}) /\ DotKinds(U, {x})
  <2>1. Indexed(T0[d]) /\ NoneBehind(T0[d]) /\ T0[d][i].kind \notin {"free", "lfn"} /\ T0[d][i].kind \notin {"dot", "dotdot"}
    BY <1>0, <1>6 DEF TreeTyped
  <2>2. ClearBefore(T0[d], i)
    BY <2>1, <1>6, UsedClear
  <2>3. slot.kind # "free"
    BY <1>7
  <2> QED BY <2>1, <2>2, <2>3, <1>0, <1>6, <1>9, <1>13, AddedSets
<1>18. FileIs(U, file) /\ (file.open => U[file.dir][file.index] = T0[file.dir][file.index]) /\ DOMAIN T0 \subseteq DOMAIN U
  BY ZenonT(60), <1>0, <1>6, <1>13, AddedFile
<1>19. GoneAt("data", u) = {} /\ PendingAt("data", u) = 0 /\ RawAt("data", u) = {x} /\ Building("data", u) = {} /\ SettlingAt("data") = TRUE
  BY <1>11, BuildingNone DEF GoneAt, PendingAt, RawAt, PhaseOf, SettlingAt
<1>20. HeldP(U, fat, file, "data", u)
  <2>1. Held(fat, Holding(T0, file, {}, x), Singles(T0, Holding(T0, file, {}, x)))
    BY <1>0, <1>8 DEF HeldP, HoldsP
  <2>2. b \in Entered(T0) /\ b \in Entered(U)
    <3>1. b = <<b[1], b[2]>> /\ b[1] = d /\ b[2] = i /\ i \in UsedOf(T0[d])
      BY <1>6, <1>14 DEF UsedOf, InUse, F!isFatFileOrSubdir
    <3>2. b \in Entered(T0)
      BY <3>1, <1>6, EnteredIs
    <3> QED BY <3>2, <1>16 DEF Plus
  <2>3. EntryFirst(T0, file, b) = 0 /\ EntryFirst(U, file, b) = x /\ F!At(U, b).kind = "subdir"
    <3>1. F!At(T0, b).first = 0 /\ F!At(U, b).first = x
      BY <1>6, <1>7, <1>14, <1>16 DEF F!At
    <3> QED BY <3>1, <1>6, <1>7, <1>14, <1>16 DEF EntryFirst
  <2>4. ASSUME NEW k, k # b
        PROVE  /\ (k \in Entered(U) <=> k \in Entered(T0))
               /\ (k \in Entered(T0) => EntryFirst(U, file, k) = EntryFirst(T0, file, k) /\ F!At(U, k).kind = F!At(T0, k).kind)
    BY <2>4, <1>16 DEF EntryFirst, SameBut, Plus
  <2>5. Held(fat, Holding(U, file, {}, 0), Singles(U, Holding(U, file, {}, 0)))
    BY <2>1, <2>2, <2>3, <2>4, <1>0, <1>4, <1>13, EnteredHeld
  <2> QED BY <2>5, <1>19 DEF HeldP, HoldsP
<1>21. SetsP(U, "data", u)
  BY <1>17, <1>19 DEF SetsP
<1>22. PICK B2 : B2 = Inside'
  OBVIOUS
<1>23. call.op = "rename" /\ file.isDir => B2 = Inside
  <2>1. SUFFICES ASSUME call.op = "rename", file.isDir PROVE B2 = Inside
    OBVIOUS
  <2>2. file.open /\ d \notin Inside
    BY <2>1, <1>1, <1>5 DEF CreateOK, RenameOK
  <2>3. file.first \in DOMAIN T0
    BY <2>1, <2>2, InsideWithin
  <2>4. Below(F!Contents', fat', file.first) = Below(F!Contents, fat, file.first)
    BY <2>2, <2>3, <1>13 DEF Inside
  <2>5. Inside' = Below(F!Contents', fat', file.first)
    BY <1>2, PrimedInside
  <2> QED BY <2>4, <2>5, <1>22 DEF Inside
<1>24. DotsOK(U, B2, file, u)
  <2>1. CreateOK(U, B2, file, u)
    BY <1>1, <1>5, <1>11, <1>16, <1>18, <1>23 DEF CreateOK, RenameOK
  <2>2. CreatesDir(file, u)
    BY <1>5, <1>11 DEF CreatesDir
  <2>3. MadeIs(U, file, u, "subdir", x)
    BY <1>6, <1>7, <1>11, <1>16 DEF MadeIs
  <2> QED BY <2>1, <2>2, <2>3, <1>4, <1>11, <1>16 DEF DotsOK
<1>25. PhaseOK("data", U, B2, file, u, F!Contents', fatOnDevice', fat', m_sector')
  <2>1. SyncGoal(U, B2, file, u)
    BY <1>11, <1>24 DEF SyncGoal
  <2> QED BY <2>1, PhaseSync
<1>26. device' = F!Contents \/ device' = device
  BY <1>2, <1>6, <1>7, EntryStored
<1>27. View(device', fatOnDevice') /\ Below(device', fatOnDevice', 0) \subseteq DOMAIN U
  BY <1>2, <1>8, <1>18, <1>26, DeviceKept
<1>28. Later(fatOnDevice', fat', SettlingAt(pc')) /\ Good(fat') /\ Good(fatOnDevice')
  <2>1. Later(fatOnDevice, fat, TRUE)
    BY <1>0, <1>8, LaterSettling
  <2> QED BY <2>1, <1>0, <1>2, <1>19
<1>29. HeldP(T0', fat', file', pc', call') /\ SetsP(T0', pc', call') /\ FileIs(T0', file')
         /\ PhaseOK(pc', T0', Inside', file', call', F!Contents', fatOnDevice', fat', m_sector')
  BY <1>2, <1>10, <1>12, <1>18, <1>20, <1>21, <1>22, <1>25
<1>30. Below(device', fatOnDevice', 0) \subseteq DOMAIN T0' \cup DevXAt(pc', call')
  BY <1>12, <1>27
<1>31. call' \in Calls /\ file' \in Objects /\ (\A k \in DOMAIN at' : at'[k] \in F!Index) /\ kept' \subseteq F!Cluster
  BY <1>0, <1>2, <1>10, <1>11
<1> QED BY <1>0, <1>2, <1>13, <1>27, <1>28, <1>29, <1>30, <1>31, IInvNext

-----------------------------------------------------------------------------
(* Two entries of the first sector of a directory are changed at once. *)
TwoWith(s, s0, s1) == With(With(s, 0, s0), 1, s1)
LEMMA FirstSector ==
  ASSUME F!DirectoryAssumption, program \in FatPrograms, NEW l, NEW d \in F!Cluster \cup {0}, NEW r \in 0 .. F!EntriesPerSector - 1
  PROVE  r \in 0 .. SizeOf(l, d) - 1 /\ SectorAt(l, d, r) = FirstOf(d) /\ r % F!EntriesPerSector = r
<1>1. Len(F!Chain(l, d)) \in 1 .. F!MaxDirSectors /\ F!Chain(l, d)[1] = FirstOf(d)
  BY ChainIs DEF IsChain
<1>2. F!MaxDirSectors \in Nat /\ F!EntriesPerSector \in Nat /\ 1 \in 1 .. Len(F!Chain(l, d))
  BY <1>1, Setting
<1>3. PICK i : i = F!EntriesPerSector * (1 - 1) + r
  OBVIOUS
<1>4. i = r
  BY <1>2, <1>3
<1>5. i \in 0 .. SizeOf(l, d) - 1 /\ SectorAt(l, d, i) = F!Chain(l, d)[1] /\ i % F!EntriesPerSector = r
  BY <1>2, <1>3, PlaceIndex
<1> QED BY <1>1, <1>4, <1>5

Twice(sector, s0, s1) == [sector EXCEPT ![0] = s0, ![1] = s1]
Replaced(c, x, content) == [c EXCEPT ![x] = content]
LEMMA SlotsTwo ==
  ASSUME F!DirectoryAssumption, program \in FatPrograms, NEW c, Sectored(c), NEW l, Good(l),
         NEW x \in F!Cluster, x # 0, x \notin Targets(l), NoneData(F!ChainSet(l, x), c),
         NEW s0 \in SlotType, NEW s1 \in SlotType, NEW content, content = Twice(c[x], s0, s1),
         NEW c2, c2 = Replaced(c, x, content)
  PROVE  /\ F!Slots(c2, l, x) = TwoWith(F!Slots(c, l, x), s0, s1) /\ content \in DirSector
         /\ Sectored(c2) /\ c2[x] # F!Data /\ \A y \in F!Cluster : y # x => c2[y] = c[y]
<1>0. FirstOf(x) = x /\ x \in F!Cluster \cup {0} /\ x \in F!ChainSet(l, x)
  BY ChainSetIs DEF FirstOf
<1>1. 0 \in 0 .. F!EntriesPerSector - 1 /\ 1 \in 0 .. F!EntriesPerSector - 1
  BY Setting
<1>2. 0 \in 0 .. SizeOf(l, x) - 1 /\ SectorAt(l, x, 0) = x /\ 0 % F!EntriesPerSector = 0
  BY <1>0, <1>1, FirstSector
<1>3. 1 \in 0 .. SizeOf(l, x) - 1 /\ SectorAt(l, x, 1) = x /\ 1 % F!EntriesPerSector = 1
  BY <1>0, <1>1, FirstSector
<1>4. PICK c1 : c1 = Stored(c, l, x, 0, s0)
  OBVIOUS
<1>5. /\ Sectored(c1) /\ F!Slots(c1, l, x) = With(F!Slots(c, l, x), 0, s0)
      /\ \A y \in F!Cluster : y # x => c1[y] = c[y]
      /\ c1[x] # F!Data
  <2>1. FirstOf(x) \notin Targets(l)
    BY <1>0
  <2> QED BY <2>1, <1>0, <1>2, <1>4, SlotsStored
<1>6. NoneData(F!ChainSet(l, x), c1)
  BY <1>0, <1>5, ChainSetIs DEF NoneData
<1>7. PICK c3 : c3 = Stored(c1, l, x, 1, s1)
  OBVIOUS
<1>8. /\ Sectored(c3) /\ F!Slots(c3, l, x) = With(F!Slots(c1, l, x), 1, s1)
      /\ \A y \in F!Cluster : y # x => c3[y] = c1[y]
      /\ c3[x] # F!Data
  <2>1. FirstOf(x) \notin Targets(l)
    BY <1>0
  <2> QED BY <2>1, <1>0, <1>3, <1>5, <1>6, <1>7, SlotsStored
<1>9. c1 = [c EXCEPT ![x] = [c[x] EXCEPT ![0] = s0]]
  BY <1>2, <1>4 DEF Stored
<1>10. c3 = [c1 EXCEPT ![x] = [c1[x] EXCEPT ![1] = s1]]
  BY <1>3, <1>7 DEF Stored
<1>11. c \in [F!Cluster -> DirSector \cup {F!Data}] /\ c1[x] = [c[x] EXCEPT ![0] = s0]
  BY <1>9 DEF Sectored
<1>12. content = [c1[x] EXCEPT ![1] = s1]
  BY <1>11 DEF Twice
<1>13. c3 = c2
  BY <1>9, <1>10, <1>11, <1>12 DEF Replaced
<1>14. content \in DirSector
  <2>1. c[x] \in DirSector
    BY <1>0, <1>11 DEF NoneData
  <2> QED BY <2>1, <1>1 DEF DirSector, Twice
<1> QED BY <1>5, <1>8, <1>13, <1>14 DEF TwoWith

LEMMA TwoWithIs ==
  ASSUME NEW s, DirSlots(s), NEW s0, NEW s1
  PROVE  /\ DOMAIN TwoWith(s, s0, s1) = DOMAIN s /\ LenOf(TwoWith(s, s0, s1)) = LenOf(s) /\ Indexed(TwoWith(s, s0, s1))
         /\ Indexed(s) /\ 0 \in DOMAIN s /\ 1 \in DOMAIN s
         /\ \A j \in DOMAIN s : TwoWith(s, s0, s1)[j] = IF j = 0 THEN s0 ELSE IF j = 1 THEN s1 ELSE s[j]
<1>1. Indexed(s) /\ 0 \in DOMAIN s /\ 1 \in DOMAIN s
  BY DEF DirSlots, Indexed
<1>2. PICK t : t = With(s, 0, s0)
  OBVIOUS
<1>3. /\ DOMAIN t = DOMAIN s /\ LenOf(t) = LenOf(s) /\ Indexed(t)
      /\ \A j \in DOMAIN s : t[j] = IF j = 0 THEN s0 ELSE s[j]
  BY <1>1, <1>2, WithIs
<1>4. PICK u : u = With(t, 1, s1)
  OBVIOUS
<1>5. /\ DOMAIN u = DOMAIN t /\ LenOf(u) = LenOf(t) /\ Indexed(u)
      /\ \A j \in DOMAIN t : u[j] = IF j = 1 THEN s1 ELSE t[j]
  BY <1>1, <1>3, <1>4, WithIs
<1>6. TwoWith(s, s0, s1) = u
  BY <1>2, <1>4 DEF TwoWith
<1> QED BY <1>1, <1>3, <1>5, <1>6

(* The new tree with such a directory. *)
Dotted(T, U, x) ==
  /\ DOMAIN U = DOMAIN T /\ (\A e \in DOMAIN T : e # x => U[e] = T[e])
  /\ DOMAIN U[x] = DOMAIN T[x] /\ U[x][0].kind = "dot" /\ U[x][1].kind = "dotdot"
  /\ (\A j \in DOMAIN T[x] : j # 0 /\ j # 1 => U[x][j] = T[x][j])
  /\ EmptyDir(T, x) /\ EmptyDir(U, x)
LEMMA DottedEntries ==
  ASSUME NEW T, NEW U, NEW x, Dotted(T, U, x)
  PROVE  Entered(U) = Entered(T) /\ \A k \in Entered(T) : F!At(U, k) = F!At(T, k) /\ k[1] # x
<1>0. DOMAIN U = DOMAIN T /\ (\A e \in DOMAIN T : e # x => U[e] = T[e]) /\ EmptyDir(T, x) /\ EmptyDir(U, x)
  BY DEF Dotted
<1>1. UsedOf(T[x]) = {} /\ UsedOf(U[x]) = {}
  BY <1>0 DEF EmptyDir, UsedOf
<1>2. ASSUME NEW k PROVE k \in Entered(U) <=> k \in Entered(T)
  <2>2. k \in Entered(T) <=> k = <<k[1], k[2]>> /\ k[1] \in DOMAIN T /\ k[2] \in UsedOf(T[k[1]])
    BY EnteredIs
  <2>3. k \in Entered(U) <=> k = <<k[1], k[2]>> /\ k[1] \in DOMAIN U /\ k[2] \in UsedOf(U[k[1]])
    BY EnteredIs
  <2>4. CASE k[1] = x
    BY <2>2, <2>3, <2>4, <1>1
  <2>5. CASE k[1] # x
    BY <2>2, <2>3, <2>5, <1>0
  <2> QED BY <2>4, <2>5
<1>3. ASSUME NEW k \in Entered(T) PROVE F!At(U, k) = F!At(T, k) /\ k[1] # x
  <2>1. k[1] \in DOMAIN T /\ k[2] \in UsedOf(T[k[1]])
    BY EnteredIs
  <2>2. k[1] # x
    BY <2>1, <1>1
  <2> QED BY <2>1, <2>2, <1>0 DEF F!At
<1>4. Entered(U) = Entered(T)
  BY <1>2
<1> QED BY <1>3, <1>4

LEMMA DottedSets ==
  ASSUME NEW T, TreeTyped(T), NEW U, NEW x, Dotted(T, U, x), NEW raw, FreeTail(T, {}), DotKinds(T, raw), raw \subseteq {x}
  PROVE  FreeTail(U, {}) /\ DotKinds(U, {})
<1>0. /\ DOMAIN U = DOMAIN T /\ (\A e \in DOMAIN T : e # x => U[e] = T[e])
      /\ DOMAIN U[x] = DOMAIN T[x] /\ U[x][0].kind = "dot" /\ U[x][1].kind = "dotdot"
      /\ (\A j \in DOMAIN T[x] : j # 0 /\ j # 1 => U[x][j] = T[x][j])
  BY DEF Dotted
<1>1. DotKinds(U, {})
  <2>1. \A e \in DOMAIN U : e = 0 \/ (U[e][0].kind = "dot" /\ U[e][1].kind = "dotdot")
    BY <1>0 DEF DotKinds
  <2> QED BY <2>1 DEF DotKinds
<1>2. ASSUME NEW e \in DOMAIN U, NEW i \in DOMAIN U[e], NEW j \in DOMAIN U[e], i < j, U[e][i].kind = "free"
      PROVE  U[e][j].kind = "free"
  <2>1. CASE e # x
    BY <2>1, <1>0, <1>2 DEF FreeTail
  <2>2. CASE e = x
    <3>1. i \in DOMAIN T[x] /\ j \in DOMAIN T[x] /\ i \in Nat /\ j \in Nat
      BY SMTT(60), <2>2, <1>0, <1>2 DEF TreeTyped, DirSlots
    <3>2. i # 0 /\ i # 1
      BY <2>2, <1>0, <1>2
    <3>3. j # 0 /\ j # 1
      BY <3>1, <3>2, <1>2
    <3>4. U[x][i] = T[x][i] /\ U[x][j] = T[x][j]
      BY <3>1, <3>2, <3>3, <1>0
    <3>5. T[x][j].kind = "free"
      BY <3>1, <3>4, <2>2, <1>0, <1>2 DEF FreeTail
    <3> QED BY <3>4, <3>5, <2>2
  <2> QED BY <2>1, <2>2
<1>3. FreeTail(U, {})
  BY <1>2 DEF FreeTail
<1> QED BY <1>1, <1>3

LEMMA DottedFile ==
  ASSUME NEW T, NEW U, NEW x, Dotted(T, U, x), NEW o, FileIs(T, o)
  PROVE  FileIs(U, o) /\ (o.open => U[o.dir][o.index] = T[o.dir][o.index] /\ o.dir # x)
<1>0. DOMAIN U = DOMAIN T /\ (\A e \in DOMAIN T : e # x => U[e] = T[e]) /\ EmptyDir(T, x)
  BY DEF Dotted
<1>1. ASSUME o.open
      PROVE  o.dir \in DOMAIN U /\ o.index \in DOMAIN U[o.dir] /\ U[o.dir][o.index] = T[o.dir][o.index] /\ o.dir # x
  <2>1. o.dir \in DOMAIN T /\ o.index \in DOMAIN T[o.dir] /\ InUse(T[o.dir], o.index)
    BY <1>1 DEF FileIs, Object, EntryIs, F!Closed, InUse, F!isFatFileOrSubdir
  <2>2. o.dir # x
    BY <2>1, <1>0 DEF EmptyDir
  <2> QED BY <2>1, <2>2, <1>0
<1>2. FileIs(U, o)
  BY <1>1, FileAt
<1> QED BY <1>1, <1>2

LEMMA DottedTree ==
  ASSUME F!DirectoryAssumption, IInv, program' = program, fat' = fat, NEW x \in DOMAIN T0, x # 0, EmptyDir(T0, x),
         pc # "del", NEW s0 \in SlotType, NEW s1 \in SlotType, s0.kind = "dot", s1.kind = "dotdot",
         F!Store(x, [F!Contents[x] EXCEPT ![0] = s0, ![1] = s1])
  PROVE  /\ VolumeNext /\ View(F!Contents', fat') /\ TreeTyped(T0') /\ Dotted(T0, T0', x)
         /\ device' = F!Contents \/ device' = device
         /\ \A y \in DOMAIN T0 : Below(F!Contents', fat', y) = Below(F!Contents, fat, y)
<1>0. /\ TreeTyped(T0) /\ T0 = F!Tree(F!Contents, fat, 0) /\ Sectored(F!Contents) /\ program \in FatPrograms /\ View(F!Contents, fat) /\ Good(fat)
  BY Now
<1>1. DOMAIN T0 = Below(F!Contents, fat, 0)
      /\ \A e \in DOMAIN T0 : e \in F!Cluster \cup {0} /\ T0[e] = F!Slots(F!Contents, fat, e) /\ DirSlots(T0[e]) /\ Indexed(T0[e])
                              /\ NoneBehind(T0[e]) /\ NoneData(F!ChainSet(fat, e), F!Contents)
                              /\ Subs(F!Contents, fat, e) = SubdirsOf(T0[e])
  BY <1>0, TreeClosed DEF TreeTyped
<1>2. x \in F!Cluster /\ FirstOf(x) = x /\ x \notin Targets(fat) /\ x \in F!ChainSet(fat, x)
  <2>1. x \in F!Cluster /\ FirstOf(x) = x
    BY <1>1 DEF FirstOf
  <2>2. x \notin Targets(fat)
    BY <2>1, DirHeld
  <2> QED BY <2>1, <2>2, <1>0, ChainSetIs
<1>3. PICK content : content = Twice(F!Contents[x], s0, s1)
  OBVIOUS
<1>4. PICK c2 : c2 = Replaced(F!Contents, x, content)
  OBVIOUS
<1>5. /\ F!Slots(c2, fat, x) = TwoWith(F!Slots(F!Contents, fat, x), s0, s1) /\ content \in DirSector
      /\ Sectored(c2) /\ c2[x] # F!Data /\ \A y \in F!Cluster : y # x => c2[y] = F!Contents[y]
  BY <1>0, <1>1, <1>2, <1>3, <1>4, SlotsTwo
<1>6. VolumeNext /\ F!Contents' = c2 /\ (device' = F!Contents \/ device' = device)
  BY <1>2, <1>3, <1>4, <1>5, StoreIs DEF Twice, Replaced
<1>7. PICK W : W = TwoWith(T0[x], s0, s1)
  OBVIOUS
<1>8. F!Slots(c2, fat, x) = W
  BY <1>1, <1>5, <1>7
<1>9. /\ DOMAIN W = DOMAIN T0[x] /\ Indexed(W) /\ 0 \in DOMAIN T0[x] /\ 1 \in DOMAIN T0[x]
      /\ \A j \in DOMAIN T0[x] : W[j] = IF j = 0 THEN s0 ELSE IF j = 1 THEN s1 ELSE T0[x][j]
  BY <1>1, <1>7, TwoWithIs
<1>10. \A j \in DOMAIN T0[x] : j \in Nat /\ ~InUse(T0[x], j)
  BY <1>1 DEF EmptyDir, Indexed
<1>11. \A j \in DOMAIN W : ~InUse(W, j)
  BY <1>9, <1>10 DEF InUse, F!isFatFileOrSubdir
<1>12. NoneBehind(W)
  <2>1. SUFFICES ASSUME NEW i \in DOMAIN W, NEW j \in DOMAIN W, i < j, W[i].kind = "free" PROVE W[j].kind \in {"free", "lfn"}
    BY DEF NoneBehind
  <2>2. i # 0 /\ i # 1 /\ W[i] = T0[x][i]
    BY <2>1, <1>9
  <2>3. j # 0 /\ j # 1 /\ W[j] = T0[x][j]
    BY <2>1, <2>2, <1>9, <1>10
  <2> QED BY <2>1, <2>2, <2>3, <1>1, <1>9 DEF NoneBehind
<1>13. SubdirsOf(W) = {} /\ SubdirsOf(T0[x]) = {}
  BY <1>10, <1>11 DEF SubdirsOf, UsedOf
<1>14. ASSUME NEW e \in DOMAIN T0, e # x PROVE F!Slots(c2, fat, e) = T0[e] /\ AgreeOn(F!ChainSet(fat, e), F!Contents, c2)
  <2>1. F!ChainSet(fat, e) \cap F!ChainSet(fat, x) = {}
    BY <1>14, DirsApart
  <2>2. F!ChainSet(fat, e) \subseteq F!Cluster
    BY <1>0, <1>1, ChainSetIs
  <2>3. AgreeOn(F!ChainSet(fat, e), F!Contents, c2)
    BY <2>1, <2>2, <1>2, <1>5 DEF AgreeOn
  <2>4. F!Slots(c2, fat, e) = F!Slots(F!Contents, fat, e)
    BY <2>3, <1>0, <1>1, SlotsAgree
  <2> QED BY <2>3, <2>4, <1>1
<1>15. ASSUME NEW e \in DOMAIN T0 PROVE Subs(c2, fat, e) = Subs(F!Contents, fat, e) /\ NoneBehind(F!Slots(c2, fat, e))
  <2>1. CASE e = x
    <3>1. Subs(c2, fat, x) = SubdirsOf(W)
      BY <1>0, <1>2, <1>8, <1>12, SubsIs
    <3> QED BY <2>1, <3>1, <1>1, <1>8, <1>12, <1>13
  <2>2. CASE e # x
    BY <2>2, <1>1, <1>14 DEF Subs
  <2> QED BY <2>1, <2>2
<1>16. ASSUME NEW y \in DOMAIN T0
       PROVE  Below(c2, fat, y) = Below(F!Contents, fat, y) /\ F!Tree(c2, fat, y) = TreeOn(c2, fat, Below(F!Contents, fat, y))
  <2>1. Below(F!Contents, fat, y) \subseteq DOMAIN T0
    BY <1>0, <1>1, BelowWithin
  <2>2. y \in F!Cluster \cup {0} /\ \A e \in Below(F!Contents, fat, y) : Subs(c2, fat, e) = Subs(F!Contents, fat, e)
    BY <2>1, <1>1, <1>15
  <2> QED BY <2>2, <1>0, <1>5, TreeKept
<1>17. 0 \in DOMAIN T0
  BY <1>0 DEF TreeTyped
<1>18. T0' = F!Tree(c2, fat, 0)
  BY <1>6, PrimedTree
<1>19. DOMAIN T0' = DOMAIN T0 /\ \A e \in DOMAIN T0 : T0'[e] = F!Slots(c2, fat, e)
  BY <1>1, <1>16, <1>17, <1>18 DEF TreeOn
<1>20. View(c2, fat)
  <2>1. ASSUME NEW e \in DOMAIN T0 PROVE NoneData(F!ChainSet(fat, e), c2)
    <3>1. CASE e = x
      <4>1. F!ChainSet(fat, x) \subseteq F!Cluster
        BY <1>0, <1>2, ChainSetIs
      <4> QED BY <3>1, <4>1, <1>1, <1>5 DEF NoneData
    <3>2. CASE e # x
      BY <3>2, <1>1, <1>14 DEF NoneData, AgreeOn
    <3> QED BY <3>1, <3>2
  <2>2. Below(c2, fat, 0) = DOMAIN T0
    BY <1>1, <1>16, <1>17
  <2> QED BY <2>1, <2>2, <1>15 DEF View
<1>21. TreeTyped(T0')
  BY <1>0, <1>5, <1>18, <1>20, ViewTree
<1>22. Dotted(T0, T0', x)
  <2>1. PICK U : U = T0'
    OBVIOUS
  <2>2. DOMAIN U = DOMAIN T0 /\ U[x] = W /\ (\A e \in DOMAIN T0 : e # x => U[e] = T0[e])
    BY <2>1, <1>8, <1>14, <1>19
  <2>3. EmptyDir(U, x)
    BY <2>2, <1>11 DEF EmptyDir, InUse
  <2>4. Dotted(T0, U, x)
    BY <2>2, <2>3, <1>9 DEF Dotted
  <2> QED BY <2>1, <2>4
<1> QED BY <1>6, <1>16, <1>20, <1>21, <1>22

-----------------------------------------------------------------------------
LEMMA NewDotsKeeps ==
  ASSUME F!DirectoryAssumption, IInv, F!newDots
  PROVE  IInv'
<1>0. /\ program \in FatPrograms /\ call \in Calls /\ file \in Objects /\ SetsP(T0, pc, call) /\ FileIs(T0, file)
      /\ PhaseOK(pc, T0, Inside, file, call, F!Contents, fatOnDevice, fat, m_sector) /\ TreeTyped(T0) /\ Good(fat)
      /\ kept \subseteq F!Cluster /\ (\A k \in DOMAIN at : at[k] \in F!Index) /\ Good(fatOnDevice) /\ HeldP(T0, fat, file, pc, call)
      /\ Sectored(F!Contents) /\ Later(fatOnDevice, fat, SettlingAt(pc))
  BY Now
<1>1. PICK x, s0, s1, then : /\ x = call.first /\ s0 = F!Slot("dot", Basis, 0, Basis, call.first)
                             /\ s1 = F!Slot("dotdot", Basis, 0, Basis, call.dir) /\ then = (IF call.op = "mkdir" THEN "idle" ELSE "copy")
  OBVIOUS
<1>2. /\ program' = program /\ fatOnDevice' = fatOnDevice /\ fat' = fat /\ file' = file /\ at' = at /\ kept' = kept /\ pc = "dots"
      /\ F!Store(x, [F!Contents[x] EXCEPT ![0] = s0, ![1] = s1]) /\ pc' = "data" /\ call' = WithThen(call, then)
  BY <1>1 DEF F!newDots, F!history, F!Goes, WithThen
<1>3. DotsOK(T0, Inside, file, call)
  BY <1>0, <1>2, PhaseIs
<1>4. /\ CreateOK(T0, Inside, file, call) /\ CreatesDir(file, call) /\ MadeIs(T0, file, call, "subdir", x) /\ EmptyDir(T0, x) /\ x # 0
      /\ x \in DOMAIN T0
  BY <1>1, <1>3 DEF DotsOK, EmptyDir
<1>5. s0 \in SlotType /\ s1 \in SlotType /\ s0.kind = "dot" /\ s1.kind = "dotdot"
  <2>1. Basis \in Name /\ 0 \in 0 .. LfnEntries /\ x \in F!Cluster \cup {0} /\ call.dir \in F!Cluster \cup {0}
    BY <1>0, <1>1, Setting DEF Calls, Name
  <2> QED BY <2>1, <1>1 DEF F!Slot, SlotType, Kinds, F!isFatFileOrSubdir
<1>6. /\ GoneAt(pc, call) = {} /\ PendingAt(pc, call) = 0 /\ DevXAt(pc, call) = {} /\ SettlingAt(pc) = FALSE /\ RawAt(pc, call) = {x}
      /\ Building(pc, call) = {}
  BY <1>1, <1>2, BuildingNone DEF GoneAt, PendingAt, DevXAt, SettlingAt, RawAt, PhaseOf
<1>7. FreeTail(T0, {}) /\ DotKinds(T0, {x})
  BY <1>0, <1>6 DEF SetsP
<1>8. PICK u : u = call' /\ u = WithThen(call, then)
  BY <1>2
<1>9. u \in Calls /\ u.then = then /\ u.op = call.op /\ u.dir = call.dir /\ u.name = call.name /\ u.index = call.index /\ u.saved = call.saved
      /\ u.first = x
  <2>1. then \in Steps
    BY <1>1 DEF Steps
  <2> QED BY <2>1, <1>0, <1>1, <1>8, WithThenIs
<1>10. PICK U : U = T0'
  OBVIOUS
<1>11. /\ VolumeNext /\ View(F!Contents', fat') /\ TreeTyped(U) /\ Dotted(T0, U, x)
       /\ device' = F!Contents \/ device' = device
       /\ \A y \in DOMAIN T0 : Below(F!Contents', fat', y) = Below(F!Contents, fat, y)
  <2>1. pc # "del"
    BY <1>2
  <2> QED BY <2>1, <1>2, <1>4, <1>5, <1>10, DottedTree
<1>12. Entered(U) = Entered(T0) /\ \A k \in Entered(T0) : F!At(U, k) = F!At(T0, k)
  BY <1>11, DottedEntries
<1>13. FreeTail(U, {}) /\ DotKinds(U, {})
  <2>1. PICK raw : raw = {x}
    OBVIOUS
  <2> QED BY <2>1, <1>0, <1>7, <1>11, DottedSets
<1>14. FileIs(U, file) /\ (file.open => U[file.dir][file.index] = T0[file.dir][file.index])
  BY <1>0, <1>11, DottedFile
<1>15. GoneAt("data", u) = {} /\ PendingAt("data", u) = 0 /\ RawAt("data", u) = {} /\ Building("data", u) = {} /\ SettlingAt("data") = TRUE
  <2>1. u.then # "dots"
    BY <1>1, <1>9
  <2> QED BY <2>1, BuildingNone DEF GoneAt, PendingAt, RawAt, PhaseOf, SettlingAt
<1>16. HeldP(U, fat, file, "data", u)
  <2>1. Held(fat, Holding(T0, file, {}, 0), Singles(T0, Holding(T0, file, {}, 0)))
    BY <1>0, <1>6 DEF HeldP, HoldsP
  <2>2. Holding(U, file, {}, 0) = Holding(T0, file, {}, 0)
        /\ Singles(U, Holding(U, file, {}, 0)) = Singles(T0, Holding(T0, file, {}, 0))
    BY <1>0, <1>11, <1>12, HeldSameTree
  <2> QED BY <2>1, <2>2, <1>15 DEF HeldP, HoldsP
<1>17. SetsP(U, "data", u)
  BY <1>13, <1>15 DEF SetsP
<1>18. PICK B2 : B2 = Inside'
  OBVIOUS
<1>19. call.op = "rename" /\ file.isDir => B2 = Inside
  <2>1. SUFFICES ASSUME call.op = "rename", file.isDir PROVE B2 = Inside
    OBVIOUS
  <2>2. file.open
    BY <2>1, <1>4 DEF CreateOK, RenameOK
  <2>3. file.first \in DOMAIN T0
    BY <2>1, <2>2, InsideWithin
  <2>4. Below(F!Contents', fat', file.first) = Below(F!Contents, fat, file.first)
    BY <2>3, <1>11
  <2>5. Inside' = Below(F!Contents', fat', file.first)
    BY <1>2, PrimedInside
  <2> QED BY <2>4, <2>5, <1>18 DEF Inside
<1>20. PhaseOK("data", U, B2, file, u, F!Contents', fatOnDevice', fat', m_sector')
  <2>1. CASE call.op = "mkdir"
    <3>1. SyncGoal(U, B2, file, u)
      BY <2>1, <1>1, <1>9 DEF SyncGoal
    <3> QED BY <3>1, PhaseSync
  <2>2. CASE call.op = "rename" /\ file.isDir
    <3>1. DOMAIN U = DOMAIN T0 /\ call.dir \in DOMAIN T0 /\ call.dir # x
      <4>1. call.dir \in DOMAIN T0 /\ InUse(T0[call.dir], call.index) /\ call.index \in DOMAIN T0[call.dir]
        BY <1>4 DEF CreateOK, MadeIs, InUse, F!isFatFileOrSubdir
      <4> QED BY <4>1, <1>4, <1>11 DEF Dotted, EmptyDir
    <3>2. U[call.dir] = T0[call.dir] /\ EmptyDir(U, x)
      BY <3>1, <1>11 DEF Dotted
    <3>3. CreateOK(U, B2, file, u)
      BY <2>2, <3>1, <1>4, <1>9, <1>14, <1>19 DEF CreateOK, RenameOK
    <3>4. MadeIs(U, file, u, "subdir", x)
      BY <3>2, <1>4, <1>9 DEF MadeIs
    <3>5. CopyOK(U, B2, file, u)
      BY <2>2, <3>2, <3>3, <3>4, <1>4, <1>9 DEF CopyOK
    <3>6. SyncGoal(U, B2, file, u)
      BY <2>2, <3>5, <1>1, <1>9 DEF SyncGoal
    <3> QED BY <3>6, PhaseSync
  <2> QED BY <2>1, <2>2, <1>4 DEF CreatesDir
<1>21. DOMAIN T0 \subseteq DOMAIN U
  BY <1>11 DEF Dotted
<1>22. View(device', fatOnDevice') /\ Below(device', fatOnDevice', 0) \subseteq DOMAIN U
  BY <1>2, <1>6, <1>11, <1>21, DeviceKept
<1>23. Later(fatOnDevice', fat', SettlingAt(pc')) /\ Good(fat') /\ Good(fatOnDevice')
  <2>1. Later(fatOnDevice, fat, TRUE)
    BY <1>0, <1>6, LaterSettling
  <2> QED BY <2>1, <1>0, <1>2, <1>15
<1>24. HeldP(T0', fat', file', pc', call') /\ SetsP(T0', pc', call') /\ FileIs(T0', file')
         /\ PhaseOK(pc', T0', Inside', file', call', F!Contents', fatOnDevice', fat', m_sector')
  BY <1>2, <1>8, <1>10, <1>14, <1>16, <1>17, <1>18, <1>20
<1>25. Below(device', fatOnDevice', 0) \subseteq DOMAIN T0' \cup DevXAt(pc', call')
  BY <1>10, <1>22
<1>26. call' \in Calls /\ file' \in Objects /\ (\A k \in DOMAIN at' : at'[k] \in F!Index) /\ kept' \subseteq F!Cluster
  BY <1>0, <1>2, <1>8, <1>9
<1> QED BY <1>0, <1>2, <1>11, <1>22, <1>23, <1>24, <1>25, <1>26, IInvNext

-----------------------------------------------------------------------------
(* Only the entry i of d names the directory x. *)
Sole(T, d, i, x) ==
  \A e \in DOMAIN T : \A j \in UsedOf(T[e]) : T[e][j].kind = "subdir" /\ T[e][j].first = x => e = d /\ j = i

LEMMA SubdirHolds ==
  ASSUME F!DirectoryAssumption, IInv, NEW k \in Entered(T0), F!At(T0, k).kind = "subdir", k \notin GoneAt(pc, call)
  PROVE  k \in DOMAIN HNow /\ HNow[k] = F!At(T0, k).first /\ k \notin SNow
<1>0. TreeTyped(T0) /\ FileIs(T0, file)
  BY Now
<1>1. HNow = Holding(T0, file, GoneAt(pc, call), PendingAt(pc, call))
  BY DEF HNow, HoldsP
<1>2. k \in DOMAIN HNow /\ HNow[k] = EntryFirst(T0, file, k) /\ k \notin SNow
  <2>1. k # RootKey /\ k # NewKey
    BY <1>0, EnteredKey
  <2> QED BY <2>1, <1>0, <1>1, HoldingIs DEF SNow
<1>3. EntryFirst(T0, file, k) = F!At(T0, k).first
  <2>1. CASE file.open /\ k = <<file.dir, file.index>>
    <3>1. Object(T0, file)
      BY <1>0, <2>1 DEF FileIs, F!Closed
    <3>2. F!At(T0, k) = T0[file.dir][file.index]
      BY <2>1 DEF F!At
    <3>3. T0[file.dir][file.index].first = file.first
      BY <3>1, <3>2 DEF Object, EntryIs
    <3> QED BY <2>1, <3>2, <3>3 DEF EntryFirst
  <2>2. CASE ~(file.open /\ k = <<file.dir, file.index>>)
    BY <2>2 DEF EntryFirst
  <2> QED BY <2>1, <2>2
<1> QED BY <1>2, <1>3

LEMMA HeldNow ==
  ASSUME F!DirectoryAssumption, IInv
  PROVE  Held(fat, HNow, SNow) /\ HNow = Holding(T0, file, GoneAt(pc, call), PendingAt(pc, call)) /\ SNow = Singles(T0, HNow)
<1>1. HeldP(T0, fat, file, pc, call)
  BY Now
<1> QED BY <1>1 DEF HeldP, HNow, SNow, HoldsP

LEMMA SoleNow ==
  ASSUME F!DirectoryAssumption, IInv, GoneAt(pc, call) = {}, NEW d \in DOMAIN T0, NEW i \in UsedOf(T0[d]),
         T0[d][i].kind = "subdir", NEW x, T0[d][i].first = x, x # 0
  PROVE  Sole(T0, d, i, x)
<1>1. SUFFICES ASSUME NEW e \in DOMAIN T0, NEW j \in UsedOf(T0[e]), T0[e][j].kind = "subdir", T0[e][j].first = x
               PROVE  e = d /\ j = i
  BY DEF Sole
<1>2. PICK k, l : k = <<d, i>> /\ l = <<e, j>>
  OBVIOUS
<1>3. k \in Entered(T0) /\ l \in Entered(T0)
  BY <1>2, EnteredIs
<1>4. F!At(T0, k) = T0[d][i] /\ F!At(T0, l) = T0[e][j]
  BY <1>2 DEF F!At
<1>5. k \in DOMAIN HNow /\ HNow[k] = x /\ l \in DOMAIN HNow /\ HNow[l] = x
  BY <1>1, <1>3, <1>4, SubdirHolds
<1>6. k = l
  BY <1>5, HeldNow DEF Held
<1> QED BY <1>2, <1>6

Dropped(T, U, d, i, slot, x) ==
  /\ DOMAIN U = Minus(DOMAIN T, x) /\ x \in DOMAIN T /\ d # x /\ EmptyDir(T, x)
  /\ \A e \in DOMAIN U : U[e] = TreeWith(T, d, i, slot)[e]

LEMMA TreeDropped ==
  ASSUME F!DirectoryAssumption, program \in FatPrograms, NEW c1, NEW c2, Sectored(c1), Sectored(c2), NEW l,
         NEW top \in F!Cluster \cup {0}, NEW x, x # top, Subs(c1, l, x) = {}, NEW B, B = Below(c1, l, top),
         \A e \in B : Minus(Subs(c1, l, e), x) \subseteq Subs(c2, l, e),
         \A e \in B : e # x => Subs(c2, l, e) \subseteq Minus(B, x)
  PROVE  Below(c2, l, top) = Minus(B, x) /\ F!Tree(c2, l, top) = TreeOn(c2, l, Minus(B, x))
<1>1. \A d \in Below(c1, l, top) : Subs(c1, l, d) \ {x} \subseteq Subs(c2, l, d)
                                  /\ (d # x => Subs(c2, l, d) \subseteq Below(c1, l, top) \ {x})
  BY DEF Minus
<1>2. Below(c2, l, top) = Below(c1, l, top) \ {x} /\ F!Tree(c2, l, top) = TreeOn(c2, l, Below(c1, l, top) \ {x})
  BY SMTT(60), <1>1, TreeDrop
<1>3. Minus(B, x) = Below(c1, l, top) \ {x}
  BY DEF Minus
<1> QED BY <1>2, <1>3

LEMMA DroppedTree ==
  ASSUME F!DirectoryAssumption, IInv, program' = program, fat' = fat, NEW d \in DOMAIN T0, NEW i \in DOMAIN T0[d],
         NEW slot \in SlotType, F!StoreEntry(d, i, slot), T0[d][i].kind = "subdir", NEW x, T0[d][i].first = x,
         EmptyDir(T0, x), Sole(T0, d, i, x), NoneBehind(With(T0[d], i, slot)),
         slot.kind = "subdir" => slot.first \in DOMAIN T0 /\ slot.first # x
  PROVE  /\ VolumeNext /\ View(F!Contents', fat') /\ TreeTyped(T0') /\ Dropped(T0, T0', d, i, slot, x)
         /\ \A y \in DOMAIN T0 : d \notin Below(F!Contents, fat, y) => Below(F!Contents', fat', y) = Below(F!Contents, fat, y)
<1>0. /\ TreeTyped(T0) /\ T0 = F!Tree(F!Contents, fat, 0) /\ Sectored(F!Contents) /\ program \in FatPrograms /\ View(F!Contents, fat)
  BY Now
<1>1. /\ VolumeNext /\ (\A e \in DOMAIN T0 : NoneData(F!ChainSet(fat, e), F!Contents'))
      /\ \A e \in DOMAIN T0 : F!Slots(F!Contents', fat, e) = IF e = d THEN With(T0[d], i, slot) ELSE T0[e]
  BY EntryStored
<1>2. DOMAIN T0 = Below(F!Contents, fat, 0)
      /\ \A e \in DOMAIN T0 : e \in F!Cluster \cup {0} /\ T0[e] = F!Slots(F!Contents, fat, e) /\ Indexed(T0[e]) /\ NoneBehind(T0[e])
                              /\ Subs(F!Contents, fat, e) = SubdirsOf(T0[e]) /\ SubdirsOf(T0[e]) \subseteq DOMAIN T0
  BY <1>0, TreeClosed DEF TreeTyped
<1>3. PICK c2 : c2 = F!Contents'
  OBVIOUS
<1>4. Sectored(c2)
  BY <1>1, <1>3 DEF VolumeNext
<1>5. x \in DOMAIN T0 /\ x # 0 /\ d # x
  <2>1. T0[d][i] \in SlotType
    BY <1>0 DEF TreeTyped, DirSlots
  <2>2. InUse(T0[d], i)
    BY DEF InUse, F!isFatFileOrSubdir
  <2> QED BY <2>1, <2>2 DEF EmptyDir, SlotType
<1>6. SubdirsOf(T0[x]) = {}
  BY <1>5 DEF SubdirsOf, UsedOf, EmptyDir
<1>7. F!Slots(c2, fat, d) = With(T0[d], i, slot) /\ Subs(c2, fat, d) = SubdirsOf(With(T0[d], i, slot))
  <2>1. F!Slots(c2, fat, d) = With(T0[d], i, slot)
    BY <1>1, <1>3
  <2> QED BY <2>1, <1>0, <1>2, SubsIs
<1>8. ASSUME NEW e \in DOMAIN T0, e # d PROVE F!Slots(c2, fat, e) = T0[e] /\ Subs(c2, fat, e) = Subs(F!Contents, fat, e)
  BY <1>1, <1>2, <1>3, <1>8 DEF Subs
<1>9. \A e \in DOMAIN T0 : e # d => x \notin SubdirsOf(T0[e])
  BY DEF Sole, SubdirsOf
<1>10. /\ SubdirsOf(T0[d]) \ {x} \subseteq SubdirsOf(With(T0[d], i, slot))
       /\ SubdirsOf(With(T0[d], i, slot)) \subseteq DOMAIN T0 \ {x}
  <2>1. PICK s : s = With(T0[d], i, slot)
    OBVIOUS
  <2>2. DOMAIN s = DOMAIN T0[d] /\ \A j \in DOMAIN T0[d] : s[j] = IF j = i THEN slot ELSE T0[d][j]
    BY <2>1, <1>2, WithIs
  <2>3. SubdirsOf(T0[d]) \ {x} \subseteq SubdirsOf(s)
    BY <2>1, <1>2, SubdirsWith
  <2>4. ASSUME NEW y \in SubdirsOf(s) PROVE y \in DOMAIN T0 /\ y # x
    <3>1. PICK j \in UsedOf(s) : s[j].kind = "subdir" /\ s[j].first = y
      BY <2>4 DEF SubdirsOf
    <3>2. j \in DOMAIN T0[d]
      BY <3>1, <2>2 DEF UsedOf
    <3>3. CASE j = i
      BY <3>1, <3>2, <3>3, <2>2
    <3>4. CASE j # i
      <4>1. s[j] = T0[d][j] /\ j \in UsedOf(T0[d])
        BY <3>1, <3>2, <3>4, <2>2 DEF UsedOf, InUse
      <4>2. y \in SubdirsOf(T0[d])
        BY <4>1, <3>1 DEF SubdirsOf
      <4>3. y # x
        BY <4>1, <3>1, <3>4 DEF Sole
      <4> QED BY <4>2, <4>3, <1>2
    <3> QED BY <3>3, <3>4
  <2> QED BY <2>1, <2>3, <2>4
<1>11. ASSUME NEW e \in DOMAIN T0
       PROVE  Minus(Subs(F!Contents, fat, e), x) \subseteq Subs(c2, fat, e)
              /\ (e # x => Subs(c2, fat, e) \subseteq Minus(DOMAIN T0, x))
  <2>1. CASE e = d
    BY <2>1, <1>2, <1>7, <1>10 DEF Minus
  <2>2. CASE e # d
    BY <2>2, <1>2, <1>8, <1>9 DEF Minus
  <2> QED BY <2>1, <2>2
<1>12. /\ Below(c2, fat, 0) = Minus(DOMAIN T0, x)
       /\ F!Tree(c2, fat, 0) = TreeOn(c2, fat, Minus(DOMAIN T0, x))
  <2>1. 0 \in F!Cluster \cup {0} /\ x # 0 /\ Subs(F!Contents, fat, x) = {}
    BY <1>2, <1>5, <1>6
  <2>2. PICK B : B = DOMAIN T0
    OBVIOUS
  <2> QED BY <2>1, <2>2, <1>0, <1>2, <1>4, <1>11, TreeDropped
<1>13. T0' = F!Tree(c2, fat, 0)
  BY <1>3, PrimedTree
<1>14. DOMAIN T0' = Minus(DOMAIN T0, x) /\ \A e \in Minus(DOMAIN T0, x) : T0'[e] = F!Slots(c2, fat, e)
  BY <1>12, <1>13 DEF TreeOn, Minus
<1>15. \A e \in DOMAIN T0 : F!Slots(c2, fat, e) = TreeWith(T0, d, i, slot)[e]
  BY <1>2, <1>7, <1>8, TreeWithIs
<1>16. Dropped(T0, T0', d, i, slot, x)
  BY <1>5, <1>14, <1>15 DEF Dropped, Minus
<1>17. View(c2, fat)
  <2>1. \A e \in DOMAIN T0 : NoneBehind(F!Slots(c2, fat, e))
    BY <1>2, <1>7, <1>8
  <2>2. \A e \in Below(c2, fat, 0) : e \in DOMAIN T0
    BY <1>12 DEF Minus
  <2> QED BY <2>1, <2>2, <1>1, <1>3 DEF View
<1>18. TreeTyped(T0')
  BY <1>0, <1>4, <1>13, <1>17, ViewTree
<1>19. ASSUME NEW y \in DOMAIN T0, d \notin Below(F!Contents, fat, y)
       PROVE  Below(c2, fat, y) = Below(F!Contents, fat, y)
  <2>1. Below(F!Contents, fat, y) \subseteq DOMAIN T0
    BY <1>0, <1>2, BelowWithin
  <2>2. y \in F!Cluster \cup {0} /\ \A e \in Below(F!Contents, fat, y) : F!Slots(c2, fat, e) = F!Slots(F!Contents, fat, e)
    BY <2>1, <1>2, <1>8, <1>19
  <2> QED BY <2>2, <1>0, <1>4, TreeSame
<1> QED BY <1>1, <1>3, <1>16, <1>17, <1>18, <1>19

LEMMA DroppedEntries ==
  ASSUME NEW T, TreeTyped(T), NEW U, NEW d \in DOMAIN T, NEW i \in DOMAIN T[d], NEW slot, NEW x, Dropped(T, U, d, i, slot, x)
  PROVE  /\ Entered(U) = Entered(TreeWith(T, d, i, slot))
         /\ \A k \in Entered(U) : F!At(U, k) = F!At(TreeWith(T, d, i, slot), k)
         /\ d \in DOMAIN U /\ DOMAIN U[d] = DOMAIN T[d] /\ U[d][i] = slot
         /\ \A k \in Entered(T) : k[1] # x
<1>1. PICK V : V = TreeWith(T, d, i, slot)
  OBVIOUS
<1>2. Indexed(T[d])
  BY DEF TreeTyped
<1>3. /\ DOMAIN V = DOMAIN T /\ V[d] = With(T[d], i, slot) /\ V[d][i] = slot /\ DOMAIN V[d] = DOMAIN T[d]
      /\ \A e \in DOMAIN T : e # d => V[e] = T[e]
  BY <1>1, <1>2, TreeWithIs
<1>4. DOMAIN U = DOMAIN T \ {x} /\ d # x /\ (\A e \in DOMAIN U : U[e] = V[e]) /\ EmptyDir(T, x)
  BY <1>1 DEF Dropped, Minus
<1>5. UsedOf(V[x]) = {} /\ UsedOf(T[x]) = {}
  BY <1>3, <1>4 DEF EmptyDir, UsedOf
<1>6. ASSUME NEW k PROVE k \in Entered(U) <=> k \in Entered(V)
  <2>1. k \in Entered(U) <=> k = <<k[1], k[2]>> /\ k[1] \in DOMAIN U /\ k[2] \in UsedOf(U[k[1]])
    BY EnteredIs
  <2>2. k \in Entered(V) <=> k = <<k[1], k[2]>> /\ k[1] \in DOMAIN V /\ k[2] \in UsedOf(V[k[1]])
    BY EnteredIs
  <2>3. CASE k[1] = x
    BY <2>1, <2>2, <2>3, <1>4, <1>5
  <2>4. CASE k[1] # x
    BY <2>1, <2>2, <2>4, <1>3, <1>4
  <2> QED BY <2>3, <2>4
<1>7. Entered(U) = Entered(V)
  BY <1>6
<1>8. ASSUME NEW k \in Entered(U) PROVE F!At(U, k) = F!At(V, k)
  <2>1. k[1] \in DOMAIN U
    BY EnteredIs
  <2> QED BY <2>1, <1>4 DEF F!At
<1>9. ASSUME NEW k \in Entered(T) PROVE k[1] # x
  <2>1. k[2] \in UsedOf(T[k[1]])
    BY EnteredIs
  <2> QED BY <2>1, <1>5
<1> QED BY <1>1, <1>3, <1>4, <1>7, <1>8, <1>9

LEMMA DroppedSets ==
  ASSUME NEW T, NEW U, NEW d, NEW i, NEW slot, NEW x, Dropped(T, U, d, i, slot, x), NEW V, V = TreeWith(T, d, i, slot),
         DOMAIN V = DOMAIN T, FreeTail(V, {}), DotKinds(V, {})
  PROVE  FreeTail(U, {}) /\ DotKinds(U, {})
<1>1. DOMAIN U \subseteq DOMAIN V /\ \A e \in DOMAIN U : U[e] = V[e]
  BY DEF Dropped, Minus
<1>2. FreeTail(U, {})
  BY <1>1 DEF FreeTail
<1>3. DotKinds(U, {})
  BY <1>1 DEF DotKinds
<1> QED BY <1>2, <1>3

LEMMA DroppedEntry ==
  ASSUME NEW T, TreeTyped(T), NEW U, NEW d \in DOMAIN T, NEW i \in DOMAIN T[d], NEW slot, NEW x, Dropped(T, U, d, i, slot, x),
         NEW o, EntryIs(T, o), <<o.dir, o.index>> # <<d, i>>
  PROVE  EntryIs(U, o) /\ U[o.dir][o.index] = T[o.dir][o.index]
<1>1. PICK V : V = TreeWith(T, d, i, slot)
  OBVIOUS
<1>2. Indexed(T[d])
  BY DEF TreeTyped
<1>3. EntryIs(V, o) /\ V[o.dir][o.index] = T[o.dir][o.index]
  BY <1>1, <1>2, EntryIsWith
<1>4. DOMAIN U = DOMAIN T \ {x} /\ (\A e \in DOMAIN U : U[e] = V[e]) /\ EmptyDir(T, x)
  BY <1>1 DEF Dropped, Minus
<1>5. o.dir \in DOMAIN T /\ o.dir # x
  BY <1>4 DEF EntryIs, EmptyDir, InUse, F!isFatFileOrSubdir
<1> QED BY <1>3, <1>4, <1>5 DEF EntryIs

LEMMA DroppedFile ==
  ASSUME NEW T, TreeTyped(T), NEW U, NEW d \in DOMAIN T, NEW i \in DOMAIN T[d], NEW slot, NEW x, Dropped(T, U, d, i, slot, x),
         NEW o, FileIs(T, o), o.open => <<o.dir, o.index>> # <<d, i>>
  PROVE  FileIs(U, o)
<1>1. CASE o = F!Closed
  BY <1>1 DEF FileIs
<1>2. CASE Object(T, o)
  <2>1. EntryIs(T, o) /\ o.open
    BY <1>2 DEF Object, EntryIs
  <2>2. EntryIs(U, o) /\ U[o.dir][o.index] = T[o.dir][o.index]
    BY <2>1, DroppedEntry
  <2> QED BY <2>2, <1>2 DEF FileIs, Object
<1> QED BY <1>1, <1>2 DEF FileIs

-----------------------------------------------------------------------------
LEMMA CopyObject ==
  ASSUME F!DirectoryAssumption, IInv, F!copyEntry, NEW d, NEW i, d = call.dir, i = call.index, NEW slot, slot = Copied(call)
  PROVE  /\ file'.open /\ ~file'.dirty /\ file'.isDir = file.isDir /\ file'.dir = d /\ file'.index = i
         /\ file'.first = file.first /\ file.open /\ ~file.dirty /\ Object(T0, file)
         /\ (file.isDir => T0[d][i].kind = "subdir" /\ T0[d][i].first = call.first)
<1>1. /\ file'.open /\ ~file'.dirty /\ file'.isDir = file.isDir /\ file'.dir = d /\ file'.index = i
      /\ file'.first = file.first /\ file.open /\ ~file.dirty /\ Object(T0, file)
  BY CopyIs
<1>2. T0[d][i].kind = (IF file.isDir THEN "subdir" ELSE "file") /\ T0[d][i].first = (IF file.isDir THEN call.first ELSE 0)
  BY CopyIs
<1> QED BY <1>1, <1>2

(* copyEntry of a directory: the one made for the new name leaves the tree. *)
LEMMA CopyDirNow ==
  ASSUME F!DirectoryAssumption, IInv, F!copyEntry, file.isDir, NEW d, NEW i, d = call.dir, i = call.index, NEW x, x = call.first,
         NEW y, y = file.first
  PROVE  /\ d \in DOMAIN T0 /\ i \in DOMAIN T0[d] /\ T0[d][i].kind = "subdir" /\ T0[d][i].first = x /\ x # 0 /\ x # y
         /\ EmptyDir(T0, x) /\ x \in DOMAIN T0 /\ x \in F!Cluster /\ d # x /\ y \in DOMAIN T0 /\ y # 0 /\ d \notin Inside
         /\ Sole(T0, d, i, x) /\ <<d, i>> \in Entered(T0) /\ <<file.dir, file.index>> \in Entered(T0)
         /\ GoneAt(pc, call) = {} /\ PendingAt(pc, call) = 0 /\ DevXAt(pc, call) = {} /\ SettlingAt(pc) = FALSE /\ RawAt(pc, call) = {}
         /\ Building(pc, call) = {} /\ FreeTail(T0, {}) /\ DotKinds(T0, {})
<1>0. TreeTyped(T0) /\ SetsP(T0, pc, call) /\ program \in FatPrograms
  BY Now
<1>1. /\ pc = "copy" /\ file.open /\ Object(T0, file) /\ CopyOK(T0, Inside, file, call) /\ RenameOK(Inside, file, call)
      /\ d \in DOMAIN T0 /\ i \in DOMAIN T0[d] /\ T0[d][i].kind = "subdir" /\ T0[d][i].first = x
      /\ <<file.dir, file.index>> # <<d, i>>
  <2>1. PICK slot : slot = Copied(call)
    OBVIOUS
  <2>2. pc = "copy" /\ file.open /\ Object(T0, file) /\ CopyOK(T0, Inside, file, call) /\ RenameOK(Inside, file, call)
    BY <2>1, CopyIs
  <2>3. d \in DOMAIN T0 /\ i \in DOMAIN T0[d] /\ <<file.dir, file.index>> # <<d, i>>
    BY <2>1, CopyIs
  <2>4. T0[d][i].kind = "subdir" /\ T0[d][i].first = x
    BY ZenonT(60), <2>1, CopyObject
  <2> QED BY <2>2, <2>3, <2>4
<1>2. /\ GoneAt(pc, call) = {} /\ PendingAt(pc, call) = 0 /\ DevXAt(pc, call) = {} /\ SettlingAt(pc) = FALSE /\ RawAt(pc, call) = {}
      /\ Building(pc, call) = {}
  BY <1>1, BuildingNone DEF GoneAt, PendingAt, DevXAt, SettlingAt, RawAt, PhaseOf
<1>3. FreeTail(T0, {}) /\ DotKinds(T0, {})
  BY <1>0, <1>2 DEF SetsP
<1>4. EmptyDir(T0, x) /\ x # 0 /\ x \in DOMAIN T0 /\ d \notin Inside
  BY <1>1 DEF CopyOK, EmptyDir, RenameOK
<1>5. y \in DOMAIN T0 /\ y # 0 /\ T0[file.dir][file.index].kind = "subdir" /\ T0[file.dir][file.index].first = y
  BY <1>1, OpenDir
<1>6. file.dir \in DOMAIN T0 /\ file.index \in DOMAIN T0[file.dir]
  BY <1>1 DEF Object, EntryIs
<1>7. i \in UsedOf(T0[d]) /\ file.index \in UsedOf(T0[file.dir])
  BY <1>1, <1>5, <1>6 DEF UsedOf, InUse, F!isFatFileOrSubdir
<1>8. Sole(T0, d, i, x)
  BY <1>1, <1>2, <1>4, <1>7, SoleNow
<1>9. x # y
  BY <1>1, <1>5, <1>6, <1>7, <1>8 DEF Sole
<1>10. d # x /\ x \in F!Cluster
  BY <1>0, <1>4, <1>7 DEF EmptyDir, UsedOf, TreeTyped
<1>11. <<d, i>> \in Entered(T0) /\ <<file.dir, file.index>> \in Entered(T0)
  BY <1>1, <1>6, <1>7, EnteredIs
<1> QED BY <1>1, <1>2, <1>3, <1>4, <1>5, <1>8, <1>9, <1>10, <1>11

LEMMA CopyDirKeeps ==
  ASSUME F!DirectoryAssumption, IInv, F!copyEntry, file.isDir
  PROVE  IInv'
<1>0. /\ program \in FatPrograms /\ kept \subseteq F!Cluster /\ HeldP(T0, fat, file, pc, call) /\ (\A k \in DOMAIN at : at[k] \in F!Index)
      /\ TreeTyped(T0) /\ Good(fat) /\ Good(fatOnDevice) /\ Later(fatOnDevice, fat, SettlingAt(pc))
      /\ T0 = F!Tree(F!Contents, fat, 0) /\ View(F!Contents, fat)
  BY Now
<1>s. Sectored(F!Contents)
  BY Now
<1>1. PICK d, i, slot, x, y : d = call.dir /\ i = call.index /\ slot = Copied(call) /\ x = call.first /\ y = file.first
  OBVIOUS
<1>2. /\ program' = program /\ fatOnDevice' = fatOnDevice /\ fat' = fat /\ at' = at /\ kept' = kept
      /\ pc = "copy" /\ F!StoreEntry(d, i, slot) /\ pc' = "dotdot"
      /\ call' \in Calls /\ file' \in Objects /\ call'.old = file /\ call'.op = "rename" /\ call'.dir = d /\ call'.index = i
      /\ call'.first = x
      /\ file'.open /\ ~file'.dirty /\ file'.isDir /\ file'.isDir = file.isDir /\ file'.dir = d /\ file'.index = i
      /\ file'.first = y /\ file.open /\ ~file.dirty /\ Object(T0, file)
  <2>1. /\ program' = program /\ fatOnDevice' = fatOnDevice /\ fat' = fat /\ at' = at /\ kept' = kept
        /\ pc = "copy" /\ F!StoreEntry(d, i, slot) /\ pc' = (IF file.isDir THEN "dotdot" ELSE "del")
    BY <1>1, CopyIs
  <2>2. /\ call' \in Calls /\ file' \in Objects /\ call'.old = file /\ call'.op = "rename" /\ call'.dir = d /\ call'.index = i
        /\ call'.first = x
    BY ZenonT(60), <1>1, CopyIs
  <2>3. /\ file'.open /\ ~file'.dirty /\ file'.isDir = file.isDir /\ file'.dir = d /\ file'.index = i
        /\ file'.first = y /\ file.open /\ ~file.dirty /\ Object(T0, file)
    BY <1>1, CopyObject
  <2>4. pc' = "dotdot"
    BY <2>1
  <2>5. file'.isDir
    BY <2>3
  <2> QED BY <2>1, <2>2, <2>3, <2>4, <2>5
<1>3. /\ d \in DOMAIN T0 /\ i \in DOMAIN T0[d] /\ Indexed(T0[d]) /\ NoneBehind(T0[d]) /\ ClearBefore(T0[d], i)
      /\ slot \in SlotType /\ slot.kind = "subdir" /\ slot.first = y
      /\ T0[d][i].kind = "subdir" /\ T0[d][i].first = x /\ <<file.dir, file.index>> # <<d, i>>
  <2>1. /\ d \in DOMAIN T0 /\ i \in DOMAIN T0[d] /\ Indexed(T0[d]) /\ NoneBehind(T0[d]) /\ ClearBefore(T0[d], i)
        /\ slot \in SlotType /\ slot.kind = T0[d][i].kind /\ slot.first = y /\ <<file.dir, file.index>> # <<d, i>>
    BY ZenonT(60), <1>1, CopyIs
  <2>2. T0[d][i].kind = "subdir" /\ T0[d][i].first = x
    BY ZenonT(60), <1>1, CopyObject
  <2> QED BY <2>1, <2>2
<1>4. /\ x # 0 /\ x # y
      /\ EmptyDir(T0, x) /\ x \in DOMAIN T0 /\ x \in F!Cluster /\ d # x /\ y \in DOMAIN T0 /\ y # 0 /\ d \notin Inside
      /\ Sole(T0, d, i, x) /\ <<d, i>> \in Entered(T0) /\ <<file.dir, file.index>> \in Entered(T0)
  BY ZenonT(60), <1>1, CopyDirNow
<1>5. /\ GoneAt(pc, call) = {} /\ PendingAt(pc, call) = 0 /\ DevXAt(pc, call) = {} /\ SettlingAt(pc) = FALSE
      /\ FreeTail(T0, {}) /\ DotKinds(T0, {})
  BY <1>1, CopyDirNow
<1>6. NoneBehind(With(T0[d], i, slot))
  BY <1>3, NoneBehindWith
<1>7. PICK U : U = T0'
  OBVIOUS
<1>8. /\ VolumeNext /\ View(F!Contents', fat') /\ TreeTyped(U) /\ Dropped(T0, U, d, i, slot, x)
      /\ \A e \in DOMAIN T0 : d \notin Below(F!Contents, fat, e) => Below(F!Contents', fat', e) = Below(F!Contents, fat, e)
  <2>1. slot.kind = "subdir" => slot.first \in DOMAIN T0 /\ slot.first # x
    BY <1>3, <1>4
  <2> QED BY <2>1, <1>2, <1>3, <1>4, <1>6, <1>7, DroppedTree
<1>9. PICK V : V = TreeWith(T0, d, i, slot)
  OBVIOUS
<1>10. PICK a, b : a = <<file.dir, file.index>> /\ b = <<d, i>>
  OBVIOUS
<1>11. /\ Entered(U) = Entered(V) /\ (\A k \in Entered(U) : F!At(U, k) = F!At(V, k))
       /\ d \in DOMAIN U /\ DOMAIN U[d] = DOMAIN T0[d] /\ U[d][i] = slot
  BY <1>0, <1>3, <1>8, <1>9, DroppedEntries
<1>12. F!isFatFileOrSubdir(slot)
  BY <1>3 DEF F!isFatFileOrSubdir
<1>13. /\ Entered(V) = Plus(Entered(T0), b) /\ SameBut(T0, V, b) /\ F!At(V, b) = slot /\ DOMAIN V = DOMAIN T0
  BY <1>3, <1>9, <1>10, <1>12, EnteredAdd, TreeWithIs
<1>14. FreeTail(U, {}) /\ DotKinds(U, {})
  <2>1. slot.kind # "free" /\ T0[d][i].kind \notin {"dot", "dotdot"}
    BY <1>3
  <2>2. FreeTail(V, {}) /\ DotKinds(V, {})
    BY <2>1, <1>0, <1>3, <1>5, <1>9, FreeTailUsed, DotKindsWith
  <2> QED BY <2>2, <1>8, <1>9, <1>13, DroppedSets
<1>15. EntryIs(T0, file) /\ LfnOrdOK(file) /\ T0[file.dir][file.index].kind = "subdir" /\ T0[file.dir][file.index].first = y
       /\ file.dir \in DOMAIN T0 /\ file.index \in DOMAIN T0[file.dir] /\ file.isDir
  BY <1>1, <1>2 DEF Object, EntryIs
<1>16. EntryIs(U, file) /\ U[file.dir][file.index] = T0[file.dir][file.index]
  BY <1>0, <1>3, <1>8, <1>15, DroppedEntry
<1>17. FileIs(U, file')
  BY <1>1, <1>3, <1>11, CopiedFile
<1>18. GoneAt("dotdot", call') = {a} /\ PendingAt("dotdot", call') = x /\ RawAt("dotdot", call') = {} /\ Building("dotdot", call') = {}
       /\ DevXAt("dotdot", call') = {x} /\ SettlingAt("dotdot") = FALSE
  BY <1>2, <1>10, BuildingNone DEF GoneAt, PendingAt, RawAt, PhaseOf, DevXAt, SettlingAt
<1>19. HeldP(U, fat, file', "dotdot", call')
  <2>1. EntryFirst(T0, file, b) = x /\ EntryFirst(U, file', b) = EntryFirst(T0, file, a) /\ F!At(U, b).kind = F!At(T0, a).kind
    <3>1. F!At(T0, b) = T0[d][i] /\ F!At(T0, a) = T0[file.dir][file.index] /\ F!At(U, b) = slot
      BY <1>10, <1>11 DEF F!At
    <3> QED BY <3>1, <1>1, <1>2, <1>3, <1>10, <1>15 DEF EntryFirst
  <2>2. ASSUME NEW k, k # a, k # b
        PROVE  /\ (k \in Entered(U) <=> k \in Entered(T0))
               /\ (k \in Entered(T0) => EntryFirst(U, file', k) = EntryFirst(T0, file, k) /\ F!At(U, k).kind = F!At(T0, k).kind)
    <3>1. k \in Entered(U) <=> k \in Entered(T0)
      BY <2>2, <1>11, <1>13 DEF Plus
    <3>2. k \in Entered(T0) => F!At(U, k) = F!At(T0, k)
      BY <3>1, <2>2, <1>11, <1>13 DEF SameBut
    <3> QED BY <3>1, <3>2, <2>2, <1>2, <1>10 DEF EntryFirst
  <2>3. a # b /\ b \in Entered(U) /\ a \in Entered(T0) /\ b \in Entered(T0)
    BY <1>3, <1>4, <1>10, <1>11, <1>13 DEF Plus
  <2>4. Held(fat, Holding(T0, file, {}, 0), Singles(T0, Holding(T0, file, {}, 0)))
    BY <1>0, <1>5 DEF HeldP, HoldsP
  <2>5. Held(fat, Holding(U, file', {a}, x), Singles(U, Holding(U, file', {a}, x)))
    BY <2>1, <2>2, <2>3, <2>4, <1>0, <1>8, MovedHeld
  <2> QED BY <2>5, <1>18 DEF HeldP, HoldsP
<1>20. SetsP(U, "dotdot", call')
  BY <1>14, <1>18 DEF SetsP
<1>21. PICK B2 : B2 = Inside'
  OBVIOUS
<1>22. B2 = Inside
  <2>1. Below(F!Contents', fat', y) = Below(F!Contents, fat, y)
    BY <1>1, <1>4, <1>8 DEF Inside
  <2>2. Inside' = Below(F!Contents', fat', y)
    BY <1>2, PrimedInside
  <2> QED BY <2>1, <2>2, <1>1, <1>21 DEF Inside
<1>23. PICK c2 : c2 = F!Contents'
  OBVIOUS
<1>24. /\ m_sector' = SectorAt(fat, d, i) /\ (device' = F!Contents \/ device' = device) /\ c2[x] = F!Contents[x]
  <2>1. /\ m_sector' = SectorAt(fat, d, i) /\ (device' = F!Contents \/ device' = device)
        /\ \A z \in F!Cluster : z \notin F!ChainSet(fat, d) => F!Contents'[z] = F!Contents[z]
    BY <1>2, <1>3, EntryStored
  <2>2. x \notin F!ChainSet(fat, d)
    <3>1. F!ChainSet(fat, d) \cap F!ChainSet(fat, x) = {}
      BY <1>3, <1>4, DirsApart
    <3>2. FirstOf(x) = x /\ FirstOf(x) \in F!ChainSet(fat, x)
      BY <1>0, <1>4, ChainSetIs DEF FirstOf
    <3> QED BY <3>1, <3>2
  <2> QED BY <2>1, <2>2, <1>4, <1>23
<1>25. F!Contents[x] # F!Data /\ F!Contents[x][1].kind = "dotdot"
  <2>1. T0[x] = F!Slots(F!Contents, fat, x) /\ NoneData(F!ChainSet(fat, x), F!Contents)
    <3>1. PICK T : T = T0
      OBVIOUS
    <3>2. T = F!Tree(F!Contents, fat, 0) /\ x \in DOMAIN T
      BY <3>1, <1>0, <1>4
    <3>3. T[x] = F!Slots(F!Contents, fat, x) /\ NoneData(F!ChainSet(fat, x), F!Contents)
      BY <3>2, <1>0, <1>s, TreeClosed
    <3> QED BY <3>1, <3>3
  <2>2. FirstOf(x) = x /\ x \in F!ChainSet(fat, x)
    BY <1>0, <1>4, ChainSetIs DEF FirstOf
  <2>3. F!Contents[x] # F!Data
    BY <2>1, <2>2 DEF NoneData
  <2>4. 1 \in 0 .. F!EntriesPerSector - 1
    BY <1>0, Setting
  <2>5. 1 \in 0 .. SizeOf(fat, x) - 1 /\ SectorAt(fat, x, 1) = x /\ 1 % F!EntriesPerSector = 1
    BY <2>2, <2>4, <1>0, <1>4, FirstSector
  <2>6. T0[x][1] = F!SlotIn(F!Contents[x], 1)
    BY <2>1, <2>5, <1>0, <1>4, SlotIs
  <2>7. T0[x][1].kind = "dotdot"
    BY <1>4, <1>5 DEF DotKinds
  <2> QED BY <2>3, <2>5, <2>6, <2>7 DEF F!SlotIn
<1>26. x \in F!Cluster \ DOMAIN U
  BY <1>4, <1>8 DEF Dropped, Minus
<1>27. PICK u, o : u = call' /\ o = file'
  OBVIOUS
<1>28. MovedOK(U, B2, o, u)
  <2>1. d \notin B2 /\ o.open /\ ~o.dirty /\ u.op = "rename" /\ u.dir = d /\ o.dir = d /\ o.index = i /\ u.index = i /\ u.old = file
        /\ o.isDir = file.isDir /\ o.first = y
    BY <1>2, <1>4, <1>22, <1>27
  <2>2. RenameOK(B2, o, u)
    BY <2>1 DEF RenameOK
  <2>3. OldIs(U, u)
    BY <2>1, <1>15, <1>16 DEF OldIs
  <2> QED BY <2>1, <2>2, <2>3, <1>1, <1>3, <1>15, <1>16 DEF MovedOK
<1>29. DotdotOK(U, B2, o, u, c2)
  <2>1. o.isDir /\ u.first = x
    BY <1>2, <1>27
  <2> QED BY <2>1, <1>24, <1>25, <1>26, <1>28 DEF DotdotOK
<1>30. PhaseOK("dotdot", U, B2, o, u, c2, fatOnDevice', fat', m_sector')
  <2>1. u.dir = d /\ u.index = i
    BY <1>2, <1>27
  <2>2. m_sector' = SectorAt(fat', u.dir, u.index)
    BY <2>1, <1>2, <1>24
  <2> QED BY <2>2, <1>29, PhaseIs
<1>31. View(device', fatOnDevice') /\ Below(device', fatOnDevice', 0) \subseteq DOMAIN T0
  BY <1>2, <1>5, <1>24, DeviceKept
<1>32. DOMAIN T0 \subseteq DOMAIN U \cup {x}
  BY <1>8 DEF Dropped, Minus
<1>33. Later(fatOnDevice', fat', SettlingAt(pc')) /\ Good(fat') /\ Good(fatOnDevice')
  BY <1>0, <1>2, <1>5, <1>18
<1>34. HeldP(T0', fat', file', pc', call') /\ SetsP(T0', pc', call') /\ FileIs(T0', file')
         /\ PhaseOK(pc', T0', Inside', file', call', F!Contents', fatOnDevice', fat', m_sector')
  BY <1>2, <1>7, <1>17, <1>19, <1>20, <1>21, <1>23, <1>27, <1>30
<1>35. Below(device', fatOnDevice', 0) \subseteq DOMAIN T0' \cup DevXAt(pc', call')
  BY <1>2, <1>7, <1>18, <1>31, <1>32
<1>36. call' \in Calls /\ file' \in Objects /\ (\A k \in DOMAIN at' : at'[k] \in F!Index) /\ kept' \subseteq F!Cluster
  BY <1>0, <1>2
<1> QED BY <1>0, <1>2, <1>8, <1>31, <1>33, <1>34, <1>35, <1>36, IInvNext

-----------------------------------------------------------------------------
(* deleteSFN of a removed directory: it leaves the tree with its entry. *)
LEMMA DeleteDirKeeps ==
  ASSUME F!DirectoryAssumption, IInv, F!deleteSFN, call.old.isDir, call.op = "remove"
  PROVE  IInv'
<1>0. /\ program \in FatPrograms /\ file \in Objects /\ FileIs(T0, file) /\ kept \subseteq F!Cluster /\ HeldP(T0, fat, file, pc, call)
      /\ TreeTyped(T0) /\ Good(fat) /\ Good(fatOnDevice) /\ Later(fatOnDevice, fat, SettlingAt(pc))
  BY Now
<1>1. PICK d, i, x : d = call.old.dir /\ i = call.old.index /\ x = call.old.first
  OBVIOUS
<1>2. /\ program' = program /\ fatOnDevice' = fatOnDevice /\ fat' = fat /\ file' = file /\ kept' = kept
      /\ pc = "del" /\ F!StoreEntry(d, i, F!Deleted) /\ pc' = "data" /\ call' \in Calls /\ call'.old = call.old
      /\ \A k \in DOMAIN at' : at'[k] \in F!Index
      /\ DelOK(T0, Inside, file, call, F!Contents, fatOnDevice, fat)
      /\ d \in DOMAIN T0 /\ i \in DOMAIN T0[d] /\ Indexed(T0[d]) /\ NoneBehind(T0[d]) /\ ClearBefore(T0[d], i)
      /\ F!Deleted \in SlotType /\ F!Deleted.kind = "deleted"
  BY <1>1, DeleteIs
<1>3. T0[d][i].kind = "subdir"
  <2>1. T0[d][i].kind = (IF call.old.isDir THEN "subdir" ELSE "file")
    BY <1>1, DeleteIs
  <2> QED BY <2>1
<1>4. file = F!Closed /\ T0[d][i].first = x /\ Emptied(T0, F!Contents, fatOnDevice, fat, call)
  BY <1>1, <1>2 DEF DelOK, MovedOK
<1>5. EmptyDir(T0, x) /\ x # 0 /\ \A z \in F!ChainSet(fatOnDevice, x) : fat[z] = 0
  BY <1>1, <1>4 DEF Emptied
<1>6. fat[x] = 0
  <2>1. x \in DOMAIN T0 /\ x \in F!Cluster
    BY <1>0, <1>5 DEF EmptyDir, TreeTyped
  <2>2. FirstOf(x) = x /\ FirstOf(x) \in F!ChainSet(fatOnDevice, x)
    BY <2>1, <1>0, <1>5, ChainSetIs DEF FirstOf
  <2> QED BY <2>2, <1>5
<1>7. PICK b : b = <<d, i>>
  OBVIOUS
<1>8. Sole(T0, d, i, x)
  <2>1. SUFFICES ASSUME NEW e \in DOMAIN T0, NEW j \in UsedOf(T0[e]), T0[e][j].kind = "subdir", T0[e][j].first = x,
                        <<e, j>> # b
                 PROVE  FALSE
    BY <1>7 DEF Sole
  <2>2. PICK l : l = <<e, j>>
    OBVIOUS
  <2>3. l \in Entered(T0) /\ F!At(T0, l) = T0[e][j]
    BY <2>2, EnteredIs DEF F!At
  <2>4. l \notin GoneAt(pc, call)
    BY <2>1, <2>2, <1>1, <1>2, <1>7 DEF GoneAt
  <2>5. l \in DOMAIN HNow /\ HNow[l] = x
    BY <2>1, <2>3, <2>4, SubdirHolds
  <2>6. Held(fat, HNow, SNow)
    BY HeldNow
  <2>7. fat[HNow[l]] # 0
    BY <2>5, <2>6, <1>5, HeldHead
  <2> QED BY <2>5, <2>7, <1>6
<1>9. NoneBehind(With(T0[d], i, F!Deleted))
  BY <1>2, NoneBehindWith
<1>10. PICK U : U = T0'
  OBVIOUS
<1>11. PICK slot : slot = F!Deleted
  OBVIOUS
<1>12. /\ VolumeNext /\ View(F!Contents', fat') /\ TreeTyped(U) /\ Dropped(T0, U, d, i, slot, x)
  BY <1>2, <1>3, <1>4, <1>5, <1>8, <1>9, <1>10, <1>11, DroppedTree
<1>13. PICK V : V = TreeWith(T0, d, i, slot)
  OBVIOUS
<1>14. /\ Entered(U) = Entered(V) /\ (\A k \in Entered(U) : F!At(U, k) = F!At(V, k))
       /\ d \in DOMAIN U /\ DOMAIN U[d] = DOMAIN T0[d]
  BY <1>0, <1>2, <1>12, <1>13, DroppedEntries
<1>15. ~F!isFatFileOrSubdir(slot) /\ slot.kind # "free" /\ T0[d][i].kind \notin {"dot", "dotdot"}
  BY <1>2, <1>3, <1>11 DEF F!isFatFileOrSubdir
<1>16. Entered(V) = Minus(Entered(T0), b) /\ SameBut(T0, V, b) /\ DOMAIN V = DOMAIN T0
  BY <1>2, <1>7, <1>13, <1>15, EnteredDrop, TreeWithIs
<1>17. /\ \A B, o, contents, onDevice, links, sector : PhaseOK("data", U, B, o, call', contents, onDevice, links, sector)
       /\ RawAt("data", call') = {} /\ Building("data", call') = {} /\ DevXAt("del", call) = {}
       /\ FreeTail(T0, {}) /\ DotKinds(T0, {})
  BY <1>1, <1>14, DeletePhase
<1>18. HeldP(U, fat, file, "data", call')
  <2>1. Entered(U) \subseteq Minus(Entered(T0), b) /\ \A k \in Entered(T0) : k # b => k \in Entered(U)
    BY <1>14, <1>16 DEF Minus
  <2>2. \A k \in Entered(U) : F!At(U, k).first = F!At(T0, k).first /\ F!At(U, k).kind = F!At(T0, k).kind
    BY <1>14, <1>16 DEF SameBut, Minus
  <2>3. HeldP(T0, fat, file, "del", call)
    BY <1>0, <1>2
  <2> QED BY <2>1, <2>2, <2>3, <1>0, <1>1, <1>2, <1>7, <1>12, DeletedHeld
<1>19. SetsP(U, "data", call')
  <2>1. FreeTail(V, {}) /\ DotKinds(V, {})
    BY <1>0, <1>2, <1>13, <1>15, <1>17, FreeTailUsed, DotKindsWith
  <2>2. FreeTail(U, {}) /\ DotKinds(U, {})
    BY <2>1, <1>12, <1>13, <1>16, DroppedSets
  <2> QED BY <2>2, <1>17 DEF SetsP
<1>20. FileIs(U, file)
  BY <1>4 DEF FileIs
<1>21. PhaseOK(pc', U, Inside', file', call', F!Contents', fatOnDevice', fat', m_sector')
  BY <1>2, <1>17
<1>22. device' = F!Contents \/ device' = device
  BY <1>2, EntryStored
<1>23. View(device', fatOnDevice') /\ Below(device', fatOnDevice', 0) \subseteq DOMAIN T0
  BY <1>2, <1>17, <1>22, DeviceKept
<1>24. Below(device', fatOnDevice', 0) \subseteq DOMAIN T0' \cup DevXAt(pc', call')
  <2>1. DevXAt(pc', call') = {x}
    BY <1>1, <1>2 DEF DevXAt
  <2>2. DOMAIN T0 \subseteq DOMAIN U \cup {x}
    BY <1>12 DEF Dropped, Minus
  <2> QED BY <2>1, <2>2, <1>10, <1>23
<1>25. Later(fatOnDevice', fat', SettlingAt(pc')) /\ Good(fat') /\ Good(fatOnDevice')
  <2>1. SettlingAt(pc') = SettlingAt(pc)
    BY <1>2 DEF SettlingAt
  <2> QED BY <2>1, <1>0, <1>2
<1>26. HeldP(T0', fat', file', pc', call') /\ SetsP(T0', pc', call') /\ FileIs(T0', file')
         /\ PhaseOK(pc', T0', Inside', file', call', F!Contents', fatOnDevice', fat', m_sector')
  BY <1>2, <1>10, <1>18, <1>19, <1>20, <1>21
<1>27. kept' \subseteq F!Cluster /\ file' \in Objects
  BY <1>0, <1>2
<1> QED BY <1>0, <1>2, <1>12, <1>23, <1>24, <1>25, <1>26, <1>27, IInvNext

-----------------------------------------------------------------------------
(* The entry i of d goes, and another one, that of e, names its directory y: the tree keeps its directories. *)
LEMMA TreeMoved ==
  ASSUME F!DirectoryAssumption, program \in FatPrograms, NEW c1, NEW c2, Sectored(c1), Sectored(c2), NEW l,
         NEW top \in F!Cluster \cup {0}, NEW y \in F!Cluster \cup {0}, NEW e, e \in Below(c1, l, top),
         e \notin Below(c1, l, y), y \in Subs(c2, l, e),
         \A z \in Below(c1, l, top) : Minus(Subs(c1, l, z), y) \subseteq Subs(c2, l, z),
         \A z \in Below(c1, l, top) : Subs(c2, l, z) \subseteq Subs(c1, l, z)
  PROVE  Below(c2, l, top) = Below(c1, l, top) /\ F!Tree(c2, l, top) = TreeOn(c2, l, Below(c1, l, top))
<1> DEFINE D == Below(c1, l, top)
           B == Below(c1, l, y)
<1>1. top \in D /\ ClosedUnder(c1, l, D) /\ (\A R : top \in R /\ ClosedUnder(c1, l, R) => D \subseteq R)
      /\ e \in D /\ e \notin B
      /\ (\A d \in D : Minus(Subs(c1, l, d), y) \subseteq Subs(c2, l, d)) /\ y \in Subs(c2, l, e)
      /\ (\A d \in D : Subs(c2, l, d) \subseteq Subs(c1, l, d))
  BY BelowIs
<1>2. ClosedUnder(c1, l, B) /\ y \in B
  BY BelowIs
<1> HIDE DEF D, B
<1>3. ClosedUnder(c2, l, D)
  BY <1>1 DEF ClosedUnder, Subs, Minus
<1>4. ASSUME NEW R, top \in R, ClosedUnder(c2, l, R) PROVE D \subseteq R
  <2> DEFINE Q == (R \cap D) \cup B
  <2>1. ClosedUnder(c1, l, Q)
    BY <1>1, <1>2, <1>4 DEF ClosedUnder, Subs, Minus
  <2>2. top \in Q
    BY <1>1, <1>4
  <2>3. D \subseteq Q
    <3> HIDE DEF Q
    <3> QED BY <2>1, <2>2, <1>1
  <2>4. e \in R /\ y \in R
    BY <2>3, <1>1, <1>4 DEF ClosedUnder, Subs, Minus
  <2>5. ClosedUnder(c1, l, R \cap D)
    BY <2>4, <1>1, <1>4 DEF ClosedUnder, Subs, Minus
  <2>6. D \subseteq R \cap D
    BY <2>5, <1>1, <1>4
  <2> QED BY <2>6
<1>5. Least(c2, l, top, D)
  BY <1>1, <1>4 DEF Least
<1> QED BY <1>3, <1>5, BelowFrom DEF D

LEMMA MovedTree ==
  ASSUME F!DirectoryAssumption, IInv, program' = program, fat' = fat, NEW d \in DOMAIN T0, NEW i \in DOMAIN T0[d],
         NEW slot \in SlotType, F!StoreEntry(d, i, slot), T0[d][i].kind = "subdir", NEW y, T0[d][i].first = y,
         ~F!isFatFileOrSubdir(slot), NoneBehind(With(T0[d], i, slot)),
         NEW e \in DOMAIN T0, NEW j \in UsedOf(T0[e]), T0[e][j].kind = "subdir", T0[e][j].first = y, <<e, j>> # <<d, i>>,
         e \notin Below(F!Contents, fat, y)
  PROVE  VolumeNext /\ View(F!Contents', fat') /\ TreeTyped(T0') /\ T0' = TreeWith(T0, d, i, slot)
<1>0. /\ TreeTyped(T0) /\ T0 = F!Tree(F!Contents, fat, 0) /\ Sectored(F!Contents) /\ program \in FatPrograms /\ View(F!Contents, fat)
  BY Now
<1>1. /\ VolumeNext /\ (\A z \in DOMAIN T0 : NoneData(F!ChainSet(fat, z), F!Contents'))
      /\ \A z \in DOMAIN T0 : F!Slots(F!Contents', fat, z) = IF z = d THEN With(T0[d], i, slot) ELSE T0[z]
  BY EntryStored
<1>2. DOMAIN T0 = Below(F!Contents, fat, 0)
      /\ \A z \in DOMAIN T0 : z \in F!Cluster \cup {0} /\ T0[z] = F!Slots(F!Contents, fat, z) /\ Indexed(T0[z]) /\ NoneBehind(T0[z])
                              /\ Subs(F!Contents, fat, z) = SubdirsOf(T0[z]) /\ SubdirsOf(T0[z]) \subseteq DOMAIN T0
  BY <1>0, TreeClosed DEF TreeTyped
<1>3. PICK c2 : c2 = F!Contents'
  OBVIOUS
<1>4. Sectored(c2)
  BY <1>1, <1>3 DEF VolumeNext
<1>5. slot.kind # "subdir"
  BY DEF F!isFatFileOrSubdir
<1>6. F!Slots(c2, fat, d) = With(T0[d], i, slot) /\ Subs(c2, fat, d) = SubdirsOf(With(T0[d], i, slot))
  <2>1. F!Slots(c2, fat, d) = With(T0[d], i, slot)
    BY <1>1, <1>3
  <2> QED BY <2>1, <1>0, <1>2, SubsIs
<1>7. ASSUME NEW z \in DOMAIN T0, z # d PROVE F!Slots(c2, fat, z) = T0[z] /\ Subs(c2, fat, z) = Subs(F!Contents, fat, z)
  BY <1>1, <1>2, <1>3, <1>7 DEF Subs
<1>8. PICK s : s = With(T0[d], i, slot)
  OBVIOUS
<1>9. Minus(SubdirsOf(T0[d]), y) \subseteq SubdirsOf(s) /\ SubdirsOf(s) \subseteq SubdirsOf(T0[d])
  <2>1. SubdirsOf(T0[d]) \ {y} \subseteq SubdirsOf(s)
    BY <1>2, <1>8, SubdirsWith
  <2>2. SubdirsOf(s) \subseteq SubdirsOf(T0[d]) \cup (IF slot.kind = "subdir" THEN {slot.first} ELSE {})
    BY <1>2, <1>8, SubdirsWith
  <2> QED BY <2>1, <2>2, <1>5 DEF Minus
<1>10. ASSUME NEW z \in DOMAIN T0
       PROVE  /\ Minus(Subs(F!Contents, fat, z), y) \subseteq Subs(c2, fat, z)
              /\ Subs(c2, fat, z) \subseteq Subs(F!Contents, fat, z)
  <2>1. CASE z = d
    BY <2>1, <1>2, <1>6, <1>8, <1>9
  <2>2. CASE z # d
    BY <2>2, <1>7 DEF Minus
  <2> QED BY <2>1, <2>2
<1>11. y \in SubdirsOf(T0[e])
  BY DEF SubdirsOf
<1>12. y \in Subs(c2, fat, e)
  <2>1. CASE e = d
    <3>1. j # i /\ j \in DOMAIN T0[d] /\ InUse(T0[d], j)
      BY <2>1 DEF UsedOf
    <3>2. s[j] = T0[d][j] /\ DOMAIN s = DOMAIN T0[d]
      BY <3>1, <1>2, <1>8, WithIs
    <3>3. j \in UsedOf(s)
      BY <3>1, <3>2 DEF UsedOf, InUse
    <3>4. y \in SubdirsOf(s)
      BY <2>1, <3>2, <3>3 DEF SubdirsOf
    <3> QED BY <2>1, <3>4, <1>6, <1>8
  <2>2. CASE e # d
    BY <2>2, <1>2, <1>7, <1>11
  <2> QED BY <2>1, <2>2
<1>13. Below(c2, fat, 0) = DOMAIN T0 /\ F!Tree(c2, fat, 0) = TreeOn(c2, fat, DOMAIN T0)
  <2>1. 0 \in F!Cluster \cup {0} /\ y \in F!Cluster \cup {0}
    BY <1>2, <1>11
  <2>2. /\ e \in Below(F!Contents, fat, 0)
        /\ \A z \in Below(F!Contents, fat, 0) : Minus(Subs(F!Contents, fat, z), y) \subseteq Subs(c2, fat, z)
        /\ \A z \in Below(F!Contents, fat, 0) : Subs(c2, fat, z) \subseteq Subs(F!Contents, fat, z)
    BY <1>2, <1>10
  <2>3. /\ Below(c2, fat, 0) = Below(F!Contents, fat, 0)
        /\ F!Tree(c2, fat, 0) = TreeOn(c2, fat, Below(F!Contents, fat, 0))
    BY <2>1, <2>2, <1>0, <1>4, <1>12, TreeMoved
  <2> QED BY <2>3, <1>2
<1>14. T0' = F!Tree(c2, fat, 0)
  BY <1>3, PrimedTree
<1>15. T0' = TreeWith(T0, d, i, slot)
  <2>1. T0 = TreeOn(F!Contents, fat, DOMAIN T0)
    BY <1>0, <1>2, BelowIs
  <2>2. \A z \in DOMAIN T0 : F!Slots(c2, fat, z) = TreeWith(T0, d, i, slot)[z]
    BY <1>2, <1>6, <1>7, TreeWithIs
  <2>3. TreeWith(T0, d, i, slot) = [z \in DOMAIN T0 |-> TreeWith(T0, d, i, slot)[z]]
    BY <2>1 DEF TreeWith, TreeOn
  <2> QED BY <1>13, <1>14, <2>2, <2>3 DEF TreeOn
<1>16. View(c2, fat)
  <2>1. \A z \in DOMAIN T0 : NoneBehind(F!Slots(c2, fat, z))
    BY <1>2, <1>6, <1>7
  <2> QED BY <2>1, <1>1, <1>3, <1>13 DEF View
<1>17. TreeTyped(T0')
  BY <1>0, <1>4, <1>14, <1>16, ViewTree
<1> QED BY <1>1, <1>3, <1>15, <1>16, <1>17

(* deleteSFN of the old entry of a directory that was renamed. *)
LEMMA DeleteMovedKeeps ==
  ASSUME F!DirectoryAssumption, IInv, F!deleteSFN, call.old.isDir, call.op = "rename"
  PROVE  IInv'
<1>0. /\ program \in FatPrograms /\ file \in Objects /\ FileIs(T0, file) /\ kept \subseteq F!Cluster /\ HeldP(T0, fat, file, pc, call)
      /\ TreeTyped(T0) /\ Good(fat) /\ Good(fatOnDevice) /\ Later(fatOnDevice, fat, SettlingAt(pc))
  BY Now
<1>1. PICK d, i, y, e, j : d = call.old.dir /\ i = call.old.index /\ y = file.first /\ e = file.dir /\ j = file.index
  OBVIOUS
<1>2. /\ program' = program /\ fatOnDevice' = fatOnDevice /\ fat' = fat /\ file' = file /\ kept' = kept
      /\ pc = "del" /\ F!StoreEntry(d, i, F!Deleted) /\ pc' = "data" /\ call' \in Calls /\ call'.old = call.old
      /\ \A k \in DOMAIN at' : at'[k] \in F!Index
      /\ DelOK(T0, Inside, file, call, F!Contents, fatOnDevice, fat)
      /\ d \in DOMAIN T0 /\ i \in DOMAIN T0[d] /\ Indexed(T0[d]) /\ NoneBehind(T0[d]) /\ ClearBefore(T0[d], i)
      /\ F!Deleted \in SlotType /\ F!Deleted.kind = "deleted"
  BY <1>1, DeleteIs
<1>3. T0[d][i].kind = "subdir"
  <2>1. T0[d][i].kind = (IF call.old.isDir THEN "subdir" ELSE "file")
    BY <1>1, DeleteIs
  <2> QED BY <2>1
<1>4. MovedOK(T0, Inside, file, call)
  BY <1>2 DEF DelOK
<1>5. /\ file.open /\ ~file.dirty /\ file.isDir /\ e \notin Inside /\ T0[d][i].first = y /\ <<e, j>> # <<d, i>>
  BY <1>1, <1>4 DEF MovedOK, RenameOK
<1>6. e \in DOMAIN T0 /\ j \in UsedOf(T0[e]) /\ T0[e][j].kind = "subdir" /\ T0[e][j].first = y
  <2>1. Object(T0, file) /\ T0[e][j].kind = "subdir" /\ T0[e][j].first = y
    BY <1>1, <1>5, OpenDir
  <2>2. e \in DOMAIN T0 /\ j \in DOMAIN T0[e]
    BY <2>1, <1>1 DEF Object, EntryIs
  <2> QED BY <2>1, <2>2 DEF UsedOf, InUse, F!isFatFileOrSubdir
<1>7. NoneBehind(With(T0[d], i, F!Deleted))
  BY <1>2, NoneBehindWith
<1>8. PICK slot, b : slot = F!Deleted /\ b = <<d, i>>
  OBVIOUS
<1>9. ~F!isFatFileOrSubdir(slot) /\ slot.kind # "free" /\ T0[d][i].kind \notin {"dot", "dotdot"}
  BY <1>2, <1>3, <1>8 DEF F!isFatFileOrSubdir
<1>10. PICK U : U = T0'
  OBVIOUS
<1>11. VolumeNext /\ View(F!Contents', fat') /\ TreeTyped(U) /\ U = TreeWith(T0, d, i, slot)
  <2>1. e \notin Below(F!Contents, fat, y)
    BY <1>1, <1>5 DEF Inside
  <2> QED BY <2>1, <1>2, <1>3, <1>5, <1>6, <1>7, <1>8, <1>9, <1>10, MovedTree
<1>12. DOMAIN U = DOMAIN T0 /\ DOMAIN U[d] = DOMAIN T0[d]
  BY <1>2, <1>11, TreeWithIs
<1>13. Entered(U) = Minus(Entered(T0), b) /\ SameBut(T0, U, b)
  BY <1>2, <1>8, <1>9, <1>11, EnteredDrop
<1>14. /\ \A B, o, contents, onDevice, links, sector : PhaseOK("data", U, B, o, call', contents, onDevice, links, sector)
       /\ RawAt("data", call') = {} /\ Building("data", call') = {} /\ DevXAt("del", call) = {}
       /\ FreeTail(T0, {}) /\ DotKinds(T0, {})
  BY <1>1, <1>2, <1>12, DeletePhase
<1>15. HeldP(U, fat, file, "data", call')
  <2>1. Entered(U) \subseteq Minus(Entered(T0), b) /\ \A k \in Entered(T0) : k # b => k \in Entered(U)
    BY <1>13 DEF Minus
  <2>2. \A k \in Entered(U) : F!At(U, k).first = F!At(T0, k).first /\ F!At(U, k).kind = F!At(T0, k).kind
    BY <1>13 DEF SameBut, Minus
  <2>3. HeldP(T0, fat, file, "del", call)
    BY <1>0, <1>2
  <2> QED BY <2>1, <2>2, <2>3, <1>0, <1>1, <1>2, <1>8, <1>11, DeletedHeld
<1>16. SetsP(U, "data", call')
  <2>1. FreeTail(U, {}) /\ DotKinds(U, {})
    BY <1>0, <1>2, <1>9, <1>11, <1>14, FreeTailUsed, DotKindsWith
  <2> QED BY <2>1, <1>14 DEF SetsP
<1>17. FileIs(U, file)
  BY <1>0, <1>1, <1>2, <1>5, <1>11, FileWith
<1>18. PhaseOK(pc', U, Inside', file', call', F!Contents', fatOnDevice', fat', m_sector')
  BY <1>2, <1>14
<1>19. device' = F!Contents \/ device' = device
  BY <1>2, EntryStored
<1>20. View(device', fatOnDevice') /\ Below(device', fatOnDevice', 0) \subseteq DOMAIN T0
  BY <1>2, <1>14, <1>19, DeviceKept
<1>21. Below(device', fatOnDevice', 0) \subseteq DOMAIN T0' \cup DevXAt(pc', call')
  BY <1>10, <1>12, <1>20
<1>22. Later(fatOnDevice', fat', SettlingAt(pc')) /\ Good(fat') /\ Good(fatOnDevice')
  <2>1. SettlingAt(pc') = SettlingAt(pc)
    BY <1>2 DEF SettlingAt
  <2> QED BY <2>1, <1>0, <1>2
<1>23. HeldP(T0', fat', file', pc', call') /\ SetsP(T0', pc', call') /\ FileIs(T0', file')
         /\ PhaseOK(pc', T0', Inside', file', call', F!Contents', fatOnDevice', fat', m_sector')
  BY <1>2, <1>10, <1>15, <1>16, <1>17, <1>18
<1>24. kept' \subseteq F!Cluster /\ file' \in Objects
  BY <1>0, <1>2
<1> QED BY <1>0, <1>2, <1>11, <1>20, <1>21, <1>22, <1>23, <1>24, IInvNext

LEMMA DeleteSfnKeeps ==
  ASSUME F!DirectoryAssumption, IInv, F!deleteSFN
  PROVE  IInv'
<1>1. call.op \in {"remove", "rename"}
  <2>1. PICK d, i : d = call.old.dir /\ i = call.old.index
    OBVIOUS
  <2> QED BY <2>1, DeleteIs
<1> QED BY <1>1, DeleteFileKeeps, DeleteDirKeeps, DeleteMovedKeeps

-----------------------------------------------------------------------------
(* moveDotDot: the entry 1 of y changes and the chain of x goes. *)
LEMMA DotDotNow ==
  ASSUME F!DirectoryAssumption, IInv, F!moveDotDot, NEW x, x = call.first, NEW y, y = file.first
  PROVE  /\ program' = program /\ fatOnDevice' = fatOnDevice /\ file' = file /\ at' = at /\ kept' = kept
         /\ pc = "dotdot" /\ pc' = "del" /\ call' = call /\ MovedOK(T0, Inside, file, call)
         /\ file.open /\ file.isDir /\ y \in DOMAIN T0 /\ y \in F!Cluster /\ y # 0 /\ FirstOf(y) = y /\ y \in Inside
         /\ m_sector = SectorAt(fat, call.dir, call.index) /\ call.dir \in DOMAIN T0 /\ call.index \in DOMAIN T0[call.dir]
         /\ x # 0 /\ x \in F!Cluster /\ x # rootDirStart /\ x \notin Targets(fat) /\ fat[x] # 0 /\ x \notin DOMAIN T0 /\ FirstOf(x) = x
         /\ (\A d \in DOMAIN T0 : x \notin F!ChainSet(fat, d))
         /\ GoneAt(pc, call) = {<<call.old.dir, call.old.index>>} /\ PendingAt(pc, call) = x /\ SettlingAt(pc) = FALSE
         /\ FreeTail(T0, {}) /\ DotKinds(T0, {})
         /\ F!DotDot \in SlotType /\ F!DotDot.kind = "dotdot" /\ F!StoreEntry(y, 1, F!DotDot)
         /\ fat' = Freed(fat, x)
<1>0. /\ program \in FatPrograms /\ SetsP(T0, pc, call) /\ FileIs(T0, file) /\ TreeTyped(T0) /\ Good(fat)
      /\ PhaseOK(pc, T0, Inside, file, call, F!Contents, fatOnDevice, fat, m_sector) /\ Sectored(F!Contents)
  BY Now
<1>1. /\ program' = program /\ fatOnDevice' = fatOnDevice /\ file' = file /\ at' = at /\ kept' = kept
      /\ pc = "dotdot" /\ pc' = "del" /\ call' = call /\ fat' = F!FreeChain(x) /\ F!Store(y, [F!Contents[y] EXCEPT ![1] = F!DotDot])
  BY DEF F!moveDotDot, F!Goes, F!history
<1>2. DotdotOK(T0, Inside, file, call, F!Contents) /\ m_sector = SectorAt(fat, call.dir, call.index)
  BY <1>0, <1>1, PhaseIs
<1>3. /\ MovedOK(T0, Inside, file, call) /\ file.isDir /\ file.open /\ x \in F!Cluster \ DOMAIN T0
      /\ F!Contents[x] # F!Data /\ F!DotDot.kind = "dotdot"
  BY <1>2 DEF DotdotOK, MovedOK, F!DotDot
<1>4. y \in DOMAIN T0 /\ y \in F!Cluster /\ y # 0 /\ FirstOf(y) = y /\ Object(T0, file)
  BY <1>3, OpenDir
<1>5. y \in Inside
  BY <1>3, InsideWithin
<1>6. call.dir \in DOMAIN T0 /\ call.index \in DOMAIN T0[call.dir]
  BY <1>3, <1>4 DEF MovedOK, Object, EntryIs
<1>7. x # 0
  BY <1>0, <1>3, Setting
<1>8. GoneAt(pc, call) = {<<call.old.dir, call.old.index>>} /\ PendingAt(pc, call) = x /\ SettlingAt(pc) = FALSE
      /\ Building(pc, call) = {} /\ RawAt(pc, call) = {}
  BY <1>1, BuildingNone DEF GoneAt, PendingAt, SettlingAt, RawAt, PhaseOf
<1>9. FreeTail(T0, {}) /\ DotKinds(T0, {})
  BY <1>0, <1>8 DEF SetsP
<1>10. x \notin Targets(fat) /\ fat[x] # 0 /\ FirstOf(x) = x /\ \A d \in DOMAIN T0 : x \notin F!ChainSet(fat, d)
  <2>1. x = PendingAt(pc, call) /\ pc # "del"
    BY <1>1, <1>8
  <2> QED BY <2>1, <1>7, PendingIs
<1>11. x # rootDirStart
  <2>1. 0 \in DOMAIN T0
    BY <1>0 DEF TreeTyped
  <2>2. rootDirStart \in F!ChainSet(fat, 0)
    BY <1>0, ChainSetIs DEF FirstOf
  <2> QED BY <2>1, <2>2, <1>10
<1>12. 1 \in 0 .. F!EntriesPerSector - 1
  BY <1>0, Setting
<1>13. F!DotDot \in SlotType
  <2>1. F!Contents[x] \in DirSector
    BY <1>0, <1>3 DEF Sectored
  <2> QED BY <2>1, <1>12 DEF DirSector, F!DotDot
<1>14. F!StoreEntry(y, 1, F!DotDot)
  <2>1. SectorAt(fat, y, 1) = y /\ 1 % F!EntriesPerSector = 1
    BY <1>0, <1>4, <1>12, FirstSector
  <2>2. F!SectorOf(y, 1) = y
    BY <2>1 DEF F!SectorOf, F!Sectors, SectorAt
  <2> QED BY <2>1, <2>2, <1>1 DEF F!StoreEntry
<1>15. fat' = Freed(fat, x)
  BY <1>1, <1>7 DEF F!FreeChain, Freed
<1> QED BY <1>1, <1>2, <1>3, <1>4, <1>5, <1>6, <1>7, <1>8, <1>9, <1>10, <1>11, <1>13, <1>14, <1>15

(* A chain goes that the device may still have. *)
LEMMA LaterFreed ==
  ASSUME F!DirectoryAssumption, program \in FatPrograms, NEW od, NEW l, Good(l), Later(od, l, FALSE),
         NEW x \in F!Cluster, x # rootDirStart, x \notin Targets(l), l[x] # 0, NEW l2, l2 = Freed(l, x)
  PROVE  Later(od, l2, TRUE)
<1>1. FirstOf(x) = x
  BY Setting DEF FirstOf
<1>2. PICK gone : gone = F!ChainSet(l, x)
  OBVIOUS
<1>3. gone \in SUBSET F!Cluster /\ \A z \in gone : l[z] \in F!Cluster => l[z] \in gone
  BY <1>1, <1>2, ChainFacts, ChainSetIs
<1>4. \A z \in F!Cluster : l2[z] = IF z \in gone THEN 0 ELSE l[z]
  BY <1>2, FatFree DEF Freed
<1>5. ASSUME NEW z \in F!Cluster, od[z] \in F!Cluster
      PROVE  l2[z] = od[z] \/ (l2[z] = 0 /\ l2[od[z]] = 0)
  <2>1. l[z] = od[z]
    BY <1>5 DEF Later
  <2> QED BY <2>1, <1>3, <1>4, <1>5
<1> QED BY <1>5 DEF Later

(* Entries change and the chain of a cluster outside of the tree goes. *)
LEMMA FreedTree ==
  ASSUME F!DirectoryAssumption, IInv, program' = program, NEW y \in DOMAIN T0, NEW i \in DOMAIN T0[y], NEW slot \in SlotType,
         F!StoreEntry(y, i, slot), NoneBehind(With(T0[y], i, slot)), T0[y][i].kind # "subdir", slot.kind # "subdir",
         NEW x \in F!Cluster, x # rootDirStart, x \notin Targets(fat), fat[x] # 0, \A d \in DOMAIN T0 : x \notin F!ChainSet(fat, d),
         fat' = Freed(fat, x), pc # "del"
  PROVE  /\ VolumeNext /\ View(F!Contents', fat') /\ TreeTyped(T0') /\ T0' = TreeWith(T0, y, i, slot) /\ Good(fat')
         /\ \A d \in DOMAIN T0 : Below(F!Contents', fat', d) = Below(F!Contents, fat, d)
         /\ (Later(fatOnDevice, fat, FALSE) => Later(fatOnDevice, fat', TRUE))
<1>0. /\ TreeTyped(T0) /\ T0 = F!Tree(F!Contents, fat, 0) /\ Sectored(F!Contents) /\ program \in FatPrograms /\ View(F!Contents, fat) /\ Good(fat)
  BY Now
<1>1. /\ VolumeNext /\ (\A e \in DOMAIN T0 : NoneData(F!ChainSet(fat, e), F!Contents'))
      /\ \A e \in DOMAIN T0 : F!Slots(F!Contents', fat, e) = IF e = y THEN With(T0[y], i, slot) ELSE T0[e]
  BY EntryStored
<1>2. DOMAIN T0 = Below(F!Contents, fat, 0)
      /\ \A e \in DOMAIN T0 : e \in F!Cluster \cup {0} /\ T0[e] = F!Slots(F!Contents, fat, e) /\ Indexed(T0[e]) /\ NoneBehind(T0[e])
                              /\ Subs(F!Contents, fat, e) = SubdirsOf(T0[e])
  BY <1>0, TreeClosed DEF TreeTyped
<1>3. PICK c2, l2 : c2 = F!Contents' /\ l2 = fat'
  OBVIOUS
<1>4. Sectored(c2)
  BY <1>1, <1>3 DEF VolumeNext
<1>5. /\ Good(l2) /\ \A z \in F!Cluster : l2[z] = IF z \in F!ChainSet(fat, x) THEN 0 ELSE fat[z]
      /\ \A e \in F!Cluster \cup {0} : FirstOf(e) \notin Targets(fat) /\ FirstOf(e) # x
              => F!Chain(l2, e) = F!Chain(fat, e) /\ F!ChainSet(l2, e) = F!ChainSet(fat, e)
  BY <1>0, <1>3, FatFree DEF Freed
<1>6. ASSUME NEW e \in DOMAIN T0
      PROVE  F!Slots(c2, l2, e) = F!Slots(c2, fat, e) /\ F!ChainSet(l2, e) = F!ChainSet(fat, e)
  <2>1. FirstOf(e) \in F!ChainSet(fat, e) /\ x \notin F!ChainSet(fat, e) /\ e \in F!Cluster \cup {0}
    BY <1>0, <1>2, ChainSetIs
  <2>2. FirstOf(e) \notin Targets(fat)
    BY DirHeld
  <2>3. F!Chain(l2, e) = F!Chain(fat, e) /\ F!ChainSet(l2, e) = F!ChainSet(fat, e)
    BY <2>1, <2>2, <1>5
  <2>4. AgreeOn(F!ChainSet(fat, e), c2, c2)
    BY DEF AgreeOn
  <2> QED BY <2>1, <2>3, <2>4, <1>0, SlotsAgree
<1>7. SubdirsOf(With(T0[y], i, slot)) = SubdirsOf(T0[y])
  BY <1>2, SubdirsWith
<1>8. ASSUME NEW e \in DOMAIN T0
      PROVE  Subs(c2, l2, e) = Subs(F!Contents, fat, e) /\ NoneBehind(F!Slots(c2, l2, e)) /\ F!Slots(c2, l2, e) = TreeWith(T0, y, i, slot)[e]
  <2>1. F!Slots(c2, l2, e) = F!Slots(F!Contents', fat, e)
    BY <1>3, <1>6
  <2>2. CASE e = y
    <3>1. F!Slots(c2, l2, e) = With(T0[y], i, slot) /\ NoneBehind(F!Slots(c2, l2, e))
      BY <2>1, <2>2, <1>1
    <3>2. Subs(c2, l2, e) = SubdirsOf(F!Slots(c2, l2, e))
      BY <1>0, <1>2, <3>1, SubsIs
    <3> QED BY <2>2, <3>1, <3>2, <1>2, <1>7, TreeWithIs
  <2>3. CASE e # y
    <3>1. F!Slots(c2, l2, e) = T0[e]
      BY <2>1, <2>3, <1>1
    <3> QED BY <2>3, <3>1, <1>2, TreeWithIs DEF Subs
  <2> QED BY <2>2, <2>3
<1>9. ASSUME NEW d \in DOMAIN T0
      PROVE  /\ Below(c2, l2, d) = Below(F!Contents, fat, d)
             /\ F!Tree(c2, l2, d) = TreeOn(c2, l2, Below(F!Contents, fat, d))
  <2>1. \A e \in Below(F!Contents, fat, d) : Subs(c2, l2, e) = Subs(F!Contents, fat, e)
    <3>1. Below(F!Contents, fat, d) \subseteq DOMAIN T0
      BY <1>0, <1>2, BelowWithin
    <3> QED BY <3>1, <1>8
  <2> QED BY <2>1, <1>0, <1>2, <1>4, TreeKept
<1>10. T0' = TreeOn(c2, l2, DOMAIN T0) /\ Below(c2, l2, 0) = DOMAIN T0 /\ T0' = F!Tree(c2, l2, 0)
  <2>1. 0 \in DOMAIN T0
    BY <1>0 DEF TreeTyped
  <2> QED BY <2>1, <1>2, <1>3, <1>9, PrimedTree
<1>11. T0' = TreeWith(T0, y, i, slot)
  <2>1. T0 = TreeOn(F!Contents, fat, DOMAIN T0)
    BY <1>0, <1>2, BelowIs
  <2>2. TreeWith(T0, y, i, slot) = [e \in DOMAIN T0 |-> TreeWith(T0, y, i, slot)[e]]
    BY <2>1 DEF TreeWith, TreeOn
  <2> QED BY <1>8, <1>10, <2>2 DEF TreeOn
<1>12. View(c2, l2)
  <2>1. \A e \in DOMAIN T0 : NoneData(F!ChainSet(l2, e), c2) /\ NoneBehind(F!Slots(c2, l2, e))
    BY <1>1, <1>3, <1>6, <1>8
  <2> QED BY <2>1, <1>10 DEF View
<1>13. TreeTyped(T0')
  BY <1>0, <1>4, <1>10, <1>12, ViewTree
<1>14. Later(fatOnDevice, fat, FALSE) => Later(fatOnDevice, l2, TRUE)
  BY <1>0, <1>3, LaterFreed
<1> QED BY <1>1, <1>3, <1>5, <1>9, <1>11, <1>12, <1>13, <1>14

LEMMA PendingHolds ==
  ASSUME NEW T, TreeTyped(T), NEW U, TreeTyped(U), NEW o, NEW gone, NEW x, x # 0, Entered(U) = Entered(T),
         \A k \in Entered(T) : F!At(U, k) = F!At(T, k),
         NEW H, NEW single, H = Holding(T, o, gone, x), single = Singles(T, H),
         NEW H2, NEW single2, H2 = Holding(U, o, gone, 0), single2 = Singles(U, H2)
  PROVE  WithoutHolder(H, single, H2, single2, NewKey) /\ H[NewKey] = x
<1>1. /\ NewKey \in DOMAIN H /\ H[NewKey] = x /\ RootKey \in DOMAIN H /\ H[RootKey] = rootDirStart /\ NewKey # RootKey
  BY HoldingIs DEF NewKey, RootKey
<1>2. \A k \in Entered(T) : k # NewKey /\ k # RootKey
  BY EnteredKey
<1>3. DOMAIN H2 = DOMAIN H \ {NewKey}
  BY <1>1, <1>2 DEF Holding, HolderKeys
<1>4. ASSUME NEW j \in DOMAIN H2 PROVE H2[j] = H[j] /\ (j \in single2 => j \in single)
  <2>1. j \in DOMAIN H /\ j # NewKey
    BY <1>3, <1>4
  <2>2. H2[j] = Holder(U, o, 0, j) /\ H[j] = Holder(T, o, x, j)
    BY <1>4, <2>1 DEF Holding
  <2>3. j = RootKey \/ j \in Entered(T)
    BY <2>1 DEF Holding, HolderKeys
  <2>4. H2[j] = H[j]
    BY <2>1, <2>2, <2>3 DEF Holder
  <2> QED BY <2>1, <2>3, <2>4 DEF Singles
<1> QED BY <1>1, <1>3, <1>4 DEF WithoutHolder

LEMMA MoveDotDotKeeps ==
  ASSUME F!DirectoryAssumption, IInv, F!moveDotDot
  PROVE  IInv'
<1>0. /\ program \in FatPrograms /\ file \in Objects /\ FileIs(T0, file) /\ kept \subseteq F!Cluster /\ HeldP(T0, fat, file, pc, call)
      /\ TreeTyped(T0) /\ Good(fat) /\ Good(fatOnDevice) /\ Later(fatOnDevice, fat, SettlingAt(pc)) /\ call \in Calls
      /\ \A k \in DOMAIN at : at[k] \in F!Index
  BY Now
<1>1. PICK x, y, slot, a : x = call.first /\ y = file.first /\ slot = F!DotDot /\ a = <<call.old.dir, call.old.index>>
  OBVIOUS
<1>2. /\ program' = program /\ fatOnDevice' = fatOnDevice /\ file' = file /\ at' = at /\ kept' = kept
      /\ pc = "dotdot" /\ pc' = "del" /\ call' = call /\ MovedOK(T0, Inside, file, call)
      /\ file.open /\ file.isDir /\ y \in DOMAIN T0 /\ y \in F!Cluster /\ y # 0 /\ FirstOf(y) = y /\ y \in Inside
      /\ m_sector = SectorAt(fat, call.dir, call.index) /\ call.dir \in DOMAIN T0 /\ call.index \in DOMAIN T0[call.dir]
  BY <1>1, DotDotNow
<1>3. /\ x # 0 /\ x \in F!Cluster /\ x # rootDirStart /\ x \notin Targets(fat) /\ fat[x] # 0
      /\ (\A d \in DOMAIN T0 : x \notin F!ChainSet(fat, d)) /\ fat' = Freed(fat, x)
  BY <1>1, DotDotNow
<1>4. /\ GoneAt(pc, call) = {a} /\ PendingAt(pc, call) = x /\ SettlingAt(pc) = FALSE
      /\ FreeTail(T0, {}) /\ DotKinds(T0, {})
  BY <1>1, DotDotNow
<1>5. slot \in SlotType /\ slot.kind = "dotdot" /\ F!StoreEntry(y, 1, slot)
  BY <1>1, DotDotNow
<1>6. \A e \in DOMAIN T0 : 0 \in DOMAIN T0[e] /\ 1 \in DOMAIN T0[e] /\ Indexed(T0[e]) /\ NoneBehind(T0[e])
  BY <1>0 DEF TreeTyped, DirSlots
<1>7. 1 \in DOMAIN T0[y] /\ T0[y][1].kind = "dotdot" /\ Indexed(T0[y]) /\ NoneBehind(T0[y])
  BY <1>2, <1>4, <1>6 DEF DotKinds
<1>8. ~F!isFatFileOrSubdir(slot) /\ ~F!isFatFileOrSubdir(T0[y][1])
  BY <1>5, <1>7 DEF F!isFatFileOrSubdir
<1>9. ClearBefore(T0[y], 1)
  BY <1>7, UsedClear
<1>10. NoneBehind(With(T0[y], 1, slot))
  BY <1>5, <1>7, <1>9, NoneBehindWith
<1>11. PICK U : U = T0'
  OBVIOUS
<1>12. /\ VolumeNext /\ View(F!Contents', fat') /\ TreeTyped(U) /\ U = TreeWith(T0, y, 1, slot) /\ Good(fat')
       /\ (\A d \in DOMAIN T0 : Below(F!Contents', fat', d) = Below(F!Contents, fat, d))
       /\ Later(fatOnDevice, fat', TRUE)
  <2>1. T0[y][1].kind # "subdir" /\ slot.kind # "subdir" /\ pc # "del"
    BY <1>2, <1>5, <1>7
  <2>2. Later(fatOnDevice, fat, FALSE)
    BY <1>0, <1>4
  <2> QED BY <2>1, <2>2, <1>2, <1>3, <1>5, <1>7, <1>10, <1>11, FreedTree
<1>13. /\ DOMAIN U = DOMAIN T0 /\ (\A e \in DOMAIN T0 : DOMAIN U[e] = DOMAIN T0[e])
       /\ \A e \in DOMAIN T0 : \A j \in DOMAIN T0[e] : U[e][j] = IF e = y /\ j = 1 THEN slot ELSE T0[e][j]
  BY <1>2, <1>7, <1>12, TreeWithIs
<1>14. PICK b : b = <<y, 1>>
  OBVIOUS
<1>15. Entered(U) = Entered(T0) /\ \A k \in Entered(T0) : F!At(U, k) = F!At(T0, k) /\ k # b
  <2>1. b \notin Entered(T0)
    <3>1. b[1] = y /\ b[2] = 1
      BY <1>14
    <3> QED BY <3>1, <1>8, EnteredIs DEF UsedOf, InUse
  <2>2. Entered(U) = Minus(Entered(T0), b) /\ SameBut(T0, U, b)
    BY <1>2, <1>7, <1>8, <1>12, <1>14, EnteredDrop
  <2> QED BY <2>1, <2>2 DEF Minus, SameBut
<1>16. FileIs(U, file)
  <2>1. <<file.dir, file.index>> # <<y, 1>>
    BY <1>0, <1>2, <1>8, FileAway
  <2> QED BY <2>1, <1>0, <1>2, <1>7, <1>12, FileWith
<1>17. PICK H, H2, single, single2 : /\ H = Holding(T0, file, {a}, x) /\ H2 = Holding(U, file, {a}, 0)
                                     /\ single = Singles(T0, H) /\ single2 = Singles(U, H2)
  OBVIOUS
<1>18. Held(fat, H, single)
  BY <1>0, <1>4, <1>17 DEF HeldP, HoldsP
<1>19. WithoutHolder(H, single, H2, single2, NewKey) /\ H[NewKey] = x
  BY <1>0, <1>3, <1>12, <1>15, <1>17, PendingHolds
<1>20. Held(Freed(fat, x), H2, single2)
  BY <1>0, <1>3, <1>18, <1>19, FreedHolder
<1>21. GoneAt("del", call) = {a} /\ PendingAt("del", call) = 0 /\ RawAt("del", call) = {} /\ Building("del", call) = {}
       /\ SettlingAt("del") = TRUE
  BY <1>1, BuildingNone DEF GoneAt, PendingAt, RawAt, PhaseOf, SettlingAt
<1>22. HeldP(U, fat', file, "del", call)
  BY <1>3, <1>17, <1>20, <1>21 DEF HeldP, HoldsP
<1>23. FreeTail(U, {}) /\ DotKinds(U, {})
  <2>1. slot.kind # "free"
    BY <1>5
  <2>2. FreeTail(U, {})
    BY <2>1, <1>2, <1>4, <1>7, <1>9, <1>12, FreeTailUsed
  <2>3. ASSUME NEW d \in DOMAIN U, d # 0 PROVE U[d][0].kind = "dot" /\ U[d][1].kind = "dotdot"
    <3>1. T0[d][0].kind = "dot" /\ T0[d][1].kind = "dotdot"
      BY <2>3, <1>4, <1>13 DEF DotKinds
    <3> QED BY <3>1, <1>5, <1>6, <1>13
  <2> QED BY <2>2, <2>3 DEF DotKinds
<1>24. SetsP(U, "del", call)
  BY <1>21, <1>23 DEF SetsP
<1>25. PICK B2 : B2 = Inside'
  OBVIOUS
<1>26. B2 = Inside
  <2>1. Below(F!Contents', fat', y) = Below(F!Contents, fat, y)
    BY <1>2, <1>12
  <2>2. Inside' = Below(F!Contents', fat', y)
    BY <1>1, <1>2, PrimedInside
  <2> QED BY <2>1, <2>2, <1>1, <1>25 DEF Inside
<1>27. MovedOK(U, B2, file, call)
  <2>1. OldIs(T0, call) /\ T0[call.old.dir][call.old.index].first = call.old.first
    BY <1>2 DEF MovedOK
  <2>2. call.old.dir \in DOMAIN T0 /\ call.old.index \in DOMAIN T0[call.old.dir] /\ F!isFatFileOrSubdir(T0[call.old.dir][call.old.index])
    BY <2>1 DEF OldIs, EntryIs, F!isFatFileOrSubdir
  <2>3. ~(call.old.dir = y /\ call.old.index = 1)
    BY <2>2, <1>8
  <2>4. U[call.old.dir][call.old.index] = T0[call.old.dir][call.old.index]
    BY <2>2, <2>3, <1>13
  <2>5. OldIs(U, call)
    BY <2>1, <2>2, <2>4, <1>13 DEF OldIs, EntryIs
  <2> QED BY <2>1, <2>4, <2>5, <1>2, <1>26 DEF MovedOK
<1>28. PhaseOK("del", U, B2, file, call, F!Contents', fatOnDevice', fat', m_sector')
  <2>1. DelOK(U, B2, file, call, F!Contents', fatOnDevice', fat')
    BY <1>27 DEF DelOK
  <2> QED BY <2>1, PhaseIs
<1>29. device' = F!Contents
  <2>1. device' = F!Contents \/ m_sector = SectorAt(fat, y, 1)
    BY <1>2, <1>5, <1>7, EntryStored
  <2>2. SectorAt(fat, y, 1) \in F!ChainSet(fat, y)
    BY <1>2, <1>5, <1>7, EntryStored
  <2>3. SectorAt(fat, call.dir, call.index) \in F!ChainSet(fat, call.dir)
    BY <1>0, <1>2, SizeNow, IndexPlace
  <2>4. call.dir # y
    BY <1>2 DEF MovedOK, RenameOK
  <2>5. F!ChainSet(fat, call.dir) \cap F!ChainSet(fat, y) = {}
    BY <2>4, <1>2, DirsApart
  <2> QED BY <2>1, <2>2, <2>3, <2>5, <1>2
<1>30. View(device', fatOnDevice') /\ Below(device', fatOnDevice', 0) \subseteq DOMAIN T0
  BY <1>2, <1>29, DeviceKept
<1>31. Below(device', fatOnDevice', 0) \subseteq DOMAIN T0' \cup DevXAt(pc', call')
  BY <1>11, <1>13, <1>30
<1>32. Later(fatOnDevice', fat', SettlingAt(pc')) /\ Good(fat') /\ Good(fatOnDevice')
  BY <1>0, <1>2, <1>12, <1>21
<1>33. HeldP(T0', fat', file', pc', call') /\ SetsP(T0', pc', call') /\ FileIs(T0', file')
         /\ PhaseOK(pc', T0', Inside', file', call', F!Contents', fatOnDevice', fat', m_sector')
  BY <1>2, <1>11, <1>16, <1>22, <1>24, <1>25, <1>28
<1>34. call' \in Calls /\ file' \in Objects /\ (\A k \in DOMAIN at' : at'[k] \in F!Index) /\ kept' \subseteq F!Cluster
  BY <1>0, <1>2
<1> QED BY <1>0, <1>2, <1>12, <1>30, <1>31, <1>32, <1>33, <1>34, IInvNext

-----------------------------------------------------------------------------
(* A chain is walked to its end, wherever it is entered. *)
LEMMA ChainRising ==
  ASSUME F!DirectoryAssumption, program \in FatPrograms, NEW l, Good(l), NEW d \in F!Cluster \cup {0},
         NEW c \in F!ChainSet(l, d), l[c] \in F!Cluster
  PROVE  l[c] \in F!ChainSet(l, d) /\ l[c] # FirstOf(d)
<1> DEFINE s == F!Chain(l, d)
           Bad(rank) == {i \in 1 .. Len(s) : rank[s[i]] # rank[s[1]] + i - 1}
<1>1. PICK rank \in [F!Cluster -> 1 .. F!MaxDirSectors] : \A x \in F!Cluster : l[x] \in F!Cluster => rank[l[x]] = rank[x] + 1
  BY DEF Good
<1>2. IsChain(l, d, s) /\ F!ChainSet(l, d) = {s[i] : i \in 1 .. Len(s)}
  BY ChainIs, ChainSetIs
<1> HIDE DEF s
<1>3. /\ s \in Seq(F!Cluster) /\ Len(s) \in Nat \ {0} /\ s[1] = FirstOf(d) /\ Len(s) <= F!MaxDirSectors
      /\ \A i \in 1 .. Len(s) - 1 : s[i + 1] = l[s[i]]
      /\ (Len(s) < F!MaxDirSectors => l[s[Len(s)]] \notin F!Cluster)
      /\ F!MaxDirSectors \in Nat
  BY <1>2, Setting DEF IsChain
<1>4. \A i \in 1 .. Len(s) : s[i] \in F!Cluster /\ rank[s[i]] \in 1 .. F!MaxDirSectors
  BY SMTT(60), <1>1, <1>3
<1>5. Bad(rank) = {}
  <2>1. SUFFICES ASSUME Bad(rank) # {} PROVE FALSE
    OBVIOUS
  <2>2. PICK i \in Bad(rank) : \A j \in Bad(rank) : i <= j
    BY <2>1, LeastNat, Bad(rank) \subseteq Nat
  <2>3. i \in 1 .. Len(s) /\ rank[s[i]] # rank[s[1]] + i - 1
    BY <2>2
  <2>4. i # 1
    BY <1>3, <1>4, <2>3
  <2>5. i - 1 \in 1 .. Len(s) - 1 /\ i - 1 \in 1 .. Len(s) /\ (i - 1) + 1 = i /\ ~(i <= i - 1)
    BY <2>3, <2>4, <1>3
  <2>6. rank[s[i - 1]] = rank[s[1]] + (i - 1) - 1
    BY <2>2, <2>5
  <2>7. s[(i - 1) + 1] = l[s[i - 1]] /\ s[i - 1] \in F!Cluster /\ s[i] \in F!Cluster
    BY <1>3, <1>4, <2>3, <2>5
  <2>8. rank[s[i]] = rank[s[i - 1]] + 1
    BY <1>1, <2>5, <2>7
  <2>9. rank[s[1]] \in Nat /\ rank[s[i]] \in Nat /\ rank[s[i - 1]] \in Nat /\ 1 \in 1 .. Len(s)
    <3>1. 1 \in 1 .. Len(s)
      BY <1>3
    <3>2. 1 .. F!MaxDirSectors \subseteq Nat
      BY <1>3
    <3> QED BY <3>1, <3>2, <1>4, <2>3, <2>5
  <2> QED BY SMTT(60), <2>3, <2>6, <2>8, <2>9
<1>6. PICK i \in 1 .. Len(s) : c = s[i]
  BY <1>2
<1>7. rank[c] = rank[s[1]] + i - 1 /\ rank[l[c]] = rank[c] + 1 /\ rank[l[c]] \in 1 .. F!MaxDirSectors
      /\ rank[s[1]] \in 1 .. F!MaxDirSectors /\ rank[c] \in Nat
  <2>1. rank[s[i]] = rank[s[1]] + i - 1
    BY <1>5
  <2>2. 1 \in 1 .. Len(s) /\ 1 .. F!MaxDirSectors \subseteq Nat
    BY <1>3
  <2>3. c \in F!Cluster /\ rank[c] \in 1 .. F!MaxDirSectors /\ rank[s[1]] \in 1 .. F!MaxDirSectors
    BY <2>2, <1>4, <1>6
  <2> QED BY <2>1, <2>2, <2>3, <1>1, <1>6
<1>8. i # Len(s)
  <2>1. SUFFICES ASSUME i = Len(s) PROVE FALSE
    OBVIOUS
  <2>2. Len(s) = F!MaxDirSectors
    BY <2>1, <1>3, <1>6
  <2> QED BY <2>1, <2>2, <1>3, <1>7
<1>9. i \in 1 .. Len(s) - 1 /\ i + 1 \in 1 .. Len(s) /\ s[i + 1] = l[c]
  BY <1>3, <1>6, <1>8
<1>10. l[c] # s[1]
  <2>1. PICK r, n : r = rank[s[1]] /\ n = rank[l[c]]
    OBVIOUS
  <2>2. r \in Nat /\ i \in Nat \ {0} /\ n = (r + i - 1) + 1
    BY SMTT(60), <2>1, <1>3, <1>7
  <2>3. n # r
    BY <2>2
  <2> QED BY <2>1, <2>3
<1> QED BY <1>2, <1>3, <1>9, <1>10

(* What an intact volume says of its clusters. *)
OwnFirsts(T) == {F!At(T, e).first : e \in {x \in Entered(T) : F!At(T, x).first # 0}}
LEMMA IntactIs ==
  ASSUME NEW T, TreeTyped(T), NEW l, F!Intact(T, l)
  PROVE  /\ \A c \in F!Cluster : l[c] # 0 => c \in F!ChainSet(l, 0) \/ \E f \in OwnFirsts(T) : c \in F!ChainSet(l, f)
         /\ \A f \in OwnFirsts(T) : \A c \in F!ChainSet(l, f) : c \in F!Cluster /\ l[c] # 0
         /\ \A e, f \in Entered(T) : F!At(T, e).first # 0 =>
              /\ F!At(T, e).first \notin F!ChainSet(l, 0)
              /\ F!At(T, e).kind = "file" => l[F!At(T, e).first] = EOC
              /\ e # f => F!At(T, e).first \notin F!ChainSet(l, F!At(T, f).first)
         /\ F!NoOrphans(T) /\ F!DotsOf(T)
<1>1. F!EntriesOf(T) = Entered(T)
  BY EntriesOfIs DEF TreeTyped
<1>2. F!ChainSet(l, 0) \cup UNION {F!ChainSet(l, f) : f \in OwnFirsts(T)} = {c \in F!Cluster : l[c] # 0}
  <2>1. F!Reached(T, l, Entered(T)) = {c \in F!Cluster : l[c] # 0}
    BY <1>1 DEF F!Intact
  <2>2. UNION {F!ChainSet(l, F!At(T, e).first) : e \in {x \in Entered(T) : F!At(T, x).first # 0}}
          = UNION {F!ChainSet(l, f) : f \in OwnFirsts(T)}
    BY DEF OwnFirsts
  <2> QED BY <2>1, <2>2 DEF F!Reached
<1>3. \A c \in F!Cluster : l[c] # 0 => c \in F!ChainSet(l, 0) \/ \E f \in OwnFirsts(T) : c \in F!ChainSet(l, f)
  BY <1>2
<1>4. \A f \in OwnFirsts(T) : \A c \in F!ChainSet(l, f) : c \in F!Cluster /\ l[c] # 0
  BY <1>2
<1>5. \A e, f \in Entered(T) : F!At(T, e).first # 0 =>
              /\ F!At(T, e).first \notin F!ChainSet(l, 0)
              /\ F!At(T, e).kind = "file" => l[F!At(T, e).first] = EOC
              /\ e # f => F!At(T, e).first \notin F!ChainSet(l, F!At(T, f).first)
  BY <1>1 DEF F!Intact
<1> QED BY <1>3, <1>4, <1>5 DEF F!Intact

LEMMA IntactHeads ==
  ASSUME F!DirectoryAssumption, program \in FatPrograms, NEW T, TreeTyped(T), NEW l, Good(l), F!Intact(T, l),
         NEW e \in Entered(T), NEW x, x = F!At(T, e).first, x # 0
  PROVE  x \in F!Cluster /\ l[x] # 0 /\ x \notin Targets(l) /\ x # rootDirStart /\ (F!At(T, e).kind = "file" => l[x] = EOC)
         /\ \A f \in Entered(T) : F!At(T, f).first = x => f = e
<1>1. x \in F!Cluster /\ FirstOf(x) = x /\ x \in OwnFirsts(T) /\ FirstOf(0) = rootDirStart
  BY EnteredKey DEF SlotType, FirstOf, OwnFirsts
<1>2. x \in F!ChainSet(l, x) /\ rootDirStart \in F!ChainSet(l, 0)
  BY <1>1, ChainSetIs
<1>3. l[x] # 0 /\ x # rootDirStart /\ x \notin F!ChainSet(l, 0) /\ (F!At(T, e).kind = "file" => l[x] = EOC)
  BY <1>1, <1>2, IntactIs
<1>4. \A f \in Entered(T) : f # e => F!At(T, f).first = 0 \/ x \notin F!ChainSet(l, F!At(T, f).first)
  BY <1>3, IntactIs
<1>5. \A f \in Entered(T) : F!At(T, f).first = x => f = e
  BY <1>2, <1>4
<1>6. x \notin Targets(l)
  <2>1. SUFFICES ASSUME NEW y \in F!Cluster, l[y] = x PROVE FALSE
    BY DEF Targets
  <2>2. l[y] # 0 /\ l[y] \in F!Cluster
    BY <2>1, <1>1, Setting
  <2>3. CASE y \in F!ChainSet(l, 0)
    <3>1. l[y] \in F!ChainSet(l, 0)
      BY <2>2, <2>3, ChainRising
    <3> QED BY <3>1, <2>1, <1>3
  <2>4. CASE \E f \in OwnFirsts(T) : y \in F!ChainSet(l, f)
    <3>1. PICK k \in Entered(T) : F!At(T, k).first # 0 /\ y \in F!ChainSet(l, F!At(T, k).first)
      BY <2>4 DEF OwnFirsts
    <3>2. PICK f : f = F!At(T, k).first
      OBVIOUS
    <3>3. f \in F!Cluster /\ FirstOf(f) = f
      BY <3>1, <3>2, EnteredKey DEF SlotType, FirstOf
    <3>4. x \in F!ChainSet(l, f) /\ x # f
      BY <2>1, <2>2, <3>1, <3>2, <3>3, ChainRising
    <3>5. k = e
      BY <3>1, <3>2, <3>4, <1>4
    <3> QED BY <3>2, <3>4, <3>5
  <2> QED BY <2>2, <2>3, <2>4, IntactIs
<1> QED BY <1>1, <1>3, <1>5, <1>6

LEMMA IntactHeld ==
  ASSUME F!DirectoryAssumption, program \in FatPrograms, NEW T, TreeTyped(T), NEW l, Good(l), F!Intact(T, l),
         NEW H, H = Holding(T, F!Closed, {}, 0)
  PROVE  Held(l, H, Singles(T, H))
<1>1. PICK single : single = Singles(T, H)
  OBVIOUS
<1>2. /\ RootKey \in DOMAIN H /\ H[RootKey] = rootDirStart
      /\ \A k \in DOMAIN H : k = RootKey \/ k \in Entered(T)
      /\ \A k \in Entered(T) : k \in DOMAIN H /\ H[k] = F!At(T, k).first
      /\ \A k \in DOMAIN H : k \in single => k # RootKey /\ F!At(T, k).kind = "file"
  BY <1>1, HoldingIs DEF EntryFirst, F!Closed
<1>3. rootDirStart \in F!Cluster /\ l[rootDirStart] # 0 /\ rootDirStart \notin Targets(l)
  BY Setting DEF Good
<1>4. ASSUME NEW k \in DOMAIN H, H[k] # 0
      PROVE  H[k] \in F!Cluster /\ l[H[k]] # 0 /\ H[k] \notin Targets(l) /\ (k \in single => l[H[k]] = EOC)
  <2>1. CASE k = RootKey
    BY <2>1, <1>2, <1>3
  <2>2. CASE k \in Entered(T)
    BY <2>2, <1>2, <1>4, IntactHeads
  <2> QED BY <2>1, <2>2, <1>2
<1>5. ASSUME NEW k \in DOMAIN H, NEW j \in DOMAIN H, H[k] = H[j], H[k] # 0 PROVE k = j
  <2>1. \A i \in Entered(T) : H[i] # 0 => H[i] # rootDirStart /\ \A f \in Entered(T) : H[f] = H[i] => f = i
    BY <1>2, IntactHeads
  <2> QED BY <2>1, <1>2, <1>5
<1>6. ASSUME NEW c \in F!Cluster, l[c] # 0 PROVE \E k \in DOMAIN H : H[k] # 0 /\ c \in F!ChainSet(l, H[k])
  <2>1. CASE c \in F!ChainSet(l, 0)
    <3>1. c \in F!ChainSet(l, rootDirStart) /\ rootDirStart # 0
      <4>1. FirstOf(0) = rootDirStart
        BY DEF FirstOf
      <4> QED BY <4>1, <2>1, SameFirst, Setting
    <3> QED BY <3>1, <1>2
  <2>2. CASE \E f \in OwnFirsts(T) : c \in F!ChainSet(l, f)
    <3>1. PICK e \in Entered(T) : F!At(T, e).first # 0 /\ c \in F!ChainSet(l, F!At(T, e).first)
      BY <2>2 DEF OwnFirsts
    <3> QED BY <3>1, <1>2
  <2> QED BY <2>1, <2>2, <1>6, IntactIs
<1> QED BY <1>1, <1>4, <1>5, <1>6 DEF Held

(* In an intact volume no long name is behind the end of a directory, and *)
(* every directory has its dot entries.                                   *)
LEMMA IntactTail ==
  ASSUME NEW T, TreeTyped(T), F!NoOrphans(T)
  PROVE  FreeTail(T, {})
<1>1. SUFFICES ASSUME NEW d \in DOMAIN T, NEW i \in DOMAIN T[d], NEW j \in DOMAIN T[d], i < j, T[d][i].kind = "free"
               PROVE  T[d][j].kind = "free"
  BY DEF FreeTail
<1>2. PICK s : s = T[d]
  OBVIOUS
<1>3. Indexed(s) /\ NoneBehind(s)
  BY <1>2 DEF TreeTyped
<1>4. s[j].kind \in {"free", "lfn"}
  BY <1>1, <1>2, <1>3 DEF NoneBehind
<1>5. SUFFICES ASSUME s[j].kind = "lfn" PROVE FALSE
  BY <1>2, <1>4
<1>6. PICK k \in F!Live(s) : j \in F!LongNameOf(T, <<d, k>>)
  BY <1>2, <1>5 DEF F!NoOrphans
<1>7. j < k
  BY <1>6 DEF F!LongNameOf
<1>8. k \in DOMAIN s /\ F!isFatFileOrSubdir(s[k])
  BY <1>6 DEF F!Live
<1>9. i \in Nat /\ j \in Nat /\ k \in Nat
  BY <1>2, <1>3, <1>8 DEF Indexed
<1>10. i < k
  BY <1>1, <1>7, <1>9
<1>11. s[k].kind \in {"free", "lfn"}
  BY SMTT(60), <1>1, <1>2, <1>3, <1>8, <1>10 DEF NoneBehind
<1> QED BY <1>8, <1>11 DEF F!isFatFileOrSubdir

LEMMA IntactDots ==
  ASSUME F!DirectoryAssumption, program \in FatPrograms, NEW c, Sectored(c), NEW l, View(c, l), NEW T, T = F!Tree(c, l, 0), F!DotsOf(T)
  PROVE  DotKinds(T, {})
<1>1. TreeTyped(T)
  BY ViewTree
<1>2. DOMAIN T = Below(c, l, 0) /\ \A d \in DOMAIN T : Subs(c, l, d) = SubdirsOf(T[d])
  BY TreeClosed
<1>3. SUFFICES ASSUME NEW d \in DOMAIN T, d # 0 PROVE T[d][0].kind = "dot" /\ T[d][1].kind = "dotdot"
  BY DEF DotKinds
<1>4. PICK e \in DOMAIN T : d \in SubdirsOf(T[e])
  BY <1>2, <1>3, BelowParent
<1>5. PICK i \in UsedOf(T[e]) : T[e][i].kind = "subdir" /\ d = T[e][i].first
  BY <1>4 DEF SubdirsOf
<1>6. <<e, i>> \in Entered(T)
  BY <1>4, <1>5, EnteredIs
<1>7. F!EntriesOf(T) = Entered(T)
  BY <1>1, EntriesOfIs DEF TreeTyped
<1> QED BY <1>5, <1>6, <1>7 DEF F!DotsOf, F!At

-----------------------------------------------------------------------------
(* After a restart every name is at an index of a directory. *)
LEMMA ListedTyped ==
  ASSUME NEW T, NEW S, \A e \in F!EntriesOf(T) : e[2] \in S, NEW list, list = F!Listed(T)
  PROVE  \A k \in DOMAIN list : list[k] \in S
<1> DEFINE Entry1(k) == CHOOSE e \in F!EntriesOf(T) : e[1] = k[1] /\ F!NameOf(T, e) = k[2]
           Keys == {<<e[1], F!NameOf(T, e)>> : e \in F!EntriesOf(T)}
<1>1. list = [k \in Keys |-> Entry1(k)[2]]
  BY DEF F!Listed
<1>2. ASSUME NEW k \in Keys PROVE Entry1(k) \in F!EntriesOf(T)
  <2>1. PICK e \in F!EntriesOf(T) : k = <<e[1], F!NameOf(T, e)>>
    BY <1>2
  <2>2. e[1] = k[1] /\ F!NameOf(T, e) = k[2]
    BY <2>1
  <2> QED BY <2>2
<1> HIDE DEF Entry1, Keys
<1> QED BY <1>1, <1>2

LEMMA EntriesIndexed ==
  ASSUME F!DirectoryAssumption, program \in FatPrograms, NEW c, Sectored(c), NEW l, View(c, l), NEW T, T = F!Tree(c, l, 0),
         NEW e \in F!EntriesOf(T)
  PROVE  e[2] \in F!Index
<1>1. TreeTyped(T)
  BY ViewTree
<1>2. e \in Entered(T)
  BY <1>1, EntriesOfIs DEF TreeTyped
<1>3. e[1] \in DOMAIN T /\ e[2] \in DOMAIN T[e[1]] /\ e[1] \in F!Cluster \cup {0}
  BY <1>1, <1>2, EnteredKey DEF TreeTyped
<1>4. PICK d : d = e[1]
  OBVIOUS
<1>5. d \in F!Cluster \cup {0} /\ e[2] \in DOMAIN F!Slots(c, l, d)
  BY <1>3, <1>4, TreeClosed
<1>6. e[2] \in 0 .. SizeOf(l, d) - 1 /\ SizeOf(l, d) \in Nat /\ SizeOf(l, d) <= F!MaxDirSectors * F!EntriesPerSector
  <2>1. DOMAIN F!Slots(c, l, d) = 0 .. SizeOf(l, d) - 1
    BY <1>5, SlotsDomain
  <2> QED BY <2>1, <1>5, SizeIs
<1>7. F!MaxDirSectors * F!EntriesPerSector \in Nat
  BY Setting, Times
<1> QED BY <1>6, <1>7 DEF F!Index

(* restart of an intact volume. *)
LEMMA IdlePhase ==
  PhaseOK("idle", T0', Inside', F!Closed, F!NoCall, F!Contents', fatOnDevice', fat', m_sector')
BY PhaseIs

LEMMA IdleSets ==
  ASSUME NEW T, FreeTail(T, {}), DotKinds(T, {})
  PROVE  SetsP(T, "idle", F!NoCall)
<1>1. Building("idle", F!NoCall) = {}
  BY BuildingNone
<1>2. RawAt("idle", F!NoCall) = {}
  BY DEF RawAt, PhaseOf
<1> QED BY <1>1, <1>2 DEF SetsP

LEMMA RestartIntactKeeps ==
  ASSUME F!DirectoryAssumption, IInv, program' = program, F!Clean, file' = F!Closed, pc' = "idle", call' = F!NoCall,
         NEW T, T = F!OnDevice, F!Intact(T, fatOnDevice), fat' = fatOnDevice, at' = F!Listed(T),
         UNCHANGED <<device, fatOnDevice, kept>>
  PROVE  IInv'
<1>0. /\ program \in FatPrograms /\ Sectored(device) /\ kept \subseteq F!Cluster /\ Good(fatOnDevice)
      /\ View(device, fatOnDevice)
  BY Now DEF DeviceP
<1>1. device' = device /\ fatOnDevice' = fatOnDevice /\ kept' = kept /\ m_sector' = 0 /\ m_buffer' = F!Data /\ F!Contents' = device
  BY DEF F!Clean, F!Contents
<1>2. VolumeNext
  BY <1>0, <1>1, VolumeFrom DEF CacheTyped
<1>3. PICK od, dev : od = fatOnDevice /\ dev = device
  OBVIOUS
<1>4. T = F!Tree(dev, od, 0) /\ View(dev, od) /\ Good(od) /\ Sectored(dev) /\ F!Intact(T, od)
  BY <1>0, <1>3 DEF F!OnDevice
<1>5. TreeTyped(T)
  BY <1>0, <1>4, ViewTree
<1>6. T0' = T
  BY <1>1, <1>3, <1>4, PrimedTree
<1>7. F!NoOrphans(T) /\ F!DotsOf(T)
  BY <1>4 DEF F!Intact
<1>8. SetsP(T, "idle", F!NoCall)
  BY <1>0, <1>4, <1>5, <1>7, IntactTail, IntactDots, IdleSets
<1>9. HeldP(T, od, F!Closed, "idle", F!NoCall)
  <2>1. PICK H : H = Holding(T, F!Closed, {}, 0)
    OBVIOUS
  <2>2. Held(od, H, Singles(T, H))
    BY <2>1, <1>0, <1>4, <1>5, IntactHeld
  <2>3. HoldsP(T, F!Closed, "idle", F!NoCall) = H
    BY <2>1 DEF HoldsP, GoneAt, PendingAt
  <2> QED BY <2>2, <2>3 DEF HeldP
<1>10. \A k \in DOMAIN at' : at'[k] \in F!Index
  <2>1. \A e \in F!EntriesOf(T) : e[2] \in F!Index
    BY <1>0, <1>4, EntriesIndexed
  <2> QED BY <2>1, ListedTyped
<1>11. F!NoCall \in Calls /\ F!Closed \in Objects
  BY <1>0, TypedConstants
<1>12. Later(fatOnDevice', fat', SettlingAt(pc'))
  BY <1>1, LaterSynced
<1>13. PhaseOK(pc', T0', Inside', file', call', F!Contents', fatOnDevice', fat', m_sector')
  BY IdlePhase
<1>14. Below(device', fatOnDevice', 0) \subseteq DOMAIN T0' \cup DevXAt(pc', call')
  BY <1>1, <1>3, <1>4, <1>6 DEF Below
<1>15. HeldP(T0', fat', file', pc', call') /\ SetsP(T0', pc', call') /\ FileIs(T0', file')
  BY <1>3, <1>6, <1>8, <1>9 DEF FileIs
<1>16. View(F!Contents', fat') /\ View(device', fatOnDevice') /\ Good(fat') /\ Good(fatOnDevice')
  BY <1>0, <1>1
<1>17. kept' \subseteq F!Cluster /\ file' \in Objects /\ call' \in Calls
  BY <1>0, <1>1, <1>11
<1> QED BY <1>0, <1>2, <1>10, <1>12, <1>13, <1>14, <1>15, <1>16, <1>17, IInvNext

(* A formatted volume. *)
Formatted == [c \in F!Cluster |-> IF c = rootDirStart THEN F!Zeroed ELSE F!Data]
FormattedFat == [c \in F!Cluster |-> IF c = rootDirStart THEN EOC ELSE 0]
LEMMA FormattedIs ==
  ASSUME F!DirectoryAssumption, program \in FatPrograms, NEW dev, dev = Formatted, NEW l, l = FormattedFat
  PROVE  /\ Sectored(dev) /\ Good(l) /\ View(dev, l) /\ l[rootDirStart] = EOC
         /\ Below(dev, l, 0) = {0} /\ F!ChainSet(l, 0) = {rootDirStart}
         /\ \A i \in DOMAIN F!Slots(dev, l, 0) : F!Slots(dev, l, 0)[i] = F!Free
<1>1. /\ rootDirStart \in F!Cluster /\ EOC \notin F!Cluster /\ 0 \notin F!Cluster /\ EOC # 0 /\ F!MaxDirSectors \in Nat \ {0}
      /\ F!Zeroed \in DirSector /\ F!EntriesPerSector \in Nat \ {0, 1} /\ rootDirStart # 0
  BY Setting, TypedConstants
<1>2. Sectored(dev)
  BY <1>1 DEF Sectored, Formatted
<1>3. Targets(l) = {} /\ l \in [F!Cluster -> Link] /\ l[rootDirStart] = EOC /\ \A x \in F!Cluster : l[x] \notin F!Cluster
  BY <1>1 DEF Targets, FormattedFat, Link
<1>4. Good(l)
  <2>1. PICK rank : rank = [x \in F!Cluster |-> 1]
    OBVIOUS
  <2>2. rank \in [F!Cluster -> 1 .. F!MaxDirSectors] /\ \A x \in F!Cluster : rank[x] = 1
    BY <2>1, <1>1
  <2> QED BY <2>2, <1>1, <1>3 DEF Good
<1>5. F!Chain(l, rootDirStart) = <<rootDirStart>> /\ F!ChainSet(l, rootDirStart) = {rootDirStart}
  BY <1>1, <1>3, ChainSingle
<1>6. F!Chain(l, 0) = <<rootDirStart>> /\ F!ChainSet(l, 0) = {rootDirStart}
  <2>1. FirstOf(0) = rootDirStart
    BY DEF FirstOf
  <2> QED BY <1>5, <2>1, SameFirst
<1>7. NoneData(F!ChainSet(l, 0), dev)
  BY <1>1, <1>6, SectorNotData DEF NoneData, Formatted
<1>8. PICK s : s = F!Slots(dev, l, 0)
  OBVIOUS
<1>9. ASSUME NEW i \in DOMAIN s PROVE s[i] = F!Free
  <2>1. i \in 0 .. SizeOf(l, 0) - 1
    BY <1>8, <1>9, SlotsDomain
  <2>2. i % F!EntriesPerSector \in 0 .. F!EntriesPerSector - 1 /\ SectorAt(l, 0, i) \in F!ChainSet(l, 0)
    BY <2>1, IndexPlace
  <2>3. dev[SectorAt(l, 0, i)] = F!Zeroed /\ F!Zeroed # F!Data
    BY <2>2, <1>1, <1>6, SectorNotData DEF Formatted
  <2>4. s[i] = F!SlotIn(F!Zeroed, i)
    BY <2>1, <2>3, <1>8, SlotIs
  <2> QED BY <2>2, <2>3, <2>4 DEF F!SlotIn, F!Zeroed
<1>10. Indexed(s) /\ NoneBehind(s) /\ UsedOf(s) = {}
  BY <1>8, <1>9, SlotsIndexed DEF NoneBehind, UsedOf, InUse, F!isFatFileOrSubdir, F!Free, F!Slot
<1>11. Subs(dev, l, 0) = {}
  BY <1>8, <1>10, SubdirsIs DEF Subs, SubdirsOf
<1>12. Below(dev, l, 0) = {0}
  <2>1. PICK D : D = {0}
    OBVIOUS
  <2>2. Least(dev, l, 0, D) /\ ClosedUnder(dev, l, D)
    BY <2>1, <1>11 DEF Least, ClosedUnder, Subs
  <2> QED BY <2>1, <2>2, <1>2, BelowFrom
<1>13. View(dev, l)
  BY <1>7, <1>8, <1>10, <1>12 DEF View
<1> QED BY <1>2, <1>3, <1>4, <1>6, <1>8, <1>9, <1>12, <1>13

LEMMA EmptyVolume ==
  ASSUME F!DirectoryAssumption, program \in FatPrograms, NEW dev, dev = Formatted, NEW l, l = FormattedFat,
         NEW T, T = F!Tree(dev, l, 0)
  PROVE  /\ TreeTyped(T) /\ SetsP(T, "idle", F!NoCall)
         /\ Held(l, Holding(T, F!Closed, {}, 0), Singles(T, Holding(T, F!Closed, {}, 0)))
<1>1. Sectored(dev) /\ Good(l) /\ View(dev, l) /\ DOMAIN T = {0} /\ F!ChainSet(l, 0) = {rootDirStart}
      /\ \A i \in DOMAIN F!Slots(dev, l, 0) : F!Slots(dev, l, 0)[i] = F!Free
  BY FormattedIs DEF Below
<1>2. TreeTyped(T) /\ T[0] = F!Slots(dev, l, 0)
  BY <1>1, ViewTree, TreeClosed
<1>3. \A i \in DOMAIN T[0] : T[0][i] = F!Free /\ T[0][i].kind = "free" /\ ~InUse(T[0], i)
  BY <1>1, <1>2 DEF F!Free, F!Slot, InUse, F!isFatFileOrSubdir
<1>4. FreeTail(T, {}) /\ DotKinds(T, {})
  BY <1>1, <1>3 DEF FreeTail, DotKinds
<1>5. Entered(T) = {}
  BY <1>1, <1>3 DEF Entered
<1>6. PICK H, single : H = Holding(T, F!Closed, {}, 0) /\ single = Singles(T, H)
  OBVIOUS
<1>7. DOMAIN H = {RootKey} /\ H[RootKey] = rootDirStart
  <2>1. RootKey \in DOMAIN H /\ H[RootKey] = rootDirStart /\ \A k \in DOMAIN H : k = RootKey \/ k \in Entered(T)
    BY <1>2, <1>6, HoldingIs
  <2> QED BY <2>1, <1>5
<1>8. single = {}
  BY <1>6, <1>7 DEF Singles
<1>9. rootDirStart \in F!Cluster /\ rootDirStart # 0 /\ l[rootDirStart] # 0 /\ rootDirStart \notin Targets(l)
  BY <1>1, Setting DEF Good
<1>10. ASSUME NEW c \in F!Cluster, l[c] # 0 PROVE c \in F!ChainSet(l, rootDirStart)
  <2>1. c = rootDirStart
    BY <1>10 DEF FormattedFat
  <2>2. FirstOf(rootDirStart) = rootDirStart
    BY <1>9 DEF FirstOf
  <2> QED BY <2>1, <2>2, ChainSetIs
<1>11. Held(l, H, single)
  BY <1>7, <1>8, <1>9, <1>10 DEF Held
<1> QED BY <1>2, <1>4, <1>6, <1>11, IdleSets

LEMMA InitHolds ==
  ASSUME F!DirectoryAssumption, F!Init
  PROVE  IInv
<1>1. program \in FatPrograms /\ device = Formatted /\ fat = FormattedFat /\ fatOnDevice = fat
      /\ m_sector = 0 /\ m_buffer = F!Data /\ file = F!Closed /\ pc = "idle" /\ call = F!NoCall /\ at = <<>> /\ kept = {}
      /\ F!Contents = device
  BY DEF F!Init, Formatted, FormattedFat, F!Contents
<1>2. PICK l, dev : l = fat /\ dev = device
  OBVIOUS
<1>3. Sectored(dev) /\ Good(l) /\ View(dev, l)
  BY <1>1, <1>2, FormattedIs
<1>4. T0 = F!Tree(dev, l, 0)
  BY <1>1, <1>2 DEF T0, F!InProgram
<1>5. PICK T : T = T0
  OBVIOUS
<1>6. SetsP(T, "idle", F!NoCall) /\ Held(l, Holding(T, F!Closed, {}, 0), Singles(T, Holding(T, F!Closed, {}, 0)))
  BY <1>1, <1>2, <1>4, <1>5, EmptyVolume
<1>7. GoneAt("idle", F!NoCall) = {} /\ PendingAt("idle", F!NoCall) = 0
  BY DEF GoneAt, PendingAt
<1>8. HNow = Holding(T, F!Closed, {}, 0) /\ SNow = Singles(T, Holding(T, F!Closed, {}, 0))
  BY <1>1, <1>5, <1>7 DEF HNow, SNow, HoldsP
<1>9. F!NoCall \in Calls /\ F!Closed \in Objects
  BY <1>1, TypedConstants
<1>10. TypedP(device, m_sector, m_buffer, file, call, at, kept)
  BY <1>1, <1>2, <1>3, <1>9 DEF TypedP, CacheTyped
<1>11. DeviceP(device, fatOnDevice, T0, pc, call)
  BY <1>1, <1>2, <1>3, <1>4 DEF DeviceP, Below
<1>12. PhaseOK(pc, T0, Inside, file, call, F!Contents, fatOnDevice, fat, m_sector)
  BY <1>1, PhaseIs
<1>13. Good(fat) /\ Good(fatOnDevice) /\ Later(fatOnDevice, fat, SettlingAt(pc)) /\ View(F!Contents, fat)
  BY <1>1, <1>2, <1>3, LaterSynced
<1>14. Held(fat, HNow, SNow) /\ SetsP(T0, pc, call) /\ FileIs(T0, file)
  BY <1>1, <1>2, <1>5, <1>6, <1>8 DEF FileIs
<1>15. Parts
  BY <1>1, <1>10, <1>11, <1>12, <1>13, <1>14 DEF Parts
<1> QED BY <1>15, PartsIs

LEMMA InitMeans == F!DirectoryAssumption /\ F!Init => IInv
BY InitHolds

LEMMA RestartKeeps ==
  ASSUME F!DirectoryAssumption, IInv, F!restart
  PROVE  IInv'
<1>0. program \in FatPrograms
  BY Now
<1>1. program' = program /\ F!Clean /\ file' = F!Closed /\ pc' = "idle" /\ call' = F!NoCall
  BY DEF F!restart, F!Ends
<1>2. CASE /\ F!Intact(F!OnDevice, fatOnDevice) /\ fat' = fatOnDevice /\ at' = F!Listed(F!OnDevice)
           /\ UNCHANGED <<device, fatOnDevice, kept>>
  BY <1>1, <1>2, RestartIntactKeeps
<1>3. CASE /\ device' = [c \in F!Cluster |-> IF c = rootDirStart THEN F!Zeroed ELSE F!Data]
           /\ fat' = [c \in F!Cluster |-> IF c = rootDirStart THEN EOC ELSE 0]
           /\ fatOnDevice' = fat' /\ at' = <<>> /\ kept' = {}
  <2>1. F!Cluster' = F!Cluster /\ F!Zeroed' = F!Zeroed
    BY <1>1, PrimedSetting
  <2>2. F!Init'
    BY <1>0, <1>1, <1>3, <2>1 DEF F!Init, F!Clean
  <2>3. (F!DirectoryAssumption /\ F!Init => IInv)'
    BY InitMeans, PTL
  <2>4. F!DirectoryAssumption'
    BY DEF F!DirectoryAssumption
  <2> QED BY <2>2, <2>3, <2>4
<1> QED BY <1>2, <1>3 DEF F!restart

-----------------------------------------------------------------------------
(* Every step keeps the invariant. *)
LEMMA NextKeeps ==
  ASSUME F!DirectoryAssumption, IInv, F!Next
  PROVE  IInv'
<1>1. CASE pc = "idle" /\ \E d \in F!Directories, name \in F!Names :
                            (\E mode \in program.modes : F!open(d, name, mode)) \/ F!mkdir(d, name) \/ F!rename(d, name)
  BY <1>1, OpenKeeps, MkdirKeeps, RenameKeeps
<1>2. CASE F!addDirCluster \/ F!makeUniqueSfn \/ F!createLFN \/ F!createSFN \/ F!newDirectory \/ F!newEntry \/ F!newDots
  BY <1>2, AddDirClusterKeeps, MakeUniqueKeeps, CreateLfnKeeps, CreateSfnKeeps, NewDirectoryKeeps, NewEntryKeeps, NewDotsKeeps
<1>3. CASE F!syncData \/ F!syncFat \/ F!syncEntry \/ F!close \/ F!write \/ F!search
  BY <1>3, SyncDataKeeps, SyncFatKeeps, SyncEntryKeeps, CloseKeeps, WriteKeeps, SearchKeeps
<1>4. CASE F!copyEntry \/ F!moveDotDot \/ F!remove \/ F!rmdir \/ F!deleteSFN \/ F!deleteLFN \/ F!restart
  BY <1>4, CopyFileKeeps, CopyDirKeeps, MoveDotDotKeeps, RemoveKeeps, RmdirKeeps, DeleteSfnKeeps, DeleteLfnKeeps, RestartKeeps
<1> QED BY <1>1, <1>2, <1>3, <1>4 DEF F!Next

(* So does a step that changes nothing. *)
LEMMA SameParts ==
  ASSUME UNCHANGED F!vars
  PROVE  IInv' <=> IInv
<1>1. /\ program' = program /\ device' = device /\ fatOnDevice' = fatOnDevice /\ fat' = fat /\ m_sector' = m_sector
      /\ m_buffer' = m_buffer /\ file' = file /\ pc' = pc /\ call' = call /\ at' = at /\ kept' = kept
  BY DEF F!vars, F!volume, F!cache, F!history
<1>2. F!Contents' = F!Contents
  BY <1>1 DEF F!Contents
<1>3. T0' = T0
  BY <1>1, <1>2, PrimedTree DEF T0, F!InProgram
<1>4. Inside' = Inside
  BY <1>1, <1>2, PrimedInside DEF Inside
<1>5. HNow' = HNow
  BY <1>1, <1>3, PrimedHolds DEF HNow
<1>6. SNow' = SNow
  BY <1>3, <1>5, PrimedSingles DEF SNow
<1>7. TypedP(device, m_sector, m_buffer, file, call, at, kept)' <=> TypedP(device, m_sector, m_buffer, file, call, at, kept)
  BY <1>1, PrimedTyped
<1>8. /\ Good(fat)' <=> Good(fat)
      /\ Good(fatOnDevice)' <=> Good(fatOnDevice)
      /\ Later(fatOnDevice, fat, SettlingAt(pc))' <=> Later(fatOnDevice, fat, SettlingAt(pc))
  BY <1>1, PrimedGood, PrimedLater
<1>9. Held(fat, HNow, SNow)' <=> Held(fat, HNow, SNow)
  BY <1>1, <1>5, <1>6, PrimedHeld
<1>10. View(F!Contents, fat)' <=> View(F!Contents, fat)
  BY <1>1, <1>2, PrimedView
<1>11. (SetsP(T0, pc, call)' <=> SetsP(T0, pc, call)) /\ (FileIs(T0, file)' <=> FileIs(T0, file))
  BY <1>1, <1>3, PrimedSets, PrimedFile
<1>12. PhaseOK(pc, T0, Inside, file, call, F!Contents, fatOnDevice, fat, m_sector)'
         <=> PhaseOK(pc, T0, Inside, file, call, F!Contents, fatOnDevice, fat, m_sector)
  BY <1>1, <1>2, <1>3, <1>4, PrimedPhase
<1>13. DeviceP(device, fatOnDevice, T0, pc, call)' <=> DeviceP(device, fatOnDevice, T0, pc, call)
  BY <1>1, <1>3, PrimedDevice
<1>14. Parts' <=> Parts
  BY <1>1, <1>7, <1>8, <1>9, <1>10, <1>11, <1>12, <1>13 DEF Parts
<1>15. (IInv <=> Parts)'
  BY PartsIs, PTL
<1> QED BY <1>14, <1>15, PartsIs

LEMMA StepKeeps ==
  ASSUME F!DirectoryAssumption, IInv, [F!Next]_(F!vars)
  PROVE  IInv'
BY NextKeeps, SameParts

(* What the invariant says of the volume. *)
LEMMA IInvTypes ==
  ASSUME F!DirectoryAssumption, IInv
  PROVE  F!TypeOK
<1>1. /\ program \in FatPrograms /\ CacheTyped(m_sector, m_buffer) /\ file \in Objects /\ call \in Calls
      /\ (\A k \in DOMAIN at : at[k] \in F!Index) /\ kept \subseteq F!Cluster /\ Good(fat) /\ Good(fatOnDevice)
      /\ TreeTyped(T0) /\ T0 = F!Tree(F!Contents, fat, 0) /\ View(F!Contents, fat) /\ Sectored(F!Contents) /\ FileIs(T0, file)
  BY Now
<1>2. \A c \in F!Cluster : fat[c] \in F!Cluster \cup {0, EOC} /\ fatOnDevice[c] \in F!Cluster \cup {0, EOC}
  BY <1>1 DEF Good, Link
<1>3. m_sector \in F!Cluster \cup {0} /\ (m_sector = 0 <=> m_buffer = F!Data)
  BY <1>1, SectorNotData, Setting DEF CacheTyped
<1>4. file.first \in F!Cluster \cup {0} /\ call.first \in F!Cluster \cup {0} /\ call.dir \in F!Cluster \cup {0}
  BY <1>1 DEF Objects, Calls
<1>5. file.index \in F!Index
  <2>1. F!MaxDirSectors \in Nat \ {0} /\ F!EntriesPerSector \in Nat \ {0, 1}
    BY <1>1, Setting
  <2>2. CASE file = F!Closed
    <3>1. 0 \in F!Index
      <4>1. 0 \div F!EntriesPerSector = 0
        BY <2>1
      <4>2. 0 < F!MaxDirSectors * F!EntriesPerSector
        BY <4>1, <2>1, DivBelow
      <4>3. F!MaxDirSectors * F!EntriesPerSector \in Nat
        BY <2>1, Times
      <4> QED BY <4>2, <4>3 DEF F!Index
    <3> QED BY <3>1, <2>2 DEF F!Closed
  <2>3. CASE Object(T0, file)
    <3>1. file.dir \in DOMAIN T0 /\ file.index \in DOMAIN T0[file.dir]
          /\ F!isFatFileOrSubdir(T0[file.dir][file.index])
      BY <2>3 DEF Object, EntryIs, F!isFatFileOrSubdir
    <3>2. PICK e : e = <<file.dir, file.index>>
      OBVIOUS
    <3>3. e[1] = file.dir /\ e[2] = file.index /\ e = <<e[1], e[2]>>
      BY <3>2
    <3>4. e[2] \in UsedOf(T0[e[1]])
      BY <3>1, <3>3 DEF UsedOf, InUse
    <3>5. e \in Entered(T0)
      BY <3>1, <3>3, <3>4, EnteredIs
    <3>6. e \in F!EntriesOf(T0)
      BY <3>5, <1>1, EntriesOfIs DEF TreeTyped
    <3>7. e[2] \in F!Index
      BY <3>6, <1>1, EntriesIndexed
    <3> QED BY <3>3, <3>7
  <2> QED BY <2>2, <2>3, <1>1 DEF FileIs
<1> QED BY <1>1, <1>2, <1>3, <1>4, <1>5 DEF F!TypeOK

LEMMA IInvNoGarbage ==
  ASSUME F!DirectoryAssumption, IInv
  PROVE  F!NoGarbage
<1>1. program \in FatPrograms /\ Sectored(device) /\ View(device, fatOnDevice)
  BY Now DEF DeviceP
<1>2. PICK T : T = F!OnDevice
  OBVIOUS
<1>3. T = F!Tree(device, fatOnDevice, 0)
  BY <1>2 DEF F!OnDevice
<1>4. TreeTyped(T)
  BY <1>1, <1>3, ViewTree
<1>5. ASSUME NEW d \in DOMAIN T, NEW i \in DOMAIN T[d] PROVE T[d][i] # F!Garbage
  <2>1. T[d][i] \in SlotType
    BY <1>4 DEF TreeTyped, DirSlots
  <2> QED BY <2>1, <1>1, TypedConstants
<1> QED BY <1>2, <1>5 DEF F!NoGarbage

LEMMA IInvFreeBehind ==
  ASSUME F!DirectoryAssumption, IInv
  PROVE  F!FreeBehind
<1>1. SUFFICES ASSUME pc = "idle", NEW d \in DOMAIN T0, NEW i \in DOMAIN T0[d], i >= F!FirstFree(T0[d])
               PROVE  T0[d][i].kind = "free"
  BY DEF F!FreeBehind, T0
<1>2. FreeTail(T0, {}) /\ TreeTyped(T0)
  BY <1>1, IdleNow, Now
<1>3. PICK s, f : s = T0[d] /\ f = F!FirstFree(s)
  OBVIOUS
<1>4. Indexed(s)
  BY <1>2, <1>3 DEF TreeTyped
<1>5. f \in 0 .. LenOf(s) /\ (f < LenOf(s) => s[f].kind = "free") /\ LenOf(s) \in Nat /\ DOMAIN s = 0 .. LenOf(s) - 1
  BY <1>3, <1>4, FirstFreeIs DEF Indexed
<1>6. i \in 0 .. LenOf(s) - 1 /\ i >= f
  BY <1>1, <1>3, <1>5
<1>7. f \in DOMAIN s /\ s[f].kind = "free" /\ (i = f \/ f < i)
  BY <1>5, <1>6
<1> QED BY <1>1, <1>2, <1>3, <1>7 DEF FreeTail

LEMMA IInvNothingLeaked ==
  ASSUME F!DirectoryAssumption, IInv
  PROVE  F!NothingLeaked
<1>1. SUFFICES ASSUME pc = "idle"
               PROVE  {c \in F!Cluster : fat[c] # 0}
                      = F!Reached(T0, fat, F!EntriesOf(T0) \ (IF file.open THEN {<<file.dir, file.index>>} ELSE {}))
                        \cup (IF file.open /\ file.first # 0 THEN F!ChainSet(fat, file.first) ELSE {})
  BY DEF F!NothingLeaked, T0
<1>2. PICK entries, own, H, k0 :
        /\ entries = Entered(T0) \ (IF file.open THEN {<<file.dir, file.index>>} ELSE {})
        /\ own = (IF file.open /\ file.first # 0 THEN F!ChainSet(fat, file.first) ELSE {})
        /\ H = Holding(T0, file, {}, 0) /\ k0 = <<file.dir, file.index>>
  OBVIOUS
<1>3. TreeTyped(T0) /\ program \in FatPrograms /\ Good(fat) /\ FileIs(T0, file)
  BY Now
<1>4. Held(fat, H, Singles(T0, H))
  <2>1. HeldP(T0, fat, file, pc, call)
    BY Now
  <2>2. HoldsP(T0, file, pc, call) = H
    BY <1>1, <1>2, IdleNow DEF HoldsP
  <2> QED BY <2>1, <2>2 DEF HeldP
<1>5. F!EntriesOf(T0) = Entered(T0)
  BY <1>3, EntriesOfIs DEF TreeTyped
<1>6. /\ RootKey \in DOMAIN H /\ H[RootKey] = rootDirStart
      /\ \A k \in DOMAIN H : k = RootKey \/ k \in Entered(T0)
      /\ \A k \in Entered(T0) : k \in DOMAIN H /\ H[k] = EntryFirst(T0, file, k)
  BY <1>2, <1>3, HoldingIs
<1>7. file.open => k0 \in Entered(T0)
  <2>1. SUFFICES ASSUME file.open PROVE k0 \in Entered(T0)
    OBVIOUS
  <2>2. file.dir \in DOMAIN T0 /\ file.index \in DOMAIN T0[file.dir]
        /\ F!isFatFileOrSubdir(T0[file.dir][file.index])
    BY <2>1, <1>3 DEF FileIs, F!Closed, Object, EntryIs, F!isFatFileOrSubdir
  <2>3. k0[1] = file.dir /\ k0[2] = file.index /\ k0 = <<k0[1], k0[2]>>
    BY <1>2
  <2>4. k0[2] \in UsedOf(T0[k0[1]])
    BY <2>2, <2>3 DEF UsedOf, InUse
  <2> QED BY <2>2, <2>3, <2>4, EnteredIs
<1>8. \A x \in F!Cluster : fat[x] # 0 /\ x \notin Targets(fat) => \A c \in F!ChainSet(fat, x) : c \in F!Cluster /\ fat[c] # 0
  <2>1. ASSUME NEW x \in F!Cluster, fat[x] # 0, x \notin Targets(fat), NEW c \in F!ChainSet(fat, x)
        PROVE  c \in F!Cluster /\ fat[c] # 0
    <3>1. FirstOf(x) = x
      BY <1>3, Setting DEF FirstOf
    <3> QED BY <3>1, <2>1, <1>3, ChainFacts, ChainSetIs
  <2> QED BY <2>1
<1>9. \A k \in DOMAIN H : H[k] # 0 => \A c \in F!ChainSet(fat, H[k]) : c \in F!Cluster /\ fat[c] # 0
  BY <1>4, <1>8, HeldHead
<1>10. F!ChainSet(fat, rootDirStart) = F!ChainSet(fat, 0) /\ rootDirStart # 0
  <2>1. FirstOf(0) = rootDirStart
    BY DEF FirstOf
  <2> QED BY <2>1, <1>3, SameFirst, Setting
<1>11. \A k \in entries : k \in Entered(T0) /\ H[k] = F!At(T0, k).first
  BY <1>2, <1>6 DEF EntryFirst
<1>12. file.open => k0 \in DOMAIN H /\ H[k0] = file.first
  BY <1>2, <1>6, <1>7 DEF EntryFirst
<1>13. ASSUME NEW c \in F!Cluster, fat[c] # 0 PROVE c \in F!Reached(T0, fat, entries) \cup own
  <2>1. PICK k \in DOMAIN H : H[k] # 0 /\ c \in F!ChainSet(fat, H[k])
    BY <1>4, <1>13 DEF Held
  <2>2. CASE k = RootKey
    BY <2>1, <2>2, <1>6, <1>10 DEF F!Reached
  <2>3. CASE file.open /\ k = k0
    BY <2>1, <2>3, <1>2, <1>12
  <2>4. CASE k # RootKey /\ ~(file.open /\ k = k0)
    <3>1. k \in entries
      BY <2>4, <1>2, <1>6
    <3> QED BY <3>1, <2>1, <1>11 DEF F!Reached
  <2> QED BY <2>2, <2>3, <2>4
<1>14. ASSUME NEW c \in F!Reached(T0, fat, entries) PROVE c \in F!Cluster /\ fat[c] # 0
  <2>1. CASE c \in F!ChainSet(fat, 0)
    BY <2>1, <1>6, <1>9, <1>10
  <2>2. CASE \E k \in entries : F!At(T0, k).first # 0 /\ c \in F!ChainSet(fat, F!At(T0, k).first)
    BY <2>2, <1>6, <1>9, <1>11
  <2> QED BY <2>1, <2>2, <1>14 DEF F!Reached
<1>15. ASSUME NEW c \in own PROVE c \in F!Cluster /\ fat[c] # 0
  BY <1>2, <1>9, <1>12, <1>15
<1>16. {c \in F!Cluster : fat[c] # 0} = F!Reached(T0, fat, entries) \cup own
  BY <1>13, <1>14, <1>15
<1> QED BY <1>2, <1>5, <1>16

-----------------------------------------------------------------------------
(* Names.  The long name of a short entry is in the entries in front of it. *)
LongAt(s, i) ==
  /\ i >= LfnEntries
  /\ \A k \in 1 .. LfnEntries : s[i - k] = F!LongEntry(s[i - 1].name, k, s[i].name)
HasLong(s, i) == s[i].name \in F!LongSfns
FullName(s, i) == IF HasLong(s, i) THEN s[i - 1].name ELSE s[i].name
Named(s) ==
  /\ \A i, j \in UsedOf(s) : s[i].name = s[j].name => i = j
  /\ \A i, j \in UsedOf(s) : FullName(s, i) = FullName(s, j) => i = j
  /\ \A i \in UsedOf(s) : HasLong(s, i) => LongAt(s, i)
NamedTree(T) == \A d \in DOMAIN T : Named(T[d])
InLong(s, i) == \E j \in UsedOf(s) : HasLong(s, j) /\ j - LfnEntries <= i /\ i < j

(* Long name entries whose short entry is not written yet, or deleted. *)
LooseAt(step, c) ==
  IF PhaseOf(step, c) = "unlfn" THEN {<<c.old.dir, c.old.index - k>> : k \in c.order .. LfnEntries}
  ELSE Building(step, c)
Owned(T, loose) == \A d \in DOMAIN T : \A i \in DOMAIN T[d] :
  T[d][i].kind = "lfn" => <<d, i>> \in loose \/ InLong(T[d], i)

(* list (at in the model) has the index of each entry by its directory and name. *)
Agree(T, list) ==
  /\ \A k \in DOMAIN list :
       /\ k = <<k[1], k[2]>> /\ k[1] \in DOMAIN T
       /\ list[k] \in UsedOf(T[k[1]]) /\ FullName(T[k[1]], list[k]) = k[2]
  /\ \A d \in DOMAIN T : \A i \in UsedOf(T[d]) :
       <<d, FullName(T[d], i)>> \in DOMAIN list /\ list[<<d, FullName(T[d], i)>>] = i
(* The object o is open by the name that its entry has. *)
NameIs(T, o) ==
  /\ FullName(T[o.dir], o.index) = o.name
  /\ o.lfnOrd = IF HasLong(T[o.dir], o.index) THEN LfnEntries ELSE 0

(* The first two entries of a directory x; the second one names the       *)
(* directory x is in, unless the call is moving x.                         *)
DotHead(s, x) == s[0].kind = "dot" /\ s[0].first = x /\ s[1].kind = "dotdot"
MovingAt(step, c) ==
  IF step = "dotdot" THEN {<<c.dir, c.index>>}
  ELSE IF step = "del" THEN {<<c.old.dir, c.old.index>>} ELSE {}
Dots(T, raw, moving) == \A d \in DOMAIN T : \A i \in UsedOf(T[d]) :
  T[d][i].kind = "subdir" /\ T[d][i].first \notin raw =>
    /\ DotHead(T[T[d][i].first], T[d][i].first)
    /\ <<d, i>> \in moving \/ T[T[d][i].first][1].first = d

(* The names of the entries that a call is making, has made (MadeOK) or    *)
(* has not yet deleted (LeftOK).                                           *)
SfnFits(c) == IF F!Lost(c.name) THEN c.sfn \in F!LongSfns ELSE c.sfn = c.name
SfnNew(s, sfn) == \A i \in UsedOf(s) : s[i].name # sfn
NameNew(s, name) == \A i \in UsedOf(s) : FullName(s, i) # name
MakingOK(T, step, c) ==
  /\ SfnFits(c) /\ (step # "grow" \/ ~c.alias => SfnNew(T[c.dir], c.sfn)) /\ NameNew(T[c.dir], c.name)
  /\ \A k \in 1 .. Written(step, c) : T[c.dir][c.index - k] = F!LongEntry(c.name, k, c.sfn)
MadeOK(T, c) ==
  SfnFits(c) /\ T[c.dir][c.index].name = c.sfn /\ FullName(T[c.dir], c.index) = c.name
LeftOK(T, c) ==
  /\ ~InUse(T[c.old.dir], c.old.index)
  /\ \A k \in c.order .. LfnEntries :
       LET slot == T[c.old.dir][c.old.index - k]
       IN slot.kind = "lfn" /\ slot.order = k /\ slot.sum = c.saved.name
NamePhase(step, T, c, contents) ==
  /\ step \in {"grow", "lfn", "sfn"} => MakingOK(T, step, c)
  /\ PhaseOf(step, c) \in {"newdir", "newentry", "dots", "copy"} => MadeOK(T, c)
  /\ step = "dotdot" => contents[c.first][1].first = c.dir
  /\ step \in {"dotdot", "del"} => NameIs(T, c.old)
  /\ PhaseOf(step, c) = "unlfn" => LeftOK(T, c)
(* What NInv says of the names in the program's tree T, the open object o, *)
(* the call and list.                                                      *)
NamesP(T, o, step, c, list, contents) ==
  /\ NamedTree(T) /\ Owned(T, LooseAt(step, c)) /\ Agree(T, list)
  /\ (o.open => NameIs(T, o))
  /\ Dots(T, RawAt(step, c), MovingAt(step, c))
  /\ NamePhase(step, T, c, contents)
NInv ==
  /\ IInv /\ NamesP(T0, file, pc, call, at, F!Contents)
  /\ NamedTree(F!OnDevice)

(* What leaves the names as they are. *)
SameNames(s, u) ==
  /\ UsedOf(u) \subseteq UsedOf(s)
  /\ \A i \in UsedOf(u) : u[i].name = s[i].name /\ (HasLong(s, i) => \A k \in 1 .. LfnEntries : u[i - k] = s[i - k])
LEMMA NamesKept ==
  ASSUME NEW s, Named(s), NEW u, SameNames(s, u), LfnEntries \in Nat \ {0}
  PROVE  /\ Named(u)
         /\ \A i \in UsedOf(u) : FullName(u, i) = FullName(s, i) /\ (HasLong(u, i) <=> HasLong(s, i))
<1>1. 1 \in 1 .. LfnEntries
  OBVIOUS
<1>2. ASSUME NEW i \in UsedOf(u)
      PROVE  i \in UsedOf(s) /\ u[i].name = s[i].name /\ (HasLong(u, i) <=> HasLong(s, i)) /\ FullName(u, i) = FullName(s, i)
  <2>1. i \in UsedOf(s) /\ u[i].name = s[i].name /\ (HasLong(u, i) <=> HasLong(s, i))
    BY <1>2 DEF SameNames, HasLong
  <2>2. HasLong(s, i) => u[i - 1] = s[i - 1]
    BY <1>1, <1>2 DEF SameNames
  <2> QED BY <2>1, <2>2 DEF FullName
<1>3. ASSUME NEW i \in UsedOf(u), HasLong(u, i) PROVE LongAt(u, i)
  <2>1. HasLong(s, i) /\ LongAt(s, i) /\ u[i].name = s[i].name
    BY <1>2, <1>3 DEF Named
  <2>2. \A k \in 1 .. LfnEntries : u[i - k] = s[i - k]
    BY <1>3, <2>1 DEF SameNames
  <2>3. u[i - 1] = s[i - 1]
    BY <1>1, <2>2
  <2> QED BY <2>1, <2>2, <2>3 DEF LongAt
<1>4. \A i, j \in UsedOf(u) : u[i].name = u[j].name => i = j
  BY <1>2 DEF Named
<1>5. \A i, j \in UsedOf(u) : FullName(u, i) = FullName(u, j) => i = j
  BY <1>2 DEF Named
<1> QED BY <1>2, <1>3, <1>4, <1>5 DEF Named

LEMMA NamedNone ==
  ASSUME NEW s, UsedOf(s) = {}
  PROVE  Named(s)
BY DEF Named
LEMMA LongBefore ==
  ASSUME NEW s, Named(s), NEW i \in UsedOf(s), HasLong(s, i), LfnEntries \in Nat \ {0}, NEW k \in 1 .. LfnEntries
  PROVE  /\ i >= LfnEntries /\ s[i - k] = F!LongEntry(s[i - 1].name, k, s[i].name)
         /\ s[i - k].kind = "lfn" /\ s[i - k].order = k /\ s[i - k].sum = s[i].name /\ s[i - k].first = 0
         /\ s[i - k].name = s[i - 1].name
<1>1. i >= LfnEntries /\ s[i - k] = F!LongEntry(s[i - 1].name, k, s[i].name)
  BY DEF Named, LongAt
<1>2. F!LongEntry(s[i - 1].name, k, s[i].name) = [kind |-> "lfn", name |-> s[i - 1].name, order |-> k, sum |-> s[i].name, first |-> 0]
  BY DEF F!LongEntry, F!Slot
<1> QED BY <1>1, <1>2

(* Directories with the same names, and new and gone ones without any. *)
AlikeIn(T, U, d) ==
  IF d \in DOMAIN T /\ d \in DOMAIN U THEN UsedOf(U[d]) = UsedOf(T[d]) /\ SameNames(T[d], U[d])
  ELSE (d \in DOMAIN T => UsedOf(T[d]) = {}) /\ (d \in DOMAIN U => UsedOf(U[d]) = {})
Alike(T, U) == \A d \in DOMAIN T \cup DOMAIN U : AlikeIn(T, U, d)
LEMMA AlikeNames ==
  ASSUME NEW T, NEW U, Alike(T, U), NamedTree(T), LfnEntries \in Nat \ {0}
  PROVE  /\ NamedTree(U)
         /\ \A d \in DOMAIN T : \A i \in UsedOf(T[d]) :
              d \in DOMAIN U /\ i \in UsedOf(U[d]) /\ FullName(U[d], i) = FullName(T[d], i) /\ (HasLong(U[d], i) <=> HasLong(T[d], i))
              /\ U[d][i].name = T[d][i].name
         /\ \A d \in DOMAIN U : \A i \in UsedOf(U[d]) : d \in DOMAIN T /\ i \in UsedOf(T[d])
<1>1. ASSUME NEW d \in DOMAIN U PROVE Named(U[d])
  <2>1. CASE d \in DOMAIN T
    <3>1. SameNames(T[d], U[d]) /\ Named(T[d])
      BY <1>1, <2>1 DEF Alike, AlikeIn, NamedTree
    <3> QED BY <3>1, NamesKept
  <2>2. CASE d \notin DOMAIN T
    <3>1. UsedOf(U[d]) = {}
      BY <1>1, <2>2 DEF Alike, AlikeIn
    <3> QED BY <3>1, NamedNone
  <2> QED BY <2>1, <2>2
<1>2. ASSUME NEW d \in DOMAIN T, NEW i \in UsedOf(T[d])
      PROVE  d \in DOMAIN U /\ i \in UsedOf(U[d]) /\ FullName(U[d], i) = FullName(T[d], i) /\ (HasLong(U[d], i) <=> HasLong(T[d], i))
             /\ U[d][i].name = T[d][i].name
  <2>1. AlikeIn(T, U, d)
    BY <1>2 DEF Alike
  <2>2. d \in DOMAIN U
    BY <1>2, <2>1 DEF AlikeIn
  <2>3. UsedOf(U[d]) = UsedOf(T[d]) /\ SameNames(T[d], U[d]) /\ Named(T[d])
    BY <1>2, <2>1, <2>2 DEF AlikeIn, NamedTree
  <2>4. i \in UsedOf(U[d])
    BY <1>2, <2>3
  <2>5. U[d][i].name = T[d][i].name
    BY <2>3, <2>4 DEF SameNames
  <2> QED BY <2>2, <2>3, <2>4, <2>5, NamesKept
<1>3. ASSUME NEW d \in DOMAIN U, NEW i \in UsedOf(U[d]) PROVE d \in DOMAIN T /\ i \in UsedOf(T[d])
  <2>1. AlikeIn(T, U, d)
    BY <1>3 DEF Alike
  <2> QED BY <1>3, <2>1 DEF AlikeIn
<1> QED BY <1>1, <1>2, <1>3 DEF NamedTree

LEMMA AlikeAgree ==
  ASSUME NEW T, NEW U, Alike(T, U), NamedTree(T), LfnEntries \in Nat \ {0}, NEW list, Agree(T, list)
  PROVE  Agree(U, list)
<1>1. ASSUME NEW k \in DOMAIN list
      PROVE  k = <<k[1], k[2]>> /\ k[1] \in DOMAIN U /\ list[k] \in UsedOf(U[k[1]]) /\ FullName(U[k[1]], list[k]) = k[2]
  <2>1. k = <<k[1], k[2]>> /\ k[1] \in DOMAIN T /\ list[k] \in UsedOf(T[k[1]]) /\ FullName(T[k[1]], list[k]) = k[2]
    BY <1>1 DEF Agree
  <2> QED BY <2>1, AlikeNames
<1>2. ASSUME NEW d \in DOMAIN U, NEW i \in UsedOf(U[d])
      PROVE  <<d, FullName(U[d], i)>> \in DOMAIN list /\ list[<<d, FullName(U[d], i)>>] = i
  <2>1. d \in DOMAIN T /\ i \in UsedOf(T[d])
    BY <1>2, AlikeNames
  <2>2. FullName(U[d], i) = FullName(T[d], i)
    BY <2>1, AlikeNames
  <2>3. <<d, FullName(T[d], i)>> \in DOMAIN list /\ list[<<d, FullName(T[d], i)>>] = i
    BY <2>1 DEF Agree
  <2> QED BY <2>2, <2>3
<1> QED BY <1>1, <1>2 DEF Agree

LEMMA AlikeFile ==
  ASSUME NEW T, NEW U, Alike(T, U), NamedTree(T), LfnEntries \in Nat \ {0}, NEW o, o.dir \in DOMAIN T, o.index \in UsedOf(T[o.dir]),
         NameIs(T, o)
  PROVE  NameIs(U, o)
<1>1. FullName(U[o.dir], o.index) = FullName(T[o.dir], o.index) /\ (HasLong(U[o.dir], o.index) <=> HasLong(T[o.dir], o.index))
  BY AlikeNames
<1> QED BY <1>1 DEF NameIs

LEMMA SameAlike ==
  ASSUME NEW T
  PROVE  Alike(T, T)
BY DEF Alike, AlikeIn, SameNames

(* Long name entries stay with their short entries. *)
LEMMA OwnedKept ==
  ASSUME NEW T, NEW U, Alike(T, U), NamedTree(T), LfnEntries \in Nat \ {0}, NEW loose, NEW loose2, Owned(T, loose),
         \A d \in DOMAIN U : \A i \in DOMAIN U[d] : U[d][i].kind = "lfn" /\ <<d, i>> \notin loose2 =>
           d \in DOMAIN T /\ i \in DOMAIN T[d] /\ T[d][i].kind = "lfn" /\ <<d, i>> \notin loose
  PROVE  Owned(U, loose2)
<1>1. SUFFICES ASSUME NEW d \in DOMAIN U, NEW i \in DOMAIN U[d], U[d][i].kind = "lfn", <<d, i>> \notin loose2
               PROVE  InLong(U[d], i)
  BY DEF Owned
<1>2. d \in DOMAIN T /\ i \in DOMAIN T[d] /\ T[d][i].kind = "lfn" /\ <<d, i>> \notin loose
  BY <1>1
<1>3. PICK j \in UsedOf(T[d]) : HasLong(T[d], j) /\ j - LfnEntries <= i /\ i < j
  BY <1>2 DEF Owned, InLong
<1>4. j \in UsedOf(U[d]) /\ HasLong(U[d], j)
  BY <1>2, <1>3, AlikeNames
<1> QED BY <1>3, <1>4 DEF InLong

-----------------------------------------------------------------------------
LEMMA UsedIn ==
  ASSUME NEW T, TreeTyped(T), NEW d \in DOMAIN T, NEW i \in UsedOf(T[d])
  PROVE  i \in DOMAIN T[d] /\ i \in Nat /\ F!isFatFileOrSubdir(T[d][i]) /\ T[d][i] \in SlotType /\ T[d][i].kind \in {"file", "subdir"}
<1>1. DirSlots(T[d]) /\ Indexed(T[d]) /\ i \in DOMAIN T[d] /\ F!isFatFileOrSubdir(T[d][i])
  BY DEF TreeTyped, UsedOf, InUse
<1> QED BY <1>1 DEF DirSlots, Indexed, F!isFatFileOrSubdir

LEMMA PrefixNames ==
  ASSUME NEW s, NEW t, PrefixOf(s, t), Named(t), LfnEntries \in Nat \ {0}
  PROVE  SameNames(t, s) /\ Named(s)
<1>1. DOMAIN s = 0 .. LenOf(s) - 1 /\ LenOf(s) \in Nat /\ \A i \in DOMAIN s : i \in DOMAIN t /\ s[i] = t[i]
  BY DEF PrefixOf
<1>2. UsedOf(s) \subseteq UsedOf(t)
  BY <1>1 DEF UsedOf, InUse
<1>3. ASSUME NEW i \in UsedOf(s), HasLong(t, i), NEW k \in 1 .. LfnEntries PROVE s[i - k] = t[i - k]
  <2>1. i \in DOMAIN s /\ i >= LfnEntries
    BY <1>2, <1>3, LongBefore DEF UsedOf
  <2>2. i - k \in DOMAIN s
    BY <1>1, <2>1
  <2> QED BY <1>1, <2>2
<1>4. \A i \in UsedOf(s) : s[i].name = t[i].name
  BY <1>1 DEF UsedOf
<1>5. SameNames(t, s)
  BY <1>2, <1>3, <1>4 DEF SameNames
<1> QED BY <1>5, NamesKept

(* What the invariant says now. *)
LEMMA NamesNow ==
  ASSUME F!DirectoryAssumption, NInv
  PROVE  /\ IInv /\ NamedTree(T0) /\ Owned(T0, LooseAt(pc, call)) /\ Agree(T0, at) /\ (file.open => NameIs(T0, file))
         /\ Dots(T0, RawAt(pc, call), MovingAt(pc, call)) /\ NamePhase(pc, T0, call, F!Contents)
         /\ LfnEntries \in Nat \ {0} /\ TreeTyped(T0) /\ program \in FatPrograms /\ TypedP(device, m_sector, m_buffer, file, call, at, kept)
<1>1. IInv /\ NamesP(T0, file, pc, call, at, F!Contents)
  BY DEF NInv
<1>2. TreeTyped(T0) /\ program \in FatPrograms /\ TypedP(device, m_sector, m_buffer, file, call, at, kept)
  BY <1>1, Now, PartsIs DEF Parts
<1>3. LfnEntries \in Nat \ {0}
  BY <1>2, Setting
<1> QED BY <1>1, <1>2, <1>3 DEF NamesP

(* The sectors of the program with the FAT of the device. *)
LEMMA MixedNames ==
  ASSUME F!DirectoryAssumption, NInv
  PROVE  NamedTree(F!Tree(F!Contents, fatOnDevice, 0))
<1>1. /\ IInv /\ NamedTree(T0) /\ LfnEntries \in Nat \ {0} /\ TreeTyped(T0) /\ program \in FatPrograms
  BY NamesNow
<1>2. T0 = F!Tree(F!Contents, fat, 0) /\ Sectored(F!Contents) /\ Good(fat)
      /\ View(F!Contents, fat) /\ Later(fatOnDevice, fat, SettlingAt(pc))
      /\ PhaseOK(pc, T0, Inside, file, call, F!Contents, fatOnDevice, fat, m_sector)
  BY <1>1, Now
<1>3. DEFINE M == F!Tree(F!Contents, fatOnDevice, 0)
<1>4. DOMAIN M \subseteq DOMAIN T0 /\ \A d \in DOMAIN M : M[d] = F!Slots(F!Contents, fatOnDevice, d)
  <2>1. Below(F!Contents, fatOnDevice, 0) \subseteq DOMAIN T0
    BY <1>1, Mixed
  <2>2. DOMAIN M = Below(F!Contents, fatOnDevice, 0) /\ \A d \in DOMAIN M : M[d] = F!Slots(F!Contents, fatOnDevice, d)
    BY <1>1, <1>2, BelowIs
  <2> QED BY <2>1, <2>2
<1>5. ASSUME NEW d \in DOMAIN T0 PROVE Named(F!Slots(F!Contents, fatOnDevice, d))
  <2>1. d \in F!Cluster \cup {0} /\ T0[d] = F!Slots(F!Contents, fat, d)
    BY <1>1, <1>2, <1>5, TreeClosed DEF TreeTyped
  <2>2. CASE ~RemovedNow(d)
    <3>1. fat[FirstOf(d)] # 0
      BY <1>1, <1>5, <2>2, DirHeld
    <3>2. Begins(F!Chain(fat, d), F!Chain(fatOnDevice, d))
      BY <3>1, <1>1, <1>2, <2>1, LaterBegins
    <3>3. PrefixOf(F!Slots(F!Contents, fatOnDevice, d), T0[d])
      BY <3>2, <1>1, <2>1, SlotsPrefix
    <3> QED BY <3>3, <1>1, <1>5, PrefixNames DEF NamedTree
  <2>3. CASE RemovedNow(d)
    <3>1. Emptied(T0, F!Contents, fatOnDevice, fat, call)
      BY <1>2, <2>3, PhaseDel DEF DelOK, RemovedNow, MovedOK
    <3>2. UsedOf(F!Slots(F!Contents, fatOnDevice, d)) = {}
      BY <3>1, <2>3 DEF Emptied, RemovedNow, UsedOf
    <3> QED BY <3>2, NamedNone
  <2> QED BY <2>2, <2>3
<1> QED BY <1>4, <1>5 DEF NamedTree

LEMMA PrimedDeviceTree ==
  ASSUME program' = program
  PROVE  F!OnDevice' = F!Tree(device', fatOnDevice', 0)
BY PrimedSetting DEF F!OnDevice, F!Tree, F!Slots, F!SlotIn, F!Chain, F!Cluster, F!MaxDirSectors, F!EntriesPerSector, F!Subdirs, F!Live, F!FirstFree
LEMMA DeviceNames ==
  ASSUME F!DirectoryAssumption, NInv, program' = program, fatOnDevice' = fatOnDevice, device' = F!Contents \/ device' = device
  PROVE  NamedTree(F!OnDevice')
<1>1. F!OnDevice' = F!Tree(device', fatOnDevice', 0)
  BY PrimedDeviceTree
<1>2. CASE device' = F!Contents
  BY <1>1, <1>2, MixedNames
<1>3. CASE device' = device
  <2>1. NamedTree(F!OnDevice)
    BY DEF NInv
  <2> QED BY <1>1, <1>3, <2>1 DEF F!OnDevice
<1> QED BY <1>2, <1>3

LEMMA PrimedNames ==
  NamesP(T0, file, pc, call, at, F!Contents)' = NamesP(T0', file', pc', call', at', F!Contents')
BY DEF NamesP, NamedTree, Named, UsedOf, InUse, F!isFatFileOrSubdir, HasLong, FullName, LongAt, F!LongSfns, F!LongEntry, F!Slot, Owned, InLong, LooseAt, PhaseOf,
   Building, Written, F!Lost, Agree, NameIs, Dots, DotHead, RawAt, MovingAt, NamePhase, MakingOK, MadeOK, LeftOK, SfnFits, SfnNew, NameNew
LEMMA NextNames ==
  ASSUME IInv', NamesP(T0', file', pc', call', at', F!Contents'), NamedTree(F!OnDevice')
  PROVE  NInv'
<1>1. NamedTree(F!OnDevice)' = NamedTree(F!OnDevice')
  BY DEF NamedTree, Named, UsedOf, InUse, F!isFatFileOrSubdir, HasLong, FullName, LongAt, F!LongSfns, F!LongEntry, F!Slot
<1> QED BY <1>1, PrimedNames DEF NInv

-----------------------------------------------------------------------------
(* A step that leaves the tree as it is. *)
LEMMA SameTree ==
  ASSUME F!DirectoryAssumption, NInv, IInv', T0' = T0, at' = at, NamedTree(F!OnDevice'),
         LooseAt(pc, call) \subseteq LooseAt(pc', call'), RawAt(pc, call) \subseteq RawAt(pc', call'),
         MovingAt(pc, call) \subseteq MovingAt(pc', call'), file'.open => NameIs(T0, file'),
         NamePhase(pc', T0, call', F!Contents')
  PROVE  NInv'
<1>1. /\ NamedTree(T0) /\ Owned(T0, LooseAt(pc, call)) /\ Agree(T0, at) /\ Dots(T0, RawAt(pc, call), MovingAt(pc, call))
  BY NamesNow
<1>2. Owned(T0, LooseAt(pc', call'))
  BY <1>1 DEF Owned
<1>3. Dots(T0, RawAt(pc', call'), MovingAt(pc', call'))
  BY <1>1 DEF Dots
<1>4. NamesP(T0', file', pc', call', at', F!Contents')
  BY <1>1, <1>2, <1>3 DEF NamesP
<1> QED BY <1>4, NextNames

NoSets(step, c) == LooseAt(step, c) = {} /\ RawAt(step, c) = {} /\ MovingAt(step, c) = {}
BareSteps == {"idle", "search", "grow", "newdir", "newentry", "copy", "entry"}
LEMMA BareSets ==
  ASSUME NEW step, NEW c, step \in BareSteps
  PROVE  NoSets(step, c)
<1>1. Building(step, c) = {}
  BY BuildingNone DEF BareSteps
<1> QED BY <1>1 DEF NoSets, BareSteps, LooseAt, RawAt, MovingAt, PhaseOf
BareThens == {"idle", "search", "copy"}
LEMMA SyncSets ==
  ASSUME NEW step, NEW c, step \in {"data", "fat"}
  PROVE  /\ PhaseOf(step, c) = c.then /\ MovingAt(step, c) = {} /\ (LooseAt(step, c) = LooseAt(c.then, c) \/ c.then \in {"lfn", "sfn", "data", "fat"})
         /\ c.then \in BareThens => NoSets(step, c)
         /\ RawAt(step, c) = (IF c.then = "dots" THEN {c.first} ELSE {})
         /\ c.then # "unlfn" => LooseAt(step, c) = {}
<1>1. Building(step, c) = {}
  BY BuildingNone
<1>2. PhaseOf(step, c) = c.then
  BY DEF PhaseOf
<1>3. c.then \notin {"lfn", "sfn", "data", "fat"} => Building(c.then, c) = {} /\ PhaseOf(c.then, c) = c.then
  BY BuildingNone DEF PhaseOf
<1> QED BY <1>1, <1>2, <1>3 DEF NoSets, BareThens, LooseAt, RawAt, MovingAt
LEMMA PhaseQuiet ==
  ASSUME NEW step, NEW T, NEW c, NEW contents, step \in {"idle", "search", "entry"} \/ (step \in {"data", "fat"} /\ c.then \in {"idle", "search"})
  PROVE  NamePhase(step, T, c, contents)
BY DEF NamePhase, PhaseOf

LEMMA CallBeginsNames ==
  ASSUME F!DirectoryAssumption, NInv, IInv', pc = "idle", UNCHANGED <<program, F!volume, F!cache, file, F!history>>,
         pc' \in {"search", "entry"} \/ (pc' = "data" /\ call'.then \in {"search", "idle"})
  PROVE  NInv'
<1>1. program' = program /\ device' = device /\ fatOnDevice' = fatOnDevice /\ fat' = fat /\ m_sector' = m_sector /\ m_buffer' = m_buffer
      /\ file' = file /\ at' = at
  BY DEF F!volume, F!cache, F!history
<1>2. F!Contents' = F!Contents
  BY <1>1, ContentsIs
<1>3. T0' = T0
  BY <1>1, <1>2, PrimedTree, NamesNow, Now
<1>4. NoSets(pc, call)
  BY BareSets DEF BareSteps
<1>5. NamePhase(pc', T0, call', F!Contents')
  BY PhaseQuiet
<1>6. NamedTree(F!OnDevice')
  BY <1>1, DeviceNames
<1> QED BY <1>1, <1>3, <1>4, <1>5, <1>6, NamesNow, SameTree DEF NoSets

LEMMA BeginNames ==
  ASSUME F!DirectoryAssumption, NInv, IInv', pc = "idle", NEW d \in F!Directories, NEW name \in F!Names,
         (\E mode \in program.modes : F!open(d, name, mode)) \/ F!mkdir(d, name) \/ F!rename(d, name)
  PROVE  NInv'
<1>1. CASE (\E mode \in program.modes : F!open(d, name, mode)) \/ F!mkdir(d, name)
  <2>1. pc' = "search" /\ UNCHANGED <<program, F!volume, F!cache, file, F!history>>
    BY <1>1 DEF F!open, F!mkdir, F!BeginSearch, F!Goes
  <2> QED BY <2>1, CallBeginsNames
<1>2. CASE F!rename(d, name)
  <2>1. /\ UNCHANGED <<program, F!volume, F!cache, file, F!history>>
        /\ F!BeginSync([F!NoCall EXCEPT !.op = "rename", !.dir = d, !.name = name, !.then = "search"])
    BY <1>2 DEF F!rename
  <2>2. pc' \in {"entry", "data"} /\ call'.then = "search"
    BY <2>1 DEF F!BeginSync, F!Goes, F!NoCall
  <2> QED BY <2>1, <2>2, CallBeginsNames
<1> QED BY <1>1, <1>2
LEMMA CloseNames ==
  ASSUME F!DirectoryAssumption, NInv, IInv', F!close
  PROVE  NInv'
<1>1. /\ UNCHANGED <<program, F!volume, F!cache, file, F!history>> /\ pc = "idle" /\ F!BeginSync([F!NoCall EXCEPT !.op = "close"])
  BY DEF F!close
<1>2. pc' \in {"entry", "data"} /\ call'.then = "idle"
  BY <1>1 DEF F!BeginSync, F!Goes, F!NoCall
<1> QED BY <1>1, <1>2, CallBeginsNames

LEMMA SyncDataNames ==
  ASSUME F!DirectoryAssumption, NInv, IInv', F!syncData
  PROVE  NInv'
<1>1. /\ program' = program /\ fat' = fat /\ fatOnDevice' = fatOnDevice /\ file' = file /\ call' = call /\ at' = at
      /\ pc = "data" /\ pc' = "fat" /\ device' = F!Contents /\ F!Clean
  BY DEF F!syncData, F!history, F!Clean
<1>2. IInv
  BY NamesNow
<1>3. F!Contents' = F!Contents
  BY <1>1, <1>2, CleanIs
<1>4. T0' = T0
  BY <1>1, <1>2, <1>3, PrimedTree, Now
<1>5. PhaseOf(pc', call') = PhaseOf(pc, call) /\ Building(pc', call') = {} /\ Building(pc, call) = {}
  BY <1>1, BuildingNone DEF PhaseOf
<1>6. LooseAt(pc', call') = LooseAt(pc, call) /\ RawAt(pc', call') = RawAt(pc, call) /\ MovingAt(pc', call') = MovingAt(pc, call)
  BY <1>1, <1>5 DEF LooseAt, RawAt, MovingAt
<1>7. NamePhase(pc', T0, call', F!Contents')
  BY <1>1, <1>3, <1>5, NamesNow DEF NamePhase
<1>8. NamedTree(F!OnDevice')
  BY <1>1, DeviceNames
<1> QED BY <1>1, <1>4, <1>6, <1>7, <1>8, NamesNow, SameTree

LEMMA SyncFatNames ==
  ASSUME F!DirectoryAssumption, NInv, IInv', F!syncFat
  PROVE  NInv'
<1>1. /\ program' = program /\ device' = device /\ fat' = fat /\ m_sector' = m_sector /\ m_buffer' = m_buffer /\ at' = at
      /\ pc = "fat" /\ fatOnDevice' = fat
  BY DEF F!syncFat, F!cache
<1>2. IInv /\ NamePhase(pc, T0, call, F!Contents) /\ (file.open => NameIs(T0, file)) /\ NamedTree(T0)
  BY NamesNow
<1>3. SyncGoal(T0, Inside, file, call) /\ m_sector = 0
  BY <1>1, <1>2, Now, PhaseSync
<1>4. F!Contents' = F!Contents /\ F!Contents = device
  BY <1>1, <1>3 DEF F!Contents
<1>5. T0' = T0 /\ T0 = F!Tree(F!Contents, fat, 0)
  BY <1>1, <1>2, <1>4, PrimedTree, Now
<1>6. NamedTree(F!OnDevice')
  BY <1>1, <1>2, <1>4, <1>5, PrimedDeviceTree
<1>7. call.then \in {"idle", "search", "dots", "copy", "unlfn"}
  BY <1>3 DEF SyncGoal, SyncOK
<1>8. PhaseOf(pc, call) = call.then /\ MovingAt(pc, call) = {} /\ MovingAt(call.then, call) = {}
      /\ LooseAt(pc, call) = LooseAt(call.then, call) /\ RawAt(pc, call) = RawAt(call.then, call)
      /\ PhaseOf(call.then, call) = call.then
  <2>1. PhaseOf(pc, call) = call.then /\ PhaseOf(call.then, call) = call.then
    BY <1>1, <1>7 DEF PhaseOf
  <2>2. MovingAt(pc, call) = {} /\ MovingAt(call.then, call) = {}
    BY <1>1, <1>7 DEF MovingAt
  <2>3. LooseAt(pc, call) = LooseAt(call.then, call)
    BY <1>1, <1>7, SyncSets
  <2> QED BY <2>1, <2>2, <2>3 DEF RawAt
<1>9. CASE call.then = "idle"
  <2>1. pc' = "idle" /\ call' = F!NoCall /\ file' = IF call.op = "close" THEN F!Closed ELSE file
    BY <1>9 DEF F!syncFat, F!Ends
  <2>2. file'.open => NameIs(T0, file')
    BY <2>1, <1>2 DEF F!Closed
  <2>3. NoSets(pc, call)
    BY <1>1, <1>9, SyncSets DEF BareThens
  <2> QED BY <2>1, <2>2, <2>3, <1>1, <1>5, <1>6, PhaseQuiet, SameTree DEF NoSets
<1>10. CASE call.then # "idle"
  <2>1. pc' = call.then /\ call' = call /\ file' = file
    BY <1>10 DEF F!syncFat, F!Goes
  <2>2. NamePhase(pc', T0, call', F!Contents')
    BY <2>1, <1>2, <1>4, <1>7, <1>8 DEF NamePhase
  <2> QED BY <2>1, <2>2, <1>1, <1>2, <1>5, <1>6, <1>8, SameTree
<1> QED BY <1>9, <1>10

-----------------------------------------------------------------------------
(* The search of open() and the names: what is read so far is in front of i. *)
OwnedIn(s) == \A i \in DOMAIN s : s[i].kind = "lfn" => InLong(s, i)
Tidy(s) == DirSlots(s) /\ Indexed(s) /\ Named(s) /\ OwnedIn(s) /\ TailFree(s)
Amid(s, i, j) == j \in UsedOf(s) /\ HasLong(s, j) /\ j - LfnEntries < i /\ i <= j
Passed(s, name, i, alias) ==
  \A j \in UsedOf(s) : j < i => FullName(s, j) # name /\ (~alias => s[j].name # F!makeSFN(name))
SetBegun(s, name, i, lfnOrd, order, sum) ==
  F!Lost(name) /\ lfnOrd = LfnEntries /\ \E j \in UsedOf(s) :
    Amid(s, i, j) /\ order = j - i + 1 /\ sum = s[j].name /\ (i = j => FullName(s, j) = name)
NoSetBegun(s, name, i) ==
  F!Lost(name) => \A j \in UsedOf(s) : Amid(s, i, j) => i = j /\ FullName(s, j) # name
SetSeen(s, name, i, lfnOrd, order, sum) ==
  IF lfnOrd # 0 THEN SetBegun(s, name, i, lfnOrd, order, sum) ELSE NoSetBegun(s, name, i)
NameFound(s, name, last, lfnOrd) ==
  last \in UsedOf(s) /\ FullName(s, last) = name /\ lfnOrd = IF HasLong(s, last) THEN LfnEntries ELSE 0
NameAbsent(s, name, alias) == NameNew(s, name) /\ (~alias => SfnNew(s, F!makeSFN(name)))
NameScanned(s, name, i, st) ==
  /\ st.at # "fail"
  /\ st.at = "more" => Passed(s, name, i, st.alias) /\ SetSeen(s, name, i, st.lfnOrd, st.order, st.sum)
  /\ st.at = "found" => NameFound(s, name, st.last, st.lfnOrd)
  /\ st.at = "create" => NameAbsent(s, name, st.alias)

LEMMA NameKinds ==
  ASSUME F!DirectoryAssumption, program \in FatPrograms, NEW name \in F!Names
  PROVE  /\ F!Lost(name) => name \in LongNames /\ name \notin ShortNames /\ F!makeSFN(name) = Basis /\ F!nameOrd(name) = LfnEntries
                            /\ F!freeNeed(name) = 1 + LfnEntries
         /\ ~F!Lost(name) => name \in ShortNames /\ name \notin F!LongSfns /\ name \notin LongNames /\ F!makeSFN(name) = name /\ F!nameOrd(name) = 1
                             /\ F!freeNeed(name) = 1
         /\ LfnEntries \in Nat \ {0} /\ Basis \in F!LongSfns
BY Setting DEF F!Lost, F!makeSFN, F!nameOrd, F!freeNeed
LEMMA UsedPlace ==
  ASSUME F!DirectoryAssumption, program \in FatPrograms, NEW s, DirSlots(s), NEW i \in UsedOf(s)
  PROVE  /\ i \in DOMAIN s /\ i \in Nat /\ s[i] \in SlotType /\ s[i].kind \in {"file", "subdir"}
         /\ s[i].name \in ShortNames \cup F!LongSfns
<1>1. i \in DOMAIN s /\ F!isFatFileOrSubdir(s[i])
  BY DEF UsedOf, InUse
<1> QED BY <1>1 DEF DirSlots, SlotType, F!isFatFileOrSubdir
LEMMA LongPlace ==
  ASSUME F!DirectoryAssumption, program \in FatPrograms, NEW s, DirSlots(s), Named(s), NEW j \in UsedOf(s), HasLong(s, j), NEW i \in Int,
         j - LfnEntries <= i, i < j
  PROVE  /\ i \in DOMAIN s /\ s[i].kind = "lfn" /\ s[i].order = j - i /\ s[i].sum = s[j].name /\ s[i].name = FullName(s, j)
         /\ j \in Nat /\ LfnEntries \in Nat \ {0} /\ FullName(s, j) \in LongNames /\ j >= LfnEntries
<1>1. LfnEntries \in Nat \ {0} /\ j \in DOMAIN s /\ j \in Nat
  BY Setting, UsedPlace
<1>2. PICK k : k = j - i /\ k \in 1 .. LfnEntries
  BY <1>1
<1>3. j - k = i
  BY <1>1, <1>2
<1>4. /\ j >= LfnEntries /\ s[i].kind = "lfn" /\ s[i].order = k /\ s[i].sum = s[j].name /\ s[i].name = s[j - 1].name
  BY <1>1, <1>2, <1>3, LongBefore
<1>5. i \in DOMAIN s
  BY <1>1, <1>4 DEF DirSlots
<1>6. FullName(s, j) = s[j - 1].name
  BY DEF FullName
<1>7. s[i] \in SlotType
  BY <1>5 DEF DirSlots
<1>8. s[i].name \in LongNames
  BY <1>4, <1>7 DEF SlotType
<1> QED BY <1>1, <1>2, <1>4, <1>5, <1>6, <1>8

LEMMA AmidNext ==
  ASSUME F!DirectoryAssumption, program \in FatPrograms, NEW s, Tidy(s), NEW i \in DOMAIN s, s[i].kind # "lfn", NEW name
  PROVE  NoSetBegun(s, name, i + 1)
<1>1. i \in Nat
  BY DEF Tidy, Indexed
<1>2. ASSUME NEW j \in UsedOf(s), Amid(s, i + 1, j) PROVE FALSE
  <2>1. j \in Nat /\ HasLong(s, j) /\ LfnEntries \in Nat
    BY <1>2, UsedPlace, Setting DEF Amid, Tidy
  <2>2. j - LfnEntries <= i /\ i < j
    BY <1>1, <1>2, <2>1 DEF Amid
  <2> QED BY <1>1, <2>1, <2>2, LongPlace DEF Tidy
<1> QED BY <1>2 DEF NoSetBegun
LEMMA PassedNext ==
  ASSUME F!DirectoryAssumption, program \in FatPrograms, NEW s, Tidy(s), NEW i \in DOMAIN s, NEW name, NEW alias, Passed(s, name, i, alias),
         NEW alias2, alias => alias2,
         i \in UsedOf(s) => FullName(s, i) # name /\ (~alias2 => s[i].name # F!makeSFN(name))
  PROVE  Passed(s, name, i + 1, alias2)
<1>1. i \in Nat
  BY DEF Tidy, Indexed
<1>2. ASSUME NEW j \in UsedOf(s), j < i + 1 PROVE FullName(s, j) # name /\ (~alias2 => s[j].name # F!makeSFN(name))
  <2>1. j \in Nat
    BY UsedPlace DEF Tidy
  <2>2. j = i \/ j < i
    BY <1>1, <1>2, <2>1
  <2> QED BY <2>2, <1>2 DEF Passed
<1> QED BY <1>2 DEF Passed

(* The long name that an entry belongs to. *)
LEMMA LongOwner ==
  ASSUME F!DirectoryAssumption, program \in FatPrograms, NEW s, Tidy(s), NEW i \in DOMAIN s, s[i].kind = "lfn"
  PROVE  \E j \in UsedOf(s) : /\ HasLong(s, j) /\ j - LfnEntries <= i /\ i < j /\ j \in Nat /\ i \in Nat
                              /\ \A l \in UsedOf(s) : HasLong(s, l) /\ l - LfnEntries <= i /\ i < l => l = j
<1>1. i \in Nat /\ LfnEntries \in Nat
  BY Setting DEF Tidy, Indexed
<1>2. PICK j \in UsedOf(s) : HasLong(s, j) /\ j - LfnEntries <= i /\ i < j
  BY DEF Tidy, OwnedIn, InLong
<1>3. j \in Nat /\ s[i].order = j - i
  BY <1>1, <1>2, LongPlace DEF Tidy
<1>4. ASSUME NEW l \in UsedOf(s), HasLong(s, l), l - LfnEntries <= i, i < l PROVE l = j
  <2>1. l \in Nat /\ s[i].order = l - i
    BY <1>1, <1>4, LongPlace DEF Tidy
  <2> QED BY <1>1, <1>3, <2>1
<1> QED BY <1>1, <1>2, <1>3, <1>4

-----------------------------------------------------------------------------
(* What one entry does to the search, as the names go. *)
LEMMA CmpIs ==
  ASSUME F!DirectoryAssumption, program \in FatPrograms, NEW s, Tidy(s), NEW j \in UsedOf(s), HasLong(s, j), NEW name
  PROVE  F!cmpName(s, j, name, LfnEntries) <=> FullName(s, j) = name
<1>1. j \in Nat /\ LfnEntries \in Nat \ {0}
  BY UsedPlace, Setting DEF Tidy
<1>2. ASSUME NEW k \in 1 .. LfnEntries PROVE s[j - k].name = FullName(s, j)
  <2>1. j - k \in Int /\ j - LfnEntries <= j - k /\ j - k < j
    BY <1>1
  <2> QED BY <2>1, LongPlace DEF Tidy
<1>3. 1 \in 1 .. LfnEntries
  BY <1>1
<1> QED BY <1>2, <1>3 DEF F!cmpName

LongWhat(st, s, i, name, u) ==
  /\ u.at = st.at /\ u.alias = st.alias
  /\ IF F!SetStarts(st, s[i], name) \/ F!SetGoesOn(st, s[i])
     THEN /\ u.order = s[i].order /\ u.sum = s[i].sum
          /\ u.lfnOrd = IF s[i].order = 1 /\ ~F!cmpName(s, i + 1, name, F!nameOrd(name)) THEN 0 ELSE F!nameOrd(name)
     ELSE u.lfnOrd = 0
LEMMA LongWhatIs ==
  ASSUME NEW st \in ScanStates, NEW s, NEW i, NEW name, NEW u, u = F!LongSeen(st, s, i, name)
  PROVE  LongWhat(st, s, i, name, u)
<1> DEFINE goes == F!SetStarts(st, s[i], name) \/ F!SetGoesOn(st, s[i])
<1>1. CASE ~goes
  <2>1. u = [st EXCEPT !.lfnOrd = 0]
    BY <1>1 DEF F!LongSeen
  <2> QED BY <1>1, <2>1 DEF LongWhat, ScanStates
<1>2. CASE goes
  <2>1. PICK o : o = IF s[i].order = 1 /\ ~F!cmpName(s, i + 1, name, F!nameOrd(name)) THEN 0 ELSE F!nameOrd(name)
    OBVIOUS
  <2>2. u = [st EXCEPT !.order = s[i].order, !.sum = s[i].sum, !.lfnOrd = o]
    BY <1>2, <2>1 DEF F!LongSeen
  <2>3. u.at = st.at /\ u.alias = st.alias /\ u.order = s[i].order /\ u.sum = s[i].sum /\ u.lfnOrd = o
    BY <2>2 DEF ScanStates
  <2> QED BY <1>2, <2>1, <2>3 DEF LongWhat
<1> QED BY <1>1, <1>2

LEMMA LongStep ==
  ASSUME F!DirectoryAssumption, program \in FatPrograms, NEW s, Tidy(s), NEW i \in DOMAIN s, s[i].kind = "lfn", NEW name \in F!Names,
         NEW st, SetSeen(s, name, i, st.lfnOrd, st.order, st.sum), NEW u, LongWhat(st, s, i, name, u)
  PROVE  SetSeen(s, name, i + 1, u.lfnOrd, u.order, u.sum)
<1>1. PICK j \in UsedOf(s) : /\ HasLong(s, j) /\ j - LfnEntries <= i /\ i < j /\ j \in Nat /\ i \in Nat
                             /\ \A l \in UsedOf(s) : HasLong(s, l) /\ l - LfnEntries <= i /\ i < l => l = j
  BY LongOwner
<1>2. s[i].order = j - i /\ s[i].sum = s[j].name /\ s[i].name = FullName(s, j) /\ FullName(s, j) \in LongNames /\ LfnEntries \in Nat \ {0}
  BY <1>1, LongPlace DEF Tidy
<1>3. F!nameOrd(s[i].name) = LfnEntries /\ (F!Last(s[i]) <=> j - i = LfnEntries)
  BY <1>2 DEF F!nameOrd, F!Lost, F!Last
<1>4. CASE ~F!Lost(name)
  <2>1. F!nameOrd(name) = 1 /\ name \notin LongNames
    BY <1>4 DEF F!nameOrd, F!Lost
  <2>2. st.lfnOrd = 0
    BY <1>4 DEF SetSeen, SetBegun
  <2>3. u.lfnOrd = 0
    <3>1. CASE F!SetStarts(st, s[i], name) \/ F!SetGoesOn(st, s[i])
      <4>1. s[i].order = 1
        BY <2>1, <2>2, <3>1 DEF F!SetStarts, F!SetGoesOn
      <4>2. (i + 1) - 1 = i /\ 1 \in 1 .. 1
        BY <1>1
      <4>3. ~F!cmpName(s, i + 1, name, 1)
        BY <1>2, <2>1, <4>2 DEF F!cmpName
      <4> QED BY <2>1, <3>1, <4>1, <4>3 DEF LongWhat
    <3>2. CASE ~(F!SetStarts(st, s[i], name) \/ F!SetGoesOn(st, s[i]))
      BY <3>2 DEF LongWhat
    <3> QED BY <3>1, <3>2
  <2> QED BY <1>4, <2>3 DEF SetSeen, NoSetBegun
<1>5. CASE F!Lost(name)
  <2>1. F!nameOrd(name) = LfnEntries
    BY <1>5 DEF F!nameOrd
  <2>2. F!SetStarts(st, s[i], name) \/ F!SetGoesOn(st, s[i])
    <3>1. CASE st.lfnOrd # 0
      <4>1. PICK l \in UsedOf(s) : Amid(s, i, l) /\ st.order = l - i + 1 /\ st.sum = s[l].name
        BY <3>1 DEF SetSeen, SetBegun
      <4>2. l \in Nat /\ l # i
        BY <4>1, UsedPlace DEF Tidy
      <4>3. l = j /\ j - LfnEntries < i
        BY <1>1, <1>2, <4>1, <4>2 DEF Amid
      <4>4. ~F!Last(s[i]) /\ s[i].order = st.order - 1 /\ s[i].sum = st.sum
        BY <1>1, <1>2, <1>3, <4>1, <4>3
      <4> QED BY <3>1, <4>4 DEF F!SetGoesOn
    <3>2. CASE st.lfnOrd = 0
      <4>1. ~Amid(s, i, j)
        BY <1>1, <1>5, <3>2 DEF SetSeen, NoSetBegun
      <4>2. j - i = LfnEntries
        BY <1>1, <1>2, <4>1 DEF Amid
      <4> QED BY <1>2, <1>3, <2>1, <3>2, <4>2 DEF F!SetStarts
    <3> QED BY <3>1, <3>2
  <2>3. u.order = j - i /\ u.sum = s[j].name
        /\ u.lfnOrd = IF j - i = 1 /\ ~F!cmpName(s, i + 1, name, LfnEntries) THEN 0 ELSE LfnEntries
    BY <1>2, <2>1, <2>2 DEF LongWhat
  <2>4. /\ Amid(s, i + 1, j) /\ j - i = j - (i + 1) + 1
        /\ \A l \in UsedOf(s) : Amid(s, i + 1, l) => l = j
    <3>1. Amid(s, i + 1, j) /\ j - i = j - (i + 1) + 1
      BY <1>1, <1>2 DEF Amid
    <3>2. ASSUME NEW l \in UsedOf(s), Amid(s, i + 1, l) PROVE l = j
      <4>1. l \in Nat
        BY UsedPlace DEF Tidy
      <4>2. HasLong(s, l) /\ l - LfnEntries <= i /\ i < l
        BY <1>1, <1>2, <3>2, <4>1 DEF Amid
      <4> QED BY <1>1, <4>2
    <3> QED BY <3>1, <3>2
  <2>5. j - i = 1 => i + 1 = j
    BY <1>1
  <2>6. i + 1 = j => j - i = 1
    BY <1>1
  <2>7. F!cmpName(s, j, name, LfnEntries) <=> FullName(s, j) = name
    BY <1>1, CmpIs
  <2>8. CASE u.lfnOrd = 0
    <3>1. i + 1 = j /\ FullName(s, j) # name
      BY <1>2, <2>3, <2>5, <2>7, <2>8
    <3> QED BY <2>4, <2>8, <3>1 DEF SetSeen, NoSetBegun
  <2>9. CASE u.lfnOrd # 0
    <3>1. u.lfnOrd = LfnEntries /\ (i + 1 = j => FullName(s, j) = name)
      BY <2>3, <2>6, <2>7, <2>9
    <3> QED BY <1>5, <2>3, <2>4, <2>9, <3>1 DEF SetSeen, SetBegun
  <2> QED BY <2>8, <2>9
<1> QED BY <1>4, <1>5

(* The short entry. *)
ShortWhat(st, slot, name, u) ==
  /\ u.lfnOrd = st.lfnOrd /\ u.order = st.order /\ u.sum = st.sum
  /\ IF st.lfnOrd # 0 THEN u.at = (IF st.order = 1 /\ slot.name = st.sum THEN "found" ELSE "fail") /\ u.alias = st.alias
     ELSE IF slot.name # F!makeSFN(name) THEN u.at = st.at /\ u.alias = st.alias
     ELSE IF F!Lost(name) THEN u.at = st.at /\ u.alias = TRUE
     ELSE u.at = "found" /\ u.alias = st.alias
LEMMA ShortWhatIs ==
  ASSUME NEW st \in ScanStates, NEW slot, NEW name, NEW u, u = F!ShortSeen(st, slot, name)
  PROVE  ShortWhat(st, slot, name, u)
<1>1. CASE st.lfnOrd # 0
  <2>1. PICK a : a = IF st.order = 1 /\ slot.name = st.sum THEN "found" ELSE "fail"
    OBVIOUS
  <2>2. u = [st EXCEPT !.at = a]
    BY <1>1, <2>1 DEF F!ShortSeen
  <2> QED BY <1>1, <2>1, <2>2 DEF ShortWhat, ScanStates
<1>2. CASE st.lfnOrd = 0 /\ slot.name # F!makeSFN(name)
  <2>1. u = st
    BY <1>2 DEF F!ShortSeen
  <2> QED BY <1>2, <2>1 DEF ShortWhat
<1>3. CASE st.lfnOrd = 0 /\ slot.name = F!makeSFN(name) /\ F!Lost(name)
  <2>1. u = [st EXCEPT !.alias = TRUE]
    BY <1>3 DEF F!ShortSeen
  <2> QED BY <1>3, <2>1 DEF ShortWhat, ScanStates
<1>4. CASE st.lfnOrd = 0 /\ slot.name = F!makeSFN(name) /\ ~F!Lost(name)
  <2>1. u = [st EXCEPT !.at = "found"]
    BY <1>4 DEF F!ShortSeen
  <2> QED BY <1>4, <2>1 DEF ShortWhat, ScanStates
<1> QED BY <1>1, <1>2, <1>3, <1>4

-----------------------------------------------------------------------------
LEMMA ShortStep ==
  ASSUME F!DirectoryAssumption, program \in FatPrograms, NEW s, Tidy(s), NEW i \in DOMAIN s, s[i].kind \in {"file", "subdir"}, NEW name \in F!Names,
         NEW st, st.at = "more", SetSeen(s, name, i, st.lfnOrd, st.order, st.sum), NEW u, ShortWhat(st, s[i], name, u)
  PROVE  \/ u.at = "found" /\ NameFound(s, name, i, u.lfnOrd)
         \/ u.at = "more" /\ u.lfnOrd = 0 /\ (st.alias => u.alias)
            /\ FullName(s, i) # name /\ (~u.alias => s[i].name # F!makeSFN(name))
<1>1. i \in UsedOf(s) /\ i \in Nat /\ s[i].name \in ShortNames \cup F!LongSfns /\ LfnEntries \in Nat \ {0}
  <2>1. i \in UsedOf(s)
    BY DEF UsedOf, InUse, F!isFatFileOrSubdir
  <2> QED BY <2>1, UsedPlace, Setting DEF Tidy
<1>2. CASE st.lfnOrd # 0
  <2>1. PICK j \in UsedOf(s) : Amid(s, i, j) /\ st.order = j - i + 1 /\ st.sum = s[j].name /\ (i = j => FullName(s, j) = name)
    BY <1>2 DEF SetSeen, SetBegun
  <2>2. j \in Nat /\ HasLong(s, j) /\ j - LfnEntries < i /\ i <= j
    BY <2>1, UsedPlace DEF Tidy, Amid
  <2>3. j = i
    <3>1. SUFFICES ASSUME i < j PROVE FALSE
      BY <1>1, <2>2
    <3>2. s[i].kind = "lfn"
      BY <1>1, <2>2, <3>1, LongPlace DEF Tidy
    <3> QED BY <3>2
  <2>4. st.order = 1 /\ s[i].name = st.sum /\ st.lfnOrd = LfnEntries /\ FullName(s, i) = name
    BY <1>1, <1>2, <2>1, <2>3 DEF SetSeen, SetBegun
  <2>5. u.at = "found" /\ u.lfnOrd = LfnEntries
    BY <1>2, <2>4 DEF ShortWhat
  <2>6. HasLong(s, i)
    BY <2>2, <2>3
  <2>7. NameFound(s, name, i, LfnEntries)
    BY <1>1, <2>4, <2>6 DEF NameFound
  <2> QED BY <2>5, <2>7
<1>3. CASE st.lfnOrd = 0
  <2>1. NoSetBegun(s, name, i)
    BY <1>3 DEF SetSeen
  <2>2. FullName(s, i) = name => ~F!Lost(name) /\ s[i].name = name
    <3>1. CASE HasLong(s, i)
      <4>1. Amid(s, i, i)
        BY <1>1, <3>1 DEF Amid
      <4>2. i - 1 \in Int /\ i - LfnEntries <= i - 1 /\ i - 1 < i
        BY <1>1
      <4>3. FullName(s, i) \in LongNames
        BY <1>1, <3>1, <4>2, LongPlace DEF Tidy
      <4> QED BY <1>1, <2>1, <4>1, <4>3, NameKinds DEF NoSetBegun
    <3>2. CASE ~HasLong(s, i)
      <4>1. FullName(s, i) = s[i].name /\ s[i].name \in ShortNames
        BY <1>1, <3>2 DEF FullName, HasLong
      <4> QED BY <4>1, NameKinds
    <3> QED BY <3>1, <3>2
  <2>3. CASE s[i].name # F!makeSFN(name)
    BY <1>3, <2>2, <2>3, NameKinds DEF ShortWhat
  <2>4. CASE s[i].name = F!makeSFN(name) /\ F!Lost(name)
    BY <1>3, <2>2, <2>4 DEF ShortWhat
  <2>5. CASE s[i].name = F!makeSFN(name) /\ ~F!Lost(name)
    <3>1. s[i].name = name /\ name \notin F!LongSfns
      BY <2>5, NameKinds
    <3>2. ~HasLong(s, i) /\ FullName(s, i) = name
      BY <3>1 DEF HasLong, FullName
    <3>3. NameFound(s, name, i, 0)
      BY <1>1, <3>2 DEF NameFound
    <3>4. u.at = "found" /\ u.lfnOrd = 0
      BY <1>3, <2>5 DEF ShortWhat
    <3> QED BY <3>3, <3>4
  <2> QED BY <2>3, <2>4, <2>5
<1> QED BY <1>2, <1>3

(* A search that is through without the name. *)
LEMMA PassedAll ==
  ASSUME NEW s, NEW name, NEW i, NEW alias, Passed(s, name, i, alias), \A j \in UsedOf(s) : j < i
  PROVE  NameAbsent(s, name, alias)
BY DEF Passed, NameAbsent, NameNew, SfnNew

LEMMA SeenNames ==
  ASSUME F!DirectoryAssumption, program \in FatPrograms, NEW s, Tidy(s), NEW i \in DOMAIN s, NEW name \in F!Names,
         NEW st \in ScanStates, st.at = "more", Passed(s, name, i, st.alias), SetSeen(s, name, i, st.lfnOrd, st.order, st.sum),
         NEW u, u = F!Seen(st, s, i, name)
  PROVE  /\ u.at # "fail"
         /\ u.at = "more" => Passed(s, name, i + 1, u.alias) /\ SetSeen(s, name, i + 1, u.lfnOrd, u.order, u.sum)
         /\ u.at = "found" => NameFound(s, name, i, u.lfnOrd)
         /\ u.at = "create" => NameAbsent(s, name, u.alias)
<1>0. s[i] \in SlotType /\ s[i].kind \in Kinds /\ i \in Nat
  BY DEF Tidy, DirSlots, SlotType, Indexed
<1>1. CASE s[i].kind = "free"
  <2>1. u = [st EXCEPT !.at = "create"]
    BY <1>1 DEF F!Seen
  <2>2. u.at = "create" /\ u.alias = st.alias
    BY <2>1 DEF ScanStates
  <2>3. ASSUME NEW j \in UsedOf(s) PROVE j < i
    <3>1. j \in DOMAIN s /\ j \in Nat /\ s[j].kind \in {"file", "subdir"}
      BY <2>3, UsedPlace DEF Tidy
    <3>2. ~(i < j) /\ i # j
      BY <1>1, <3>1 DEF Tidy, TailFree
    <3> QED BY <1>0, <3>1, <3>2
  <2>4. NameAbsent(s, name, st.alias)
    BY <2>3, PassedAll
  <2> QED BY <2>2, <2>4
<1>2. CASE s[i].kind \in {"deleted", "dot", "dotdot"}
  <2>1. u = [st EXCEPT !.lfnOrd = 0]
    BY <1>2 DEF F!Seen
  <2>2. u.at = "more" /\ u.alias = st.alias /\ u.lfnOrd = 0
    BY <2>1 DEF ScanStates
  <2>3. i \notin UsedOf(s)
    BY <1>2 DEF UsedOf, InUse, F!isFatFileOrSubdir
  <2>4. Passed(s, name, i + 1, st.alias)
    BY <2>3, PassedNext
  <2>5. NoSetBegun(s, name, i + 1)
    BY <1>2, AmidNext
  <2> QED BY <2>2, <2>4, <2>5 DEF SetSeen
<1>3. CASE s[i].kind = "lfn"
  <2>1. u = F!LongSeen(st, s, i, name)
    BY <1>3 DEF F!Seen
  <2>2. LongWhat(st, s, i, name, u)
    BY <2>1, LongWhatIs
  <2>3. u.at = "more" /\ u.alias = st.alias
    BY <2>2 DEF LongWhat
  <2>4. i \notin UsedOf(s)
    BY <1>3 DEF UsedOf, InUse, F!isFatFileOrSubdir
  <2>5. Passed(s, name, i + 1, st.alias)
    BY <2>4, PassedNext
  <2>6. SetSeen(s, name, i + 1, u.lfnOrd, u.order, u.sum)
    BY <1>3, <2>2, LongStep
  <2> QED BY <2>3, <2>5, <2>6
<1>4. CASE s[i].kind \in {"file", "subdir"}
  <2>1. u = F!ShortSeen(st, s[i], name)
    BY <1>4 DEF F!Seen
  <2>2. ShortWhat(st, s[i], name, u)
    BY <2>1, ShortWhatIs
  <2>3. \/ u.at = "found" /\ NameFound(s, name, i, u.lfnOrd)
        \/ u.at = "more" /\ u.lfnOrd = 0 /\ (st.alias => u.alias)
            /\ FullName(s, i) # name /\ (~u.alias => s[i].name # F!makeSFN(name))
    BY <1>4, <2>2, ShortStep
  <2>4. CASE u.at = "found" /\ NameFound(s, name, i, u.lfnOrd)
    BY <2>4
  <2>5. CASE u.at = "more" /\ u.lfnOrd = 0 /\ (st.alias => u.alias)
              /\ FullName(s, i) # name /\ (~u.alias => s[i].name # F!makeSFN(name))
    <3>1. Passed(s, name, i + 1, u.alias)
      BY <2>5, PassedNext
    <3>2. NoSetBegun(s, name, i + 1)
      BY <1>4, AmidNext
    <3> QED BY <2>5, <3>1, <3>2 DEF SetSeen
  <2> QED BY <2>3, <2>4, <2>5
<1> QED BY <1>0, <1>1, <1>2, <1>3, <1>4 DEF Kinds

LEMMA ScanStepNames ==
  ASSUME F!DirectoryAssumption, program \in FatPrograms, NEW s, Tidy(s), NEW name \in F!Names,
         NEW i \in DOMAIN s, NEW st, Scanned(s, name, i, st), NameScanned(s, name, i, st), NEW u, u = ScanStep(s, name, i + 1, st)
  PROVE  NameScanned(s, name, i + 1, u)
<1>0. i \in Nat /\ F!freeNeed(name) \in Nat /\ (i + 1) - 1 = i
  BY SMTT(60), Setting DEF Tidy, Indexed, F!freeNeed
<1>1. CASE st.at # "more"
  BY <1>1 DEF ScanStep, NameScanned
<1>2. CASE st.at = "more"
  <2>0. st \in ScanStates /\ LongGoes(name, st)
    BY <1>2 DEF Scanned
  <2>1. PICK f, slot : f = F!FreeSeen(st, slot, i, F!freeNeed(name)) /\ slot = s[i]
    OBVIOUS
  <2>2. PICK v : v = F!Seen(f, s, i, name)
    OBVIOUS
  <2>3. u = [v EXCEPT !.last = i]
    BY <1>0, <1>2, <2>1, <2>2 DEF ScanStep
  <2>4. f \in ScanStates /\ f.at = st.at /\ f.lfnOrd = st.lfnOrd /\ f.order = st.order /\ f.sum = st.sum /\ f.alias = st.alias
    <3>1. FreeSeenFacts(st, slot, i, F!freeNeed(name), f)
      BY <1>0, <2>0, <2>1, FreeSeenIs
    <3> QED BY <3>1 DEF FreeSeenFacts
  <2>5. Passed(s, name, i, f.alias) /\ SetSeen(s, name, i, f.lfnOrd, f.order, f.sum) /\ f.at = "more"
    BY <1>2, <2>4 DEF NameScanned
  <2>6. /\ v.at # "fail"
        /\ v.at = "more" => Passed(s, name, i + 1, v.alias) /\ SetSeen(s, name, i + 1, v.lfnOrd, v.order, v.sum)
        /\ v.at = "found" => NameFound(s, name, i, v.lfnOrd)
        /\ v.at = "create" => NameAbsent(s, name, v.alias)
    BY <2>2, <2>4, <2>5, SeenNames
  <2>7. v \in ScanStates
    <3>1. LongGoes(name, f)
      BY <2>0, <2>4 DEF LongGoes
    <3> QED BY <2>2, <2>4, <2>5, <3>1, SeenIs DEF Tidy
  <2>8. u.last = i /\ u.at = v.at /\ u.lfnOrd = v.lfnOrd /\ u.order = v.order /\ u.sum = v.sum /\ u.alias = v.alias
    BY <2>3, <2>7 DEF ScanStates
  <2> QED BY <2>6, <2>8 DEF NameScanned
<1> QED BY <1>1, <1>2

LEMMA NameScanStart ==
  ASSUME F!DirectoryAssumption, program \in FatPrograms, NEW s, Tidy(s), NEW name \in F!Names
  PROVE  NameScanned(s, name, 0, F!Searching)
<1>1. Passed(s, name, 0, FALSE)
  <2>1. ASSUME NEW j \in UsedOf(s) PROVE ~(j < 0)
    <3>1. j \in Nat
      BY <2>1, UsedPlace DEF Tidy
    <3> QED BY <3>1
  <2> QED BY <2>1 DEF Passed
<1>2. NoSetBegun(s, name, 0)
  <2>1. ASSUME NEW j \in UsedOf(s), Amid(s, 0, j) PROVE FALSE
    <3>1. j \in Nat /\ LfnEntries \in Nat \ {0} /\ HasLong(s, j) /\ j - LfnEntries < 0
      BY <2>1, UsedPlace, Setting DEF Tidy, Amid
    <3>2. j >= LfnEntries
      BY <2>1, <3>1 DEF Tidy, Named, LongAt
    <3> QED BY <3>1, <3>2
  <2> QED BY <2>1 DEF NoSetBegun
<1> QED BY <1>1, <1>2 DEF NameScanned, F!Searching, SetSeen

-----------------------------------------------------------------------------
LEMMA ScanNames ==
  ASSUME F!DirectoryAssumption, program \in FatPrograms, NEW s, Tidy(s), NEW name \in F!Names,
         NEW size, size = LenOf(s), NEW scan, scan = [i \in 0 .. size |-> IF i = 0 THEN F!Searching ELSE ScanStep(s, name, i, scan[i - 1])]
  PROVE  NameScanned(s, name, size, scan[size])
<1>1. size \in Nat /\ DOMAIN s = 0 .. size - 1 /\ Indexed(s) /\ DirSlots(s) /\ TailFree(s)
  BY DEF Tidy, Indexed
<1>2. scan[0] = F!Searching /\ \A i \in 1 .. size : scan[i] = ScanStep(s, name, i, scan[i - 1])
  BY <1>1
<1> DEFINE Both(i) == Scanned(s, name, i, scan[i]) /\ NameScanned(s, name, i, scan[i])
           Bad == {i \in 0 .. size : ~Both(i)}
<1>3. SUFFICES ASSUME Bad # {} PROVE FALSE
  BY <1>1
<1>4. PICK m \in Bad : \A l \in Bad : m <= l
  <2>1. Bad \subseteq Nat
    BY <1>1
  <2> QED BY <1>3, <2>1, LeastNat
<1>5. m # 0
  BY <1>1, <1>2, <1>4, ScanStart, NameScanStart
<1>6. m \in 1 .. size /\ m - 1 \in 0 .. size /\ ~(m <= m - 1) /\ m - 1 \in DOMAIN s /\ (m - 1) + 1 = m
  BY <1>1, <1>4, <1>5
<1>7. PICK i, st, u : i = m - 1 /\ st = scan[i] /\ u = scan[m]
  OBVIOUS
<1>8. Scanned(s, name, i, st) /\ NameScanned(s, name, i, st)
  BY <1>4, <1>6, <1>7
<1>9. u = ScanStep(s, name, i + 1, st)
  BY <1>2, <1>6, <1>7
<1>10. Scanned(s, name, i + 1, u)
  BY <1>1, <1>6, <1>7, <1>8, <1>9, ScanStepIs
<1>11. NameScanned(s, name, i + 1, u)
  BY <1>6, <1>7, <1>8, <1>9, ScanStepNames
<1> QED BY <1>4, <1>6, <1>7, <1>10, <1>11

(* What open() finds. *)
NamesEnded(s, name, r) ==
  /\ r.at \in {"found", "create"}
  /\ r.at = "found" => NameFound(s, name, r.last, r.lfnOrd)
  /\ r.at = "create" => NameAbsent(s, name, r.alias)
LEMMA SearchNames ==
  ASSUME F!DirectoryAssumption, IInv, NEW d \in DOMAIN T0, Tidy(T0[d]), NEW name \in F!Names, NEW r, r = F!Search(d, name)
  PROVE  NamesEnded(T0[d], name, r)
<1>0. program \in FatPrograms /\ TreeTyped(T0)
  BY Now
<1> DEFINE s == T0[d]  size == LenOf(T0[d])
           ScanIt(scan) == scan = [i \in 0 .. size |-> IF i = 0 THEN F!Searching ELSE ScanStep(s, name, i, scan[i - 1])]
           scan == CHOOSE scan : ScanIt(scan)
           end == scan[size]
<1>1. DirSlots(s) /\ Indexed(s) /\ TailFree(s)
  BY <1>0 DEF TreeTyped, Tidy
<1>2. F!Entries(d) = s
  BY SizeNow
<1>3. \E f : ScanIt(f)
  BY <1>0, <1>1, ScanFunction
<1>4. ScanIt(scan)
  BY <1>3
<1>5. r = IF end.at # "more" THEN end ELSE [end EXCEPT !.at = "create", !.freeIndex = IF end.free = 0 THEN size ELSE @]
  BY <1>2 DEF F!Search, ScanStep, LenOf
<1> HIDE DEF scan
<1>6. Scanned(s, name, size, end)
  BY <1>0, <1>1, <1>4, ScanIs
<1>7. NameScanned(s, name, size, end)
  BY <1>0, <1>4, ScanNames
<1> HIDE DEF end, ScanIt
<1>8. end \in ScanStates
  BY <1>6 DEF Scanned
<1>9. CASE end.at # "more"
  BY <1>5, <1>7, <1>8, <1>9 DEF NameScanned, NamesEnded, ScanStates
<1>10. CASE end.at = "more"
  <2>1. PICK index : r = [end EXCEPT !.at = "create", !.freeIndex = index]
    BY <1>5, <1>10
  <2>2. r.at = "create" /\ r.alias = end.alias
    BY <2>1, <1>8 DEF ScanStates
  <2>3. \A j \in UsedOf(s) : j < size
    BY <1>1 DEF UsedOf, Indexed
  <2>4. NameAbsent(s, name, end.alias)
    <3>1. Passed(s, name, size, end.alias)
      BY <1>7, <1>10 DEF NameScanned
    <3> QED BY <2>3, <3>1, PassedAll
  <2> QED BY <2>2, <2>4 DEF NamesEnded
<1> QED BY <1>9, <1>10

(* Between two calls, and when open() searches, directories are tidy. *)
LEMMA TidyNow ==
  ASSUME F!DirectoryAssumption, NInv, pc \in {"idle", "search", "grow"}, NEW d \in DOMAIN T0
  PROVE  Tidy(T0[d])
<1>1. IInv /\ Named(T0[d]) /\ Owned(T0, LooseAt(pc, call)) /\ TreeTyped(T0)
  BY NamesNow DEF NamedTree
<1>2. LooseAt(pc, call) = {}
  BY BareSets DEF NoSets, BareSteps
<1>3. OwnedIn(T0[d])
  BY <1>1, <1>2 DEF Owned, OwnedIn
<1>4. SetsP(T0, pc, call)
  BY <1>1, PartsIs DEF Parts
<1>5. Building(pc, call) = {}
  BY BuildingNone
<1>6. TailFree(T0[d])
  BY <1>4, <1>5 DEF SetsP, FreeTail, TailFree
<1> QED BY <1>1, <1>3, <1>6 DEF Tidy, TreeTyped
LEMMA SearchNowNames ==
  ASSUME F!DirectoryAssumption, NInv, pc \in {"idle", "search", "grow"}, NEW d \in DOMAIN T0, NEW name \in F!Names, NEW r, r = F!Search(d, name)
  PROVE  NamesEnded(T0[d], name, r)
BY NamesNow, TidyNow, SearchNames

-----------------------------------------------------------------------------
(* The cluster of a file is freed: the tree stays as it is. *)
LEMMA FreedFileTree ==
  ASSUME F!DirectoryAssumption, IInv, program' = program, F!Contents' = F!Contents, pc # "del", GoneAt(pc, call) = {},
         NEW d \in DOMAIN T0, NEW i \in UsedOf(T0[d]), T0[d][i].kind = "file",
         NEW c, c = EntryFirst(T0, file, <<d, i>>), fat' = F!FreeChain(c)
  PROVE  T0' = T0
<1>1. TreeTyped(T0) /\ T0 = F!Tree(F!Contents, fat, 0)
  BY Now
<1>2. CASE c = 0
  <2>1. fat' = fat
    BY <1>2 DEF F!FreeChain
  <2> QED BY <1>1, <2>1, PrimedTree
<1>3. CASE c # 0
  <2>1. PICK k, H : k = <<d, i>> /\ H = HNow
    OBVIOUS
  <2>2. k[1] = d /\ k[2] = i
    BY <2>1
  <2>3. k \in Entered(T0)
    BY <2>1, <2>2, EnteredIs
  <2>4. H = Holding(T0, file, {}, PendingAt(pc, call)) /\ SNow = Singles(T0, H)
    BY <2>1, HeldNow
  <2>5. k \in DOMAIN H /\ H[k] = c
    BY <1>1, <2>1, <2>3, <2>4, HoldingIs
  <2>6. k # RootKey /\ k # NewKey
    BY <1>1, <2>3, EnteredKey
  <2>7. F!At(T0, k).kind = "file"
    BY <2>2 DEF F!At
  <2>8. k \in SNow
    BY <2>4, <2>5, <2>6, <2>7 DEF Singles
  <2>9. c = HNow[k]
    BY <2>1, <2>5
  <2> QED BY <1>3, <2>8, <2>9, FreeFile
<1> QED BY <1>2, <1>3

NameOpens(c, r) ==
  r.at = "found" /\ c.op \in F!Modes /\ F!Ends
  /\ F!openCachedEntry(c.dir, r.last, r.lfnOrd, c.name, c.op, F!Entry(c.dir, r.last))
LEMMA SearchCases ==
  ASSUME F!search, NEW r, r = F!Search(call.dir, call.name)
  PROVE  \/ /\ r.at = "create" /\ call.op # "read" /\ fat' = fat /\ file' = file /\ pc' = "grow"
            /\ call' = Sought(call, F!makeSFN(call.name), r.alias, r.freeIndex + F!freeNeed(call.name) - 1,
                        IF call.op = "rename" THEN F!Entry(file.dir, file.index) ELSE call.saved)
         \/ NameOpens(call, r)
         \/ fat' = fat /\ file' = file /\ F!Ends
<1>1. CASE /\ r.at = "create" /\ call.op # "read"
           /\ F!Goes("grow",
                [call EXCEPT !.sfn = F!makeSFN(call.name), !.alias = r.alias, !.order = 1,
                             !.index = r.freeIndex + F!freeNeed(call.name) - 1,
                             !.saved = IF call.op = "rename" THEN F!Entry(file.dir, file.index)
                                       ELSE @])
           /\ UNCHANGED <<file, fat, kept>>
  <2>1. pc' = "grow" /\ call' = Sought(call, F!makeSFN(call.name), r.alias, r.freeIndex + F!freeNeed(call.name) - 1,
                        IF call.op = "rename" THEN F!Entry(file.dir, file.index) ELSE call.saved)
    BY <1>1 DEF F!Goes, Sought
  <2> QED BY <1>1, <2>1
<1>2. CASE /\ r.at = "found" /\ call.op \in F!Modes
           /\ F!openCachedEntry(call.dir, r.last, r.lfnOrd, call.name, call.op,
                                F!Entry(call.dir, r.last))
           /\ F!Ends
  BY <1>2 DEF NameOpens
<1>3. CASE UNCHANGED <<file, fat, kept>> /\ F!Ends
  BY <1>3
<1> QED BY <1>1, <1>2, <1>3 DEF F!search

LEMMA SoughtNames ==
  ASSUME F!DirectoryAssumption, program \in FatPrograms, NEW c \in Calls, c.name \in F!Names, NEW T, NEW alias \in BOOLEAN, NEW index \in Nat,
         NEW saved \in SlotType, NameAbsent(T[c.dir], c.name, alias), NEW u, u = Sought(c, F!makeSFN(c.name), alias, index, saved), NEW contents
  PROVE  NamePhase("grow", T, u, contents)
<1>1. F!makeSFN(c.name) \in ShortNames \cup F!LongSfns
  BY NameKinds
<1>2. u.sfn = F!makeSFN(c.name) /\ u.alias = alias /\ u.order = 1 /\ u.dir = c.dir /\ u.name = c.name
  <2>1. PICK sfn : sfn = F!makeSFN(c.name)
    OBVIOUS
  <2> QED BY <1>1, <2>1, SoughtTyped
<1>3. SfnFits(u)
  BY <1>2, NameKinds DEF SfnFits
<1>4. NameNew(T[u.dir], u.name) /\ (~u.alias => SfnNew(T[u.dir], u.sfn))
  BY <1>2 DEF NameAbsent
<1>5. Written("grow", u) = 0
  BY DEF Written
<1>6. MakingOK(T, "grow", u)
  BY <1>3, <1>4, <1>5 DEF MakingOK
<1> QED BY <1>6 DEF NamePhase, PhaseOf

LEMMA SearchKeepsNames ==
  ASSUME F!DirectoryAssumption, NInv, IInv', F!search
  PROVE  NInv'
<1>1. IInv
  BY NamesNow
<1>2. /\ program \in FatPrograms /\ program' = program /\ fatOnDevice' = fatOnDevice /\ at' = at /\ pc = "search"
      /\ F!Contents' = F!Contents /\ (device' = device \/ device' = F!Contents)
      /\ call \in Calls /\ FileIs(T0, file) /\ SearchOK(T0, Inside, file, call)
      /\ GoneAt(pc, call) = {} /\ call.dir \in DOMAIN T0 /\ call.name \in F!Names
      /\ Ended(T0[call.dir], call.name, F!Search(call.dir, call.name)) /\ Indexed(T0[call.dir])
  BY <1>1, SearchNow
<1>3. PICK r : r = F!Search(call.dir, call.name)
  OBVIOUS
<1>4. NamesEnded(T0[call.dir], call.name, r)
  BY <1>2, <1>3, SearchNowNames
<1>5. NoSets(pc, call)
  BY <1>2, BareSets DEF BareSteps
<1>6. NamedTree(F!OnDevice')
  BY <1>2, DeviceNames
<1>7. file.open => NameIs(T0, file)
  BY NamesNow
<1>8. ASSUME fat' = fat PROVE T0' = T0
  BY <1>1, <1>2, <1>8, PrimedTree, Now
<1>9. CASE /\ r.at = "create" /\ call.op # "read" /\ fat' = fat /\ file' = file /\ pc' = "grow"
           /\ call' = Sought(call, F!makeSFN(call.name), r.alias, r.freeIndex + F!freeNeed(call.name) - 1,
                        IF call.op = "rename" THEN F!Entry(file.dir, file.index) ELSE call.saved)
  <2>1. NameAbsent(T0[call.dir], call.name, r.alias)
    BY <1>4, <1>9 DEF NamesEnded
  <2>2. PICK index, saved : index = r.freeIndex + F!freeNeed(call.name) - 1
                            /\ saved = (IF call.op = "rename" THEN F!Entry(file.dir, file.index) ELSE call.saved)
    OBVIOUS
  <2>3. index \in Nat /\ r.alias \in BOOLEAN
    <3>1. r.freeIndex \in Nat /\ r.alias \in BOOLEAN
      BY <1>2, <1>3 DEF Ended, ScanStates
    <3>2. F!freeNeed(call.name) \in Nat \ {0}
      BY <1>2, NameKinds
    <3> QED BY <2>2, <3>1, <3>2
  <2>4. saved \in SlotType
    <3>1. CASE call.op = "rename"
      <4>1. file.open
        BY <1>2, <3>1 DEF SearchOK, RenameOK
      <4>2. file.dir \in DOMAIN T0 /\ file.index \in DOMAIN T0[file.dir]
        BY <1>2, <4>1 DEF FileIs, Object, EntryIs, F!Closed
      <4> QED BY <1>1, <2>2, <3>1, <4>2, SizeNow
    <3>2. CASE call.op # "rename"
      BY <1>2, <2>2, <3>2 DEF Calls
    <3> QED BY <3>1, <3>2
  <2>5. call' = Sought(call, F!makeSFN(call.name), r.alias, index, saved)
    BY <1>9, <2>2
  <2>6. NamePhase(pc', T0, call', F!Contents')
    <3>1. PICK u, contents, alias : u = call' /\ contents = F!Contents' /\ alias = r.alias
      OBVIOUS
    <3>2. NamePhase("grow", T0, u, contents)
      BY <1>2, <2>1, <2>3, <2>4, <2>5, <3>1, SoughtNames
    <3> QED BY <1>9, <3>1, <3>2
  <2>7. NoSets(pc', call')
    BY <1>9, BareSets DEF BareSteps
  <2> QED BY <1>2, <1>5, <1>6, <1>7, <1>8, <1>9, <2>6, <2>7, SameTree DEF NoSets
<1>10. CASE F!Ends
  <2>1. pc' = "idle"
    BY <1>10 DEF F!Ends
  <2>2. NoSets(pc', call')
    BY <2>1, BareSets DEF BareSteps
  <2>3. NamePhase(pc', T0, call', F!Contents')
    BY <2>1, PhaseQuiet
  <2>4. ASSUME T0' = T0, file'.open => NameIs(T0, file') PROVE NInv'
    BY <1>2, <1>5, <1>6, <2>2, <2>3, <2>4, SameTree DEF NoSets
  <2>5. CASE fat' = fat /\ file' = file
    BY <1>7, <1>8, <2>4, <2>5
  <2>6. CASE NameOpens(call, r)
    <3>1. PICK d, i, ord, slot : d = call.dir /\ i = r.last /\ ord = r.lfnOrd /\ slot = F!Entry(call.dir, r.last)
      OBVIOUS
    <3>2. F!openCachedEntry(d, i, ord, call.name, call.op, slot) /\ call.op \in F!Modes /\ r.at = "found"
      BY <2>6, <3>1 DEF NameOpens
    <3>3. NameFound(T0[d], call.name, i, ord)
      BY <1>4, <3>1, <3>2 DEF NamesEnded
    <3>4. d \in DOMAIN T0 /\ i \in UsedOf(T0[d]) /\ i \in DOMAIN T0[d]
      BY <1>2, <3>1, <3>3 DEF NameFound, UsedOf
    <3>5. slot = T0[d][i] /\ slot.kind \in {"file", "subdir"}
      BY <1>1, <3>1, <3>4, SizeNow DEF UsedOf, InUse, F!isFatFileOrSubdir
    <3>6. CASE call.op # "read" /\ slot.kind = "subdir"
      <4>1. file' = file /\ fat' = fat
        BY <3>2, <3>6 DEF F!openCachedEntry
      <4> QED BY <2>5, <4>1
    <3>7. CASE ~(call.op # "read" /\ slot.kind = "subdir")
      <4>1. /\ file'.dir = d /\ file'.index = i /\ file'.lfnOrd = ord /\ file'.name = call.name
            /\ fat' = IF call.op = "trunc" THEN F!FreeChain(slot.first) ELSE fat
        BY <3>2, <3>7 DEF F!openCachedEntry
      <4>2. NameIs(T0, file')
        <5>1. FullName(T0[d], i) = call.name /\ ord = IF HasLong(T0[d], i) THEN LfnEntries ELSE 0
          BY <3>3 DEF NameFound
        <5> QED BY <4>1, <5>1 DEF NameIs
      <4>3. T0' = T0
        <5>1. CASE call.op # "trunc"
          BY <1>8, <4>1, <5>1
        <5>2. CASE call.op = "trunc"
          <6>1. file = F!Closed
            BY <1>2, <5>2 DEF SearchOK, FileIs, Object, EntryIs, F!Modes
          <6>2. T0[d][i].kind = "file"
            BY <3>5, <3>7, <5>2
          <6>3. slot.first = EntryFirst(T0, file, <<d, i>>)
            BY <3>5, <6>1 DEF EntryFirst, F!Closed, F!At
          <6>4. PICK c : c = slot.first
            OBVIOUS
          <6>5. c = EntryFirst(T0, file, <<d, i>>) /\ fat' = F!FreeChain(c)
            BY <4>1, <5>2, <6>3, <6>4
          <6> QED BY <1>1, <1>2, <3>4, <6>2, <6>5, FreedFileTree
        <5> QED BY <5>1, <5>2
      <4> QED BY <2>4, <4>2, <4>3
    <3> QED BY <3>6, <3>7
  <2>7. NameOpens(call, r) \/ (fat' = fat /\ file' = file)
    <3>1. pc' # "grow"
      BY <2>1
    <3> QED BY <1>3, <3>1, SearchCases
  <2> QED BY <2>5, <2>6, <2>7
<1> QED BY <1>3, <1>9, <1>10, SearchCases DEF NameOpens

LEMMA MakeUniqueNames ==
  ASSUME F!DirectoryAssumption, NInv, IInv', F!makeUniqueSfn
  PROVE  NInv'
<1>1. IInv /\ NamePhase(pc, T0, call, F!Contents) /\ program \in FatPrograms /\ call \in Calls
  BY NamesNow DEF TypedP
<1>2. /\ pc = "grow" /\ program' = program /\ fat' = fat /\ fatOnDevice' = fatOnDevice /\ file' = file /\ at' = at
  BY DEF F!makeUniqueSfn, F!history
<1>3. GrowOK(T0, Inside, file, call)
  BY <1>1, <1>2, Now, PhaseIs
<1>4. call.dir \in DOMAIN T0 /\ call.name \in F!Names
  BY <1>3 DEF GrowOK, NewOK, CreateOK
<1>5. PICK d, next : d = call.dir /\ next = IF F!Lost(call.name) THEN "lfn" ELSE "sfn"
  OBVIOUS
<1>6. F!Entries(d) = T0[d] /\ Indexed(T0[d]) /\ NoneBehind(T0[d])
  BY <1>1, <1>4, <1>5, SizeNow, NamesNow DEF TreeTyped
<1>7. F!Used(F!Entries(d)) = {T0[d][i].name : i \in UsedOf(T0[d])}
  BY <1>6, LiveIs DEF F!Used
<1>8. MakingOK(T0, "grow", call)
  BY <1>1, <1>2 DEF NamePhase
<1>9. F!Contents' = F!Contents /\ (device' = device \/ device' = F!Contents)
  <2>1. CASE call.alias
    <3>1. \E last : F!ReadUpTo(call.dir, last)
      BY <2>1 DEF F!makeUniqueSfn
    <3> QED BY <1>1, <3>1, ReadIs
  <2>2. CASE ~call.alias
    <3>1. UNCHANGED <<device, F!cache>>
      BY <2>2 DEF F!makeUniqueSfn
    <3> QED BY <3>1 DEF F!cache, F!Contents
  <2> QED BY <2>1, <2>2
<1>10. T0' = T0
  BY <1>1, <1>2, <1>9, PrimedTree, Now
<1>11. NamedTree(F!OnDevice')
  BY <1>2, <1>9, DeviceNames
<1>12. NoSets(pc, call)
  BY <1>2, BareSets DEF BareSteps
<1>13. file'.open => NameIs(T0, file')
  BY <1>2, NamesNow
<1>14. ASSUME NamePhase(pc', T0, call', F!Contents') PROVE NInv'
  <2>1. RawAt(pc, call) \subseteq RawAt(pc', call') /\ LooseAt(pc, call) \subseteq LooseAt(pc', call') /\ MovingAt(pc, call) \subseteq MovingAt(pc', call')
    BY <1>12 DEF NoSets
  <2> QED BY <1>2, <1>10, <1>11, <1>13, <1>14, <2>1, SameTree
<1>15. ASSUME NEW sfn, NEW u, u.dir = call.dir, u.name = call.name, u.sfn = sfn, u.order = 1,
              SfnFits(u), SfnNew(T0[call.dir], sfn), NEW contents
       PROVE  NamePhase(next, T0, u, contents)
  <2>1. NameNew(T0[u.dir], u.name)
    BY <1>8, <1>15 DEF MakingOK
  <2>2. CASE F!Lost(call.name)
    <3>1. next = "lfn" /\ Written(next, u) = 0
      BY <1>5, <1>15, <2>2 DEF Written
    <3>2. MakingOK(T0, next, u)
      BY <1>15, <2>1, <3>1 DEF MakingOK
    <3> QED BY <3>1, <3>2 DEF NamePhase, PhaseOf
  <2>3. CASE ~F!Lost(call.name)
    <3>1. next = "sfn" /\ Written(next, u) = 0
      BY <1>5, <1>15, <2>3 DEF Written
    <3>2. MakingOK(T0, next, u)
      BY <1>15, <2>1, <3>1 DEF MakingOK
    <3> QED BY <3>1, <3>2 DEF NamePhase, PhaseOf
  <2> QED BY <2>2, <2>3
<1>16. CASE call.alias
  <2>1. CASE \E sfn \in Hashes \ F!Used(F!Entries(d)) : F!Goes(next, [call EXCEPT !.sfn = sfn])
    <3>1. PICK sfn \in Hashes : sfn \notin F!Used(F!Entries(d)) /\ F!Goes(next, [call EXCEPT !.sfn = sfn])
      BY <2>1
    <3>2. PICK u, contents : u = call' /\ contents = F!Contents'
      OBVIOUS
    <3>3. pc' = next /\ u.dir = call.dir /\ u.name = call.name /\ u.sfn = sfn /\ u.order = 1
      BY <1>1, <1>3, <3>1, <3>2 DEF F!Goes, Calls, GrowOK
    <3>4. F!Lost(call.name)
      BY <1>3, <1>16 DEF GrowOK
    <3>5. SfnFits(u)
      BY <3>1, <3>3, <3>4 DEF SfnFits, F!LongSfns
    <3>6. SfnNew(T0[call.dir], sfn)
      BY <1>5, <1>7, <3>1 DEF SfnNew
    <3>7. NamePhase(next, T0, u, contents)
      BY <1>15, <3>3, <3>5, <3>6
    <3> QED BY <1>14, <3>2, <3>3, <3>7
  <2>2. CASE F!Ends
    <3>1. pc' = "idle"
      BY <2>2 DEF F!Ends
    <3> QED BY <1>14, <3>1, PhaseQuiet
  <2> QED BY <1>5, <1>16, <2>1, <2>2 DEF F!makeUniqueSfn
<1>17. CASE ~call.alias
  <2>1. pc' = next /\ call' = call
    BY <1>5, <1>17 DEF F!makeUniqueSfn, F!Goes
  <2>2. SfnFits(call) /\ SfnNew(T0[call.dir], call.sfn) /\ call.order = 1
    BY <1>3, <1>8, <1>17 DEF MakingOK, GrowOK
  <2>3. PICK u, contents : u = call' /\ contents = F!Contents'
    OBVIOUS
  <2>4. NamePhase(next, T0, u, contents)
    BY <1>15, <2>1, <2>2, <2>3
  <2> QED BY <1>14, <2>1, <2>3, <2>4
<1> QED BY <1>16, <1>17

-----------------------------------------------------------------------------
LEMMA SubdirNow ==
  ASSUME F!DirectoryAssumption, IInv, NEW d \in DOMAIN T0, NEW i \in UsedOf(T0[d]), T0[d][i].kind = "subdir"
  PROVE  /\ T0[d][i].first \in DOMAIN T0 /\ T0[d][i].first # 0 /\ T0[d][i].first # rootDirStart /\ T0[d][i].first \in F!Cluster
         /\ 0 \in DOMAIN T0[T0[d][i].first] /\ 1 \in DOMAIN T0[T0[d][i].first]
<1>0. program \in FatPrograms /\ Sectored(F!Contents) /\ View(F!Contents, fat) /\ T0 = F!Tree(F!Contents, fat, 0)
  BY Now
<1>2. SubdirsOf(T0[d]) \subseteq DOMAIN T0
  BY <1>0, TreeClosed
<1>3. T0[d][i].first \in DOMAIN T0
  BY <1>2 DEF SubdirsOf
<1>4. i \in DOMAIN T0[d] /\ T0[d][i] \in SlotType
  BY SizeNow DEF UsedOf
<1>5. T0[d][i].first # 0 /\ T0[d][i].first # rootDirStart /\ T0[d][i].first \in F!Cluster
  BY <1>4 DEF SlotType
<1>6. PICK x : x = T0[d][i].first
  OBVIOUS
<1>7. DOMAIN T0[x] = 0 .. SizeOf(fat, x) - 1 /\ SizeOf(fat, x) \in Nat \ {0, 1}
  BY <1>3, <1>6, SizeNow
<1>8. 0 \in DOMAIN T0[x] /\ 1 \in DOMAIN T0[x]
  BY <1>7
<1> QED BY <1>3, <1>5, <1>6, <1>8

(* Dot entries stay as they are. *)
DotsFrom(T, U, raw, raw2, moving, moving2) == \A d \in DOMAIN U : \A i \in UsedOf(U[d]) :
  U[d][i].kind = "subdir" /\ U[d][i].first \notin raw2 =>
    /\ d \in DOMAIN T /\ i \in UsedOf(T[d]) /\ T[d][i].kind = "subdir" /\ T[d][i].first = U[d][i].first
    /\ U[d][i].first \notin raw /\ (<<d, i>> \in moving => <<d, i>> \in moving2)
    /\ U[U[d][i].first][0] = T[U[d][i].first][0] /\ U[U[d][i].first][1] = T[U[d][i].first][1]
LEMMA DotsKept ==
  ASSUME NEW T, NEW U, NEW raw, NEW raw2, NEW moving, NEW moving2, Dots(T, raw, moving), DotsFrom(T, U, raw, raw2, moving, moving2)
  PROVE  Dots(U, raw2, moving2)
<1>1. SUFFICES ASSUME NEW d \in DOMAIN U, NEW i \in UsedOf(U[d]), U[d][i].kind = "subdir", U[d][i].first \notin raw2
               PROVE  /\ DotHead(U[U[d][i].first], U[d][i].first)
                      /\ <<d, i>> \in moving2 \/ U[U[d][i].first][1].first = d
  BY DEF Dots
<1>2. PICK x : x = U[d][i].first
  OBVIOUS
<1>3. /\ d \in DOMAIN T /\ i \in UsedOf(T[d]) /\ T[d][i].kind = "subdir" /\ T[d][i].first = x
      /\ x \notin raw /\ (<<d, i>> \in moving => <<d, i>> \in moving2)
      /\ U[x][0] = T[x][0] /\ U[x][1] = T[x][1]
  BY <1>1, <1>2 DEF DotsFrom
<1>4. DotHead(T[x], x) /\ (<<d, i>> \in moving \/ T[x][1].first = d)
  BY <1>3 DEF Dots
<1>5. DotHead(U[x], x)
  BY <1>3, <1>4 DEF DotHead
<1> QED BY <1>2, <1>3, <1>4, <1>5

(* A step that leaves the names as they are. *)
LfnFrom(T, U, loose, loose2) ==
  \A d \in DOMAIN U : \A i \in DOMAIN U[d] : U[d][i].kind = "lfn" /\ <<d, i>> \notin loose2 =>
    d \in DOMAIN T /\ i \in DOMAIN T[d] /\ T[d][i].kind = "lfn" /\ <<d, i>> \notin loose
LEMMA AlikeStep ==
  ASSUME F!DirectoryAssumption, NInv, IInv', NEW U, T0' = U, Alike(T0, U), at' = at, NamedTree(F!OnDevice'),
         LfnFrom(T0, U, LooseAt(pc, call), LooseAt(pc', call')),
         Dots(U, RawAt(pc', call'), MovingAt(pc', call')),
         file'.open => NameIs(U, file'), NamePhase(pc', U, call', F!Contents')
  PROVE  NInv'
<1>1. /\ NamedTree(T0) /\ Owned(T0, LooseAt(pc, call)) /\ Agree(T0, at) /\ LfnEntries \in Nat \ {0}
  BY NamesNow
<1>2. PICK loose, loose2 : loose = LooseAt(pc, call) /\ loose2 = LooseAt(pc', call')
  OBVIOUS
<1>3. Owned(U, loose2)
  BY <1>1, <1>2, OwnedKept DEF LfnFrom
<1>4. NamedTree(U) /\ Agree(U, at)
  BY <1>1, AlikeNames, AlikeAgree
<1>5. NamesP(U, file', pc', call', at', F!Contents')
  BY <1>2, <1>3, <1>4 DEF NamesP
<1>6. NamesP(T0', file', pc', call', at', F!Contents')
  BY <1>5
<1> QED BY <1>6, NextNames

LEMMA NewDirectoryNames ==
  ASSUME F!DirectoryAssumption, NInv, IInv', F!newDirectory
  PROVE  NInv'
<1>1. /\ IInv /\ program \in FatPrograms /\ call \in Calls /\ Sectored(F!Contents) /\ NamePhase(pc, T0, call, F!Contents)
      /\ (file.open => NameIs(T0, file))
  BY NamesNow, Now
<1>2. program' = program /\ fatOnDevice' = fatOnDevice /\ file' = file /\ at' = at /\ pc = "newdir"
  BY DEF F!newDirectory, F!history
<1>3. NoSets(pc, call)
  BY <1>2, BareSets DEF BareSteps
<1>4. CASE F!Ends /\ UNCHANGED <<fat, device, F!cache>>
  <2>1. VolumeNext /\ F!Contents' = F!Contents /\ device' = device /\ fat' = fat
    BY <1>1, <1>2, <1>4, SameCache DEF F!volume
  <2>2. T0' = T0
    BY <1>2, <2>1, PrimedTree, Now, <1>1
  <2>3. NamedTree(F!OnDevice')
    BY <1>2, <2>1, DeviceNames
  <2>4. NamePhase(pc', T0, call', F!Contents')
    BY <1>4, PhaseQuiet DEF F!Ends
  <2> QED BY <1>1, <1>2, <1>3, <2>2, <2>3, <2>4, SameTree DEF NoSets
<1>5. CASE \E c \in F!FreeClusters :
             /\ fat' = [fat EXCEPT ![c] = EOC]
             /\ F!Store(c, F!Zeroed)
             /\ F!Goes("newentry", [call EXCEPT !.first = c])
  <2>1. PICK c \in F!Cluster : fat[c] = 0 /\ fat' = Allocated(fat, c) /\ F!Store(c, F!Zeroed) /\ pc' = "newentry" /\ call' = WithFirst(call, c)
    BY <1>5 DEF F!FreeClusters, Allocated, F!Goes, WithFirst
  <2>2. F!Zeroed \in DirSector
    BY <1>1, TypedConstants
  <2>3. VolumeNext /\ F!Contents' = [F!Contents EXCEPT ![c] = F!Zeroed] /\ (device' = F!Contents \/ device' = device)
    BY <1>1, <2>1, <2>2, StoreIs
  <2>4. \A x \in F!Cluster : x # c => F!Contents'[x] = F!Contents[x]
    BY <1>1, <2>3 DEF Sectored
  <2>5. T0' = T0
    BY <1>1, <1>2, <2>1, <2>3, <2>4, AllocTree
  <2>6. NamedTree(F!OnDevice')
    BY <1>2, <2>3, DeviceNames
  <2>7. PICK u, contents : u = call' /\ contents = F!Contents'
    OBVIOUS
  <2>8. u.dir = call.dir /\ u.index = call.index /\ u.name = call.name /\ u.sfn = call.sfn
    BY <1>1, <2>1, <2>7 DEF WithFirst, Calls
  <2>9. MadeOK(T0, call)
    BY <1>1, <1>2 DEF NamePhase, PhaseOf
  <2>10. MadeOK(T0, u)
    BY <2>8, <2>9 DEF MadeOK, SfnFits
  <2>11. NamePhase("newentry", T0, u, contents)
    BY <2>10 DEF NamePhase, PhaseOf
  <2>12. NamePhase(pc', T0, call', F!Contents')
    BY <2>1, <2>7, <2>11
  <2> QED BY <1>1, <1>2, <1>3, <2>5, <2>6, <2>12, SameTree DEF NoSets
<1> QED BY <1>4, <1>5 DEF F!newDirectory

LEMMA AddDirClusterNames ==
  ASSUME F!DirectoryAssumption, NInv, IInv', F!addDirCluster
  PROVE  NInv'
<1>1. /\ IInv /\ program \in FatPrograms /\ call \in Calls /\ Sectored(F!Contents) /\ NamePhase(pc, T0, call, F!Contents) /\ TreeTyped(T0)
      /\ (file.open => NameIs(T0, file)) /\ NamedTree(T0) /\ LfnEntries \in Nat \ {0} /\ FileIs(T0, file)
      /\ Dots(T0, RawAt(pc, call), MovingAt(pc, call)) /\ PhaseOK(pc, T0, Inside, file, call, F!Contents, fatOnDevice, fat, m_sector)
  BY NamesNow, Now
<1>2. program' = program /\ fatOnDevice' = fatOnDevice /\ file' = file /\ at' = at /\ pc = "grow"
  BY DEF F!addDirCluster, F!history
<1>3. NoSets(pc, call)
  BY <1>2, BareSets DEF BareSteps
<1>4. CASE F!Ends /\ UNCHANGED <<device, fat, F!cache>>
  <2>1. VolumeNext /\ F!Contents' = F!Contents /\ device' = device /\ fat' = fat
    BY <1>1, <1>2, <1>4, SameCache DEF F!volume
  <2>2. T0' = T0
    BY <1>2, <2>1, PrimedTree, Now, <1>1
  <2>3. NamedTree(F!OnDevice')
    BY <1>2, <2>1, DeviceNames
  <2>4. NamePhase(pc', T0, call', F!Contents')
    BY <1>4, PhaseQuiet DEF F!Ends
  <2> QED BY <1>1, <1>2, <1>3, <2>2, <2>3, <2>4, SameTree DEF NoSets
<1>5. CASE /\ Len(F!Sectors(call.dir)) < F!MaxDirSectors
           /\ \E c \in F!FreeClusters :
                /\ fat' = [fat EXCEPT ![F!Sectors(call.dir)[Len(F!Sectors(call.dir))]] = c, ![c] = EOC]
                /\ F!Store(c, F!Zeroed)
           /\ UNCHANGED <<pc, call>>
  <2>1. PICK c, d : c \in F!Cluster /\ fat[c] = 0 /\ d = call.dir /\ fat' = GrownBy(fat, d, c) /\ F!Store(c, F!Zeroed)
    BY <1>5 DEF F!FreeClusters, F!Sectors, GrownBy, EndOf
  <2>2. MayGrow(fat, d) /\ pc' = pc /\ call' = call
    BY <1>5, <2>1 DEF MayGrow, F!Sectors
  <2>3. GrowOK(T0, Inside, file, call)
    BY <1>1, <1>2, PhaseIs
  <2>4. d \in DOMAIN T0
    BY <2>1, <2>3 DEF GrowOK, NewOK, CreateOK
  <2>5. T0' = TreeLonger(T0, d) /\ (device' = F!Contents \/ device' = device)
    BY <1>1, <1>2, <2>1, <2>2, <2>4, GrownTree
  <2>6. PICK U : U = TreeLonger(T0, d)
    OBVIOUS
  <2>7. /\ DOMAIN U = DOMAIN T0 /\ TreeTyped(U) /\ U[d] = Longer(T0[d])
        /\ \A e \in DOMAIN T0 : e # d => U[e] = T0[e]
        /\ \A e \in DOMAIN T0 : \A i \in DOMAIN T0[e] : U[e][i] = T0[e][i]
        /\ \A e \in DOMAIN T0 : \A i \in DOMAIN U[e] : i \notin DOMAIN T0[e] => U[e][i] = F!Free /\ e = d /\ i >= LenOf(T0[d])
    BY <1>1, <2>4, <2>6, TreeLongerIs
  <2>8. \A e \in DOMAIN T0 : UsedOf(U[e]) = UsedOf(T0[e])
    <3>1. UsedOf(Longer(T0[d])) = UsedOf(T0[d])
      BY <1>1, <2>4, LongerUsed DEF TreeTyped
    <3> QED BY <2>7, <3>1
  <2>9. ASSUME NEW e \in DOMAIN T0 PROVE SameNames(T0[e], U[e])
    <3>1. ASSUME NEW i \in UsedOf(U[e])
          PROVE  U[e][i].name = T0[e][i].name /\ (HasLong(T0[e], i) => \A k \in 1 .. LfnEntries : U[e][i - k] = T0[e][i - k])
      <4>1. i \in DOMAIN T0[e] /\ i \in UsedOf(T0[e])
        BY <2>8, <3>1 DEF UsedOf
      <4>2. U[e][i] = T0[e][i]
        BY <2>7, <4>1
      <4>3. ASSUME HasLong(T0[e], i), NEW k \in 1 .. LfnEntries PROVE U[e][i - k] = T0[e][i - k]
        <5>1. i >= LfnEntries
          BY <1>1, <4>1, <4>3, LongBefore DEF NamedTree
        <5>2. Indexed(T0[e]) /\ LenOf(T0[e]) \in Nat /\ DOMAIN T0[e] = 0 .. LenOf(T0[e]) - 1
          BY <1>1 DEF TreeTyped, Indexed
        <5>3. i - k \in DOMAIN T0[e]
          BY <1>1, <4>1, <5>1, <5>2
        <5> QED BY <2>7, <5>3
      <4> QED BY <4>2, <4>3
    <3> QED BY <2>8, <3>1 DEF SameNames
  <2>10. Alike(T0, U)
    BY <2>7, <2>8, <2>9 DEF Alike, AlikeIn
  <2>11. LfnFrom(T0, U, LooseAt(pc, call), LooseAt(pc', call'))
    <3>1. F!Free.kind = "free"
      BY DEF F!Free, F!Slot
    <3>2. LooseAt(pc', call') = LooseAt(pc, call)
      BY <2>2
    <3> QED BY <2>7, <3>1, <3>2 DEF LfnFrom
  <2>12. DotsFrom(T0, U, {}, {}, {}, {})
    <3>1. SUFFICES ASSUME NEW e \in DOMAIN U, NEW i \in UsedOf(U[e]), U[e][i].kind = "subdir"
                   PROVE  /\ e \in DOMAIN T0 /\ i \in UsedOf(T0[e]) /\ T0[e][i].kind = "subdir" /\ T0[e][i].first = U[e][i].first
                          /\ U[U[e][i].first][0] = T0[U[e][i].first][0] /\ U[U[e][i].first][1] = T0[U[e][i].first][1]
      BY DEF DotsFrom
    <3>2. e \in DOMAIN T0 /\ i \in UsedOf(T0[e]) /\ i \in DOMAIN T0[e]
      BY <2>7, <2>8, <3>1 DEF UsedOf
    <3>3. U[e][i] = T0[e][i]
      BY <2>7, <3>2
    <3>4. PICK x : x = T0[e][i].first
      OBVIOUS
    <3>5. x \in DOMAIN T0 /\ 0 \in DOMAIN T0[x] /\ 1 \in DOMAIN T0[x]
      BY <1>1, <3>1, <3>2, <3>3, <3>4, SubdirNow
    <3>6. U[x][0] = T0[x][0] /\ U[x][1] = T0[x][1]
      BY <2>7, <3>5
    <3> QED BY <3>1, <3>2, <3>3, <3>4, <3>6
  <2>13. Dots(U, RawAt(pc', call'), MovingAt(pc', call'))
    <3>1. Dots(U, {}, {})
      BY <1>1, <1>3, <2>12, DotsKept DEF NoSets
    <3> QED BY <1>3, <2>2, <3>1 DEF NoSets
  <2>14. file'.open => NameIs(U, file')
    <3>1. SUFFICES ASSUME file.open PROVE NameIs(U, file)
      BY <1>2
    <3>2. file.dir \in DOMAIN T0 /\ file.index \in UsedOf(T0[file.dir])
      BY <1>1, <3>1 DEF FileIs, Object, EntryIs, F!Closed, UsedOf, InUse, F!isFatFileOrSubdir
    <3> QED BY <1>1, <2>10, <3>1, <3>2, AlikeFile
  <2>15. NamePhase(pc', U, call', F!Contents')
    <3>1. MakingOK(T0, "grow", call) /\ Written("grow", call) = 0
      BY <1>1, <1>2 DEF NamePhase, Written
    <3>2. \A i \in UsedOf(U[d]) : i \in UsedOf(T0[d]) /\ U[d][i].name = T0[d][i].name /\ FullName(U[d], i) = FullName(T0[d], i)
      BY <1>1, <2>4, <2>7, <2>8, <2>10, AlikeNames
    <3>3. SfnNew(T0[d], call.sfn) => SfnNew(U[d], call.sfn)
      BY <3>2 DEF SfnNew
    <3>4. NameNew(T0[d], call.name) => NameNew(U[d], call.name)
      BY <3>2 DEF NameNew
    <3>5. MakingOK(U, "grow", call)
      BY <2>1, <3>1, <3>3, <3>4 DEF MakingOK
    <3>6. PICK contents : contents = F!Contents'
      OBVIOUS
    <3>7. NamePhase("grow", U, call, contents)
      BY <3>5 DEF NamePhase, PhaseOf
    <3> QED BY <1>2, <2>2, <3>6, <3>7
  <2>16. NamedTree(F!OnDevice')
    BY <1>2, <2>5, DeviceNames
  <2> QED BY <1>2, <2>5, <2>6, <2>10, <2>11, <2>13, <2>14, <2>15, <2>16, AlikeStep
<1> QED BY <1>4, <1>5 DEF F!addDirCluster

-----------------------------------------------------------------------------
(* One entry of a directory is changed. *)
LEMMA NotInLong ==
  ASSUME NEW s, Named(s), Indexed(s), NEW i \in DOMAIN s, s[i].kind # "lfn", LfnEntries \in Nat \ {0}
  PROVE  ~InLong(s, i)
<1>1. SUFFICES ASSUME NEW j \in UsedOf(s), HasLong(s, j), j - LfnEntries <= i, i < j PROVE FALSE
  BY DEF InLong
<1>2. LenOf(s) \in Nat /\ DOMAIN s = 0 .. LenOf(s) - 1 /\ j \in DOMAIN s
  BY DEF Indexed, UsedOf
<1>3. i \in Nat /\ j \in Nat
  BY <1>2
<1>4. j - i \in 1 .. LfnEntries /\ j - (j - i) = i
  BY <1>1, <1>3
<1>5. PICK k \in 1 .. LfnEntries : j - k = i
  BY <1>4
<1>6. s[j - k].kind = "lfn"
  BY <1>1, LongBefore
<1> QED BY <1>5, <1>6

WithOthers(s, u, i) ==
  \A j \in DOMAIN s : j # i =>
    /\ j \in UsedOf(u) <=> j \in UsedOf(s)
    /\ j \in UsedOf(s) => /\ u[j] = s[j] /\ FullName(u, j) = FullName(s, j) /\ (HasLong(u, j) <=> HasLong(s, j))
                          /\ (HasLong(s, j) => LongAt(u, j) /\ \A k \in 1 .. LfnEntries : u[j - k] = s[j - k])
LEMMA WithNames ==
  ASSUME NEW s, Named(s), Indexed(s), NEW i \in DOMAIN s, ~InLong(s, i), LfnEntries \in Nat \ {0}, NEW slot, NEW u, u = With(s, i, slot)
  PROVE  WithOthers(s, u, i) /\ DOMAIN u = DOMAIN s /\ u[i] = slot
<1>1. DOMAIN u = DOMAIN s /\ \A j \in DOMAIN s : u[j] = IF j = i THEN slot ELSE s[j]
  BY WithIs
<1>2. LenOf(s) \in Nat /\ DOMAIN s = 0 .. LenOf(s) - 1
  BY DEF Indexed
<1>3. ASSUME NEW j \in DOMAIN s, j # i
      PROVE  /\ j \in UsedOf(u) <=> j \in UsedOf(s)
             /\ j \in UsedOf(s) => /\ u[j] = s[j] /\ FullName(u, j) = FullName(s, j) /\ (HasLong(u, j) <=> HasLong(s, j))
                                   /\ (HasLong(s, j) => LongAt(u, j) /\ \A k \in 1 .. LfnEntries : u[j - k] = s[j - k])
  <2>1. u[j] = s[j]
    BY <1>1, <1>3
  <2>2. j \in UsedOf(u) <=> j \in UsedOf(s)
    BY <1>1, <1>3, <2>1 DEF UsedOf, InUse
  <2>3. HasLong(u, j) <=> HasLong(s, j)
    BY <2>1 DEF HasLong
  <2>4. CASE j \in UsedOf(s) /\ HasLong(s, j)
    <3>1. ASSUME NEW k \in 1 .. LfnEntries PROVE u[j - k] = s[j - k]
      <4>1. j >= LfnEntries
        BY <2>4, <3>1, LongBefore
      <4>2. j \in Nat /\ k \in Nat /\ k >= 1 /\ k <= LfnEntries
        BY <1>2, <1>3, <3>1
      <4>3. j - k \in DOMAIN s
        BY <1>2, <1>3, <4>1, <4>2
      <4>4. j - LfnEntries <= j - k /\ j - k < j
        BY <4>2
      <4>5. j - k # i
        BY <2>4, <4>4 DEF InLong
      <4> QED BY <1>1, <4>3, <4>5
    <3>2. 1 \in 1 .. LfnEntries
      OBVIOUS
    <3>3. u[j - 1] = s[j - 1]
      BY <3>1, <3>2
    <3>4. FullName(u, j) = FullName(s, j)
      BY <2>1, <2>3, <3>3 DEF FullName
    <3>5. LongAt(s, j)
      BY <2>4 DEF Named
    <3>6. LongAt(u, j)
      BY <2>1, <3>1, <3>3, <3>5 DEF LongAt
    <3> QED BY <2>1, <2>2, <2>3, <3>1, <3>4, <3>6
  <2>5. CASE j \in UsedOf(s) /\ ~HasLong(s, j)
    <3>1. FullName(u, j) = FullName(s, j)
      BY <2>1, <2>3, <2>5 DEF FullName
    <3> QED BY <2>1, <2>2, <2>3, <2>5, <3>1
  <2>6. CASE j \notin UsedOf(s)
    BY <2>2, <2>6
  <2> QED BY <2>4, <2>5, <2>6
<1>4. WithOthers(s, u, i)
  BY <1>3 DEF WithOthers
<1> QED BY <1>1, <1>4

SlotAlike(s, i, slot) ==
  \/ ~F!isFatFileOrSubdir(s[i]) /\ ~F!isFatFileOrSubdir(slot)
  \/ F!isFatFileOrSubdir(s[i]) /\ F!isFatFileOrSubdir(slot) /\ slot.name = s[i].name
LEMMA WithAlike ==
  ASSUME NEW s, Named(s), Indexed(s), NEW i \in DOMAIN s, ~InLong(s, i), LfnEntries \in Nat \ {0}, NEW slot, SlotAlike(s, i, slot),
         NEW u, u = With(s, i, slot)
  PROVE  UsedOf(u) = UsedOf(s) /\ SameNames(s, u)
<1>1. WithOthers(s, u, i) /\ DOMAIN u = DOMAIN s /\ u[i] = slot
  BY WithNames
<1>2. i \in UsedOf(u) <=> i \in UsedOf(s)
  BY <1>1 DEF SlotAlike, UsedOf, InUse
<1>3. UsedOf(u) \subseteq DOMAIN s /\ UsedOf(s) \subseteq DOMAIN s
  BY <1>1 DEF UsedOf
<1>4. UsedOf(u) = UsedOf(s)
  BY <1>1, <1>2, <1>3 DEF WithOthers
<1>5. ASSUME NEW j \in UsedOf(u) PROVE u[j].name = s[j].name /\ (HasLong(s, j) => \A k \in 1 .. LfnEntries : u[j - k] = s[j - k])
  <2>1. CASE j # i
    BY <1>1, <1>3, <1>4, <1>5, <2>1 DEF WithOthers
  <2>2. CASE j = i
    <3>1. F!isFatFileOrSubdir(s[i]) /\ slot.name = s[i].name
      BY <1>4, <1>5, <2>2 DEF SlotAlike, UsedOf, InUse
    <3>2. ASSUME HasLong(s, i), NEW k \in 1 .. LfnEntries PROVE u[i - k] = s[i - k]
      <4>1. i \in UsedOf(s) /\ LenOf(s) \in Nat /\ DOMAIN s = 0 .. LenOf(s) - 1
        BY <1>4, <1>5, <2>2 DEF Indexed
      <4>2. i >= LfnEntries
        BY <3>2, <4>1, LongBefore
      <4>3. i \in Nat /\ k \in Nat /\ k >= 1 /\ k <= LfnEntries
        BY <4>1, <3>2
      <4>4. i - k \in DOMAIN s /\ i - k # i
        BY <4>1, <4>2, <4>3
      <4> QED BY <4>4, WithIs
    <3> QED BY <1>1, <2>2, <3>1, <3>2
  <2> QED BY <2>1, <2>2
<1> QED BY <1>4, <1>5 DEF SameNames

LEMMA TreeAlike ==
  ASSUME NEW T, NamedTree(T), NEW d \in DOMAIN T, Indexed(T[d]), NEW i \in DOMAIN T[d], ~InLong(T[d], i), LfnEntries \in Nat \ {0},
         NEW slot, SlotAlike(T[d], i, slot), NEW U, U = TreeWith(T, d, i, slot)
  PROVE  Alike(T, U)
<1>1. DOMAIN U = DOMAIN T /\ U[d] = With(T[d], i, slot) /\ \A e \in DOMAIN T : e # d => U[e] = T[e]
  BY TreeWithIs
<1>2. Named(T[d])
  BY DEF NamedTree
<1>3. PICK s, u : s = T[d] /\ u = U[d]
  OBVIOUS
<1>4. UsedOf(u) = UsedOf(s) /\ SameNames(s, u)
  BY <1>1, <1>2, <1>3, WithAlike
<1>5. \A e \in DOMAIN T : e # d => UsedOf(U[e]) = UsedOf(T[e]) /\ SameNames(T[e], U[e])
  BY <1>1 DEF SameNames
<1>6. \A e \in DOMAIN T : UsedOf(U[e]) = UsedOf(T[e]) /\ SameNames(T[e], U[e])
  BY <1>3, <1>4, <1>5
<1> QED BY <1>1, <1>6 DEF Alike, AlikeIn

SubdirsThere(T) == \A e \in DOMAIN T : \A j \in UsedOf(T[e]) : T[e][j].kind = "subdir" =>
  T[e][j].first \in DOMAIN T /\ 0 \in DOMAIN T[T[e][j].first] /\ 1 \in DOMAIN T[T[e][j].first]
LEMMA SubdirsNow ==
  ASSUME F!DirectoryAssumption, IInv
  PROVE  SubdirsThere(T0)
BY SubdirNow DEF SubdirsThere

LEMMA DotsWith ==
  ASSUME NEW T, NEW d \in DOMAIN T, Indexed(T[d]), NEW i \in DOMAIN T[d], NEW slot, T[d][i].kind \notin {"dot", "dotdot"}, slot.kind # "subdir",
         NEW U, U = TreeWith(T, d, i, slot), NEW raw, NEW raw2, raw \subseteq raw2, NEW moving, NEW moving2,
         \A x \in moving : x = <<d, i>> \/ x \in moving2, Dots(T, raw, moving), SubdirsThere(T)
  PROVE  Dots(U, raw2, moving2)
<1>1. /\ DOMAIN U = DOMAIN T /\ (\A e \in DOMAIN T : DOMAIN U[e] = DOMAIN T[e])
      /\ \A e \in DOMAIN T : \A j \in DOMAIN T[e] : U[e][j] = IF e = d /\ j = i THEN slot ELSE T[e][j]
  BY TreeWithIs
<1>2. SUFFICES ASSUME NEW e \in DOMAIN U, NEW j \in UsedOf(U[e]), U[e][j].kind = "subdir", U[e][j].first \notin raw2
               PROVE  /\ e \in DOMAIN T /\ j \in UsedOf(T[e]) /\ T[e][j].kind = "subdir" /\ T[e][j].first = U[e][j].first
                      /\ U[e][j].first \notin raw /\ (<<e, j>> \in moving => <<e, j>> \in moving2)
                      /\ U[U[e][j].first][0] = T[U[e][j].first][0] /\ U[U[e][j].first][1] = T[U[e][j].first][1]
  BY DotsKept DEF DotsFrom
<1>3. e \in DOMAIN T /\ j \in DOMAIN T[e]
  BY <1>1, <1>2 DEF UsedOf
<1>4. ~(e = d /\ j = i)
  BY <1>1, <1>2, <1>3
<1>5. U[e][j] = T[e][j]
  BY <1>1, <1>3, <1>4
<1>6. j \in UsedOf(T[e])
  BY <1>2, <1>3, <1>5 DEF UsedOf, InUse
<1>7. PICK x : x = T[e][j].first
  OBVIOUS
<1>8. x \in DOMAIN T /\ 0 \in DOMAIN T[x] /\ 1 \in DOMAIN T[x] /\ x \notin raw
  BY <1>2, <1>3, <1>5, <1>6, <1>7 DEF SubdirsThere
<1>9. T[x][0].kind = "dot" /\ T[x][1].kind = "dotdot"
  <2>1. T[e][j].kind = "subdir" /\ T[e][j].first \notin raw
    BY <1>2, <1>5, <1>7, <1>8
  <2>2. DotHead(T[T[e][j].first], T[e][j].first)
    BY <1>3, <1>6, <2>1 DEF Dots
  <2>3. DotHead(T[x], x)
    BY <1>7, <2>2
  <2> QED BY <2>3 DEF DotHead
<1>10. U[x][0] = T[x][0] /\ U[x][1] = T[x][1]
  BY <1>1, <1>8, <1>9
<1>11. <<e, j>> # <<d, i>>
  BY <1>4
<1> QED BY <1>2, <1>3, <1>5, <1>6, <1>7, <1>8, <1>10, <1>11

LEMMA LfnWith ==
  ASSUME NEW T, NEW d \in DOMAIN T, Indexed(T[d]), NEW i \in DOMAIN T[d], NEW slot, NEW U, U = TreeWith(T, d, i, slot),
         NEW loose, NEW loose2, slot.kind = "lfn" => <<d, i>> \in loose2, \A x \in loose : x = <<d, i>> \/ x \in loose2
  PROVE  LfnFrom(T, U, loose, loose2)
<1>1. /\ DOMAIN U = DOMAIN T /\ (\A e \in DOMAIN T : DOMAIN U[e] = DOMAIN T[e])
      /\ \A e \in DOMAIN T : \A j \in DOMAIN T[e] : U[e][j] = IF e = d /\ j = i THEN slot ELSE T[e][j]
  BY TreeWithIs
<1>2. SUFFICES ASSUME NEW e \in DOMAIN U, NEW j \in DOMAIN U[e], U[e][j].kind = "lfn", <<e, j>> \notin loose2
               PROVE  e \in DOMAIN T /\ j \in DOMAIN T[e] /\ T[e][j].kind = "lfn" /\ <<e, j>> \notin loose
  BY DEF LfnFrom
<1>3. ~(e = d /\ j = i)
  BY <1>1, <1>2
<1>4. <<e, j>> # <<d, i>>
  BY <1>3
<1> QED BY <1>1, <1>2, <1>3, <1>4

-----------------------------------------------------------------------------
LEMMA FilePlace ==
  ASSUME F!DirectoryAssumption, IInv, file.open
  PROVE  /\ file.dir \in DOMAIN T0 /\ file.index \in DOMAIN T0[file.dir] /\ file.index \in UsedOf(T0[file.dir]) /\ Object(T0, file)
         /\ T0[file.dir][file.index].kind = (IF file.isDir THEN "subdir" ELSE "file")
<1>1. Object(T0, file)
  BY Now DEF FileIs, F!Closed
<1> QED BY <1>1 DEF Object, EntryIs, UsedOf, InUse, F!isFatFileOrSubdir

LEMMA NewAlike ==
  ASSUME NEW T, NEW U, Alike(T, U), NamedTree(T), LfnEntries \in Nat \ {0}, NEW d \in DOMAIN U
  PROVE  /\ \A x : d \in DOMAIN T /\ SfnNew(T[d], x) => SfnNew(U[d], x)
         /\ \A x : d \in DOMAIN T /\ NameNew(T[d], x) => NameNew(U[d], x)
<1>1. \A i \in UsedOf(U[d]) : d \in DOMAIN T /\ i \in UsedOf(T[d]) /\ FullName(U[d], i) = FullName(T[d], i) /\ U[d][i].name = T[d][i].name
  BY AlikeNames
<1> QED BY <1>1 DEF SfnNew, NameNew

LEMMA PairSets ==
  ASSUME NEW step, NEW c, step \in {"lfn", "sfn"}
  PROVE  RawAt(step, c) = {} /\ MovingAt(step, c) = {} /\ LooseAt(step, c) = Building(step, c) /\ PhaseOf(step, c) = step
BY DEF RawAt, MovingAt, LooseAt, PhaseOf

NextOrder(c) == [c EXCEPT !.order = @ + 1]
LEMMA NextOrderIs ==
  ASSUME NEW c \in Calls, NEW u, u = NextOrder(c)
  PROVE  /\ u.op = c.op /\ u.dir = c.dir /\ u.name = c.name /\ u.sfn = c.sfn /\ u.alias = c.alias /\ u.index = c.index
         /\ u.order = c.order + 1 /\ u.first = c.first /\ u.old = c.old /\ u.saved = c.saved /\ u.then = c.then
BY DEF NextOrder, Calls

LEMMA CreateLfnNames ==
  ASSUME F!DirectoryAssumption, NInv, IInv', F!createLFN
  PROVE  NInv'
<1>1. /\ IInv /\ program \in FatPrograms /\ call \in Calls /\ NamePhase(pc, T0, call, F!Contents) /\ TreeTyped(T0)
      /\ (file.open => NameIs(T0, file)) /\ NamedTree(T0) /\ LfnEntries \in Nat \ {0}
      /\ Dots(T0, RawAt(pc, call), MovingAt(pc, call)) /\ PhaseOK(pc, T0, Inside, file, call, F!Contents, fatOnDevice, fat, m_sector)
  BY NamesNow, Now
<1>2. PICK d, i, slot, pc2, call2 :
        /\ d = call.dir /\ i = call.index - call.order /\ slot = F!LongEntry(call.name, call.order, call.sfn)
        /\ pc2 = (IF call.order = LfnEntries THEN "sfn" ELSE "lfn")
        /\ call2 = (IF call.order = LfnEntries THEN call ELSE NextOrder(call))
  OBVIOUS
<1>3. /\ program' = program /\ fat' = fat /\ fatOnDevice' = fatOnDevice /\ file' = file /\ at' = at
      /\ pc = "lfn" /\ F!StoreEntry(d, i, slot) /\ pc' = pc2 /\ call' = call2
  BY <1>2 DEF F!createLFN, F!history, F!Goes, NextOrder
<1>4. /\ CreateOK(T0, Inside, file, call) /\ Run(T0[d], call, call.order - 1) /\ call.index \in DOMAIN T0[d]
      /\ F!Lost(call.name) /\ call.sfn \in F!LongSfns /\ call.order \in 1 .. LfnEntries
  BY <1>1, <1>2, <1>3, PhaseIs DEF LfnOK, NewOK
<1>5. d \in DOMAIN T0 /\ Indexed(T0[d]) /\ NoneBehind(T0[d]) /\ call.index \in Nat
  BY <1>1, <1>2, <1>4 DEF CreateOK, TreeTyped, Calls
<1>6. slot \in SlotType /\ slot.kind = "lfn"
  BY <1>1, <1>2, <1>4, LongTyped DEF F!LongEntry, F!Slot
<1>7. i \in DOMAIN T0[d] /\ T0[d][i].kind \in {"free", "deleted"}
  BY <1>1, <1>2, <1>4, <1>5, <1>6, RunLonger
<1>8. NoneBehind(With(T0[d], i, slot))
  BY <1>5, <1>6, <1>7, NoneBehindWith
<1>9. /\ T0[d][i].kind # "subdir" /\ slot.kind # "subdir" /\ ~F!isFatFileOrSubdir(T0[d][i]) /\ ~F!isFatFileOrSubdir(slot)
      /\ T0[d][i].kind \notin {"dot", "dotdot"} /\ T0[d][i].kind # "lfn"
  BY <1>6, <1>7 DEF F!isFatFileOrSubdir
<1>10. PICK U : U = TreeWith(T0, d, i, slot)
  OBVIOUS
<1>11. T0' = U
  BY <1>1, <1>3, <1>5, <1>6, <1>7, <1>8, <1>9, <1>10, TreeStored
<1>12. NamedTree(F!OnDevice')
  <2>1. device' = F!Contents \/ device' = device
    BY <1>1, <1>3, <1>5, <1>6, <1>7, EntryStored
  <2> QED BY <1>3, <2>1, DeviceNames
<1>13. Alike(T0, U)
  <2>1. ~InLong(T0[d], i)
    BY <1>1, <1>5, <1>7, <1>9, NotInLong DEF NamedTree
  <2> QED BY <1>1, <1>5, <1>7, <1>9, <1>10, <2>1, TreeAlike DEF SlotAlike
<1>14. Written(pc, call) = call.order - 1 /\ Written(pc2, call2) = call.order /\ call2.dir = call.dir /\ call2.index = call.index
       /\ call2.name = call.name /\ call2.sfn = call.sfn /\ call2.alias = call.alias
  <2>1. CASE call.order = LfnEntries
    BY <1>2, <1>3, <1>4, <2>1 DEF Written
  <2>2. CASE call.order # LfnEntries
    <3>1. pc2 = "lfn" /\ call2 = NextOrder(call)
      BY <1>2, <2>2
    <3>2. call2.dir = call.dir /\ call2.index = call.index /\ call2.name = call.name /\ call2.sfn = call.sfn /\ call2.order = call.order + 1
          /\ call2.alias = call.alias
      BY <1>1, <3>1, NextOrderIs
    <3> QED BY <1>3, <1>4, <3>1, <3>2 DEF Written
  <2> QED BY <2>1, <2>2
<1>15. PICK loose, loose2, contents : loose = LooseAt(pc, call) /\ loose2 = LooseAt(pc2, call2) /\ contents = F!Contents'
  OBVIOUS
<1>16. pc2 \in {"lfn", "sfn"}
  BY <1>2
<1>17. LfnFrom(T0, U, loose, loose2)
  <2>1. loose = {<<d, call.index - k>> : k \in 1 .. call.order - 1} /\ loose2 = {<<d, call.index - k>> : k \in 1 .. call.order}
    BY <1>2, <1>3, <1>14, <1>15, <1>16, PairSets DEF Building
  <2>2. <<d, i>> \in loose2
    BY <1>2, <1>4, <2>1
  <2>3. loose \subseteq loose2
    BY <1>1, <1>4, <2>1
  <2> QED BY <1>5, <1>7, <1>10, <2>2, <2>3, LfnWith
<1>18. Dots(U, {}, {})
  <2>1. Dots(T0, {}, {})
    BY <1>1, <1>3, PairSets
  <2>2. SubdirsThere(T0)
    BY <1>1, SubdirsNow
  <2> QED BY <1>5, <1>7, <1>9, <1>10, <2>1, <2>2, DotsWith
<1>19. Dots(U, RawAt(pc', call'), MovingAt(pc', call'))
  BY <1>3, <1>16, <1>18, PairSets
<1>20. file'.open => NameIs(U, file')
  BY <1>1, <1>3, <1>13, FilePlace, AlikeFile
<1>21. NamePhase(pc2, U, call2, contents)
  <2>1. MakingOK(T0, "lfn", call)
    BY <1>1, <1>3 DEF NamePhase
  <2>2. SfnFits(call2) /\ SfnNew(T0[d], call.sfn) /\ NameNew(T0[d], call.name)
    BY <1>2, <1>14, <2>1 DEF MakingOK, SfnFits
  <2>3. DOMAIN U = DOMAIN T0 /\ \A j \in DOMAIN T0[d] : U[d][j] = IF j = i THEN slot ELSE T0[d][j]
    BY <1>5, <1>7, <1>10, TreeWithIs
  <2>4. SfnNew(U[d], call.sfn) /\ NameNew(U[d], call.name)
    BY <1>1, <1>5, <1>13, <2>2, <2>3, NewAlike
  <2>5. ASSUME NEW k \in 1 .. call.order PROVE U[d][call.index - k] = F!LongEntry(call.name, k, call.sfn)
    <3>1. CASE k = call.order
      BY <1>2, <1>7, <2>3, <3>1
    <3>2. CASE k # call.order
      <4>1. k \in 1 .. call.order - 1
        BY <1>4, <3>2
      <4>2. T0[d][call.index - k] = F!LongEntry(call.name, k, call.sfn)
        BY <1>2, <1>3, <1>14, <2>1, <4>1 DEF MakingOK
      <4>3. call.index - k # i
        BY <1>2, <1>4, <1>5, <3>2
      <4>4. call.index >= LfnEntries
        BY <1>1, <1>4 DEF Run, F!freeNeed
      <4>5. call.index - k \in DOMAIN T0[d]
        <5>1. LenOf(T0[d]) \in Nat /\ DOMAIN T0[d] = 0 .. LenOf(T0[d]) - 1
          BY <1>5 DEF Indexed
        <5> QED BY <1>1, <1>4, <1>5, <4>1, <4>4, <5>1
      <4> QED BY <2>3, <4>2, <4>3, <4>5
    <3> QED BY <3>1, <3>2
  <2>6. MakingOK(U, pc2, call2)
    BY <1>2, <1>14, <2>2, <2>4, <2>5 DEF MakingOK
  <2> QED BY <1>16, <2>6, PairSets DEF NamePhase
<1>22. NamePhase(pc', U, call', F!Contents') /\ LfnFrom(T0, U, LooseAt(pc, call), LooseAt(pc', call'))
  BY <1>3, <1>15, <1>17, <1>21
<1> QED BY <1>3, <1>11, <1>12, <1>13, <1>19, <1>20, <1>22, AlikeStep

LEMMA SyncEntryNames ==
  ASSUME F!DirectoryAssumption, NInv, IInv', F!syncEntry
  PROVE  NInv'
<1>1. /\ IInv /\ program \in FatPrograms /\ call \in Calls /\ file \in Objects /\ NamePhase(pc, T0, call, F!Contents) /\ TreeTyped(T0)
      /\ (file.open => NameIs(T0, file)) /\ NamedTree(T0) /\ LfnEntries \in Nat \ {0} /\ FileIs(T0, file)
      /\ Dots(T0, RawAt(pc, call), MovingAt(pc, call)) /\ PhaseOK(pc, T0, Inside, file, call, F!Contents, fatOnDevice, fat, m_sector)
  BY NamesNow, Now
<1>2. PICK d, i, slot : d = file.dir /\ i = file.index /\ slot = [F!Entry(d, i) EXCEPT !.first = file.first]
  OBVIOUS
<1>3. /\ program' = program /\ fatOnDevice' = fatOnDevice /\ fat' = fat /\ call' = call /\ at' = at
      /\ pc = "entry" /\ F!StoreEntry(d, i, slot) /\ file' = [file EXCEPT !.dirty = FALSE] /\ pc' = "data"
  BY <1>2 DEF F!syncEntry, F!history
<1>4. SyncOK(T0, Inside, file, call) /\ file.dirty /\ file.open
  BY <1>1, <1>3, PhaseIs DEF SyncOK
<1>5. Object(T0, file) /\ ~file.isDir
  BY <1>1, <1>4 DEF FileIs, F!Closed, Object
<1>6. d \in DOMAIN T0 /\ i \in DOMAIN T0[d] /\ T0[d][i].kind = "file" /\ Indexed(T0[d]) /\ NoneBehind(T0[d])
  BY <1>1, <1>2, <1>5 DEF Object, EntryIs, TreeTyped
<1>7. slot = [T0[d][i] EXCEPT !.first = file.first] /\ T0[d][i] \in SlotType
  BY <1>1, <1>2, <1>6, SizeNow
<1>8. slot \in SlotType /\ slot.kind = "file" /\ slot.name = T0[d][i].name
  BY <1>1, <1>6, <1>7 DEF SlotType, Objects, F!isFatFileOrSubdir
<1>9. NoneBehind(With(T0[d], i, slot))
  <2>1. ClearBefore(T0[d], i)
    BY <1>6, UsedClear
  <2> QED BY <1>6, <1>8, <2>1, NoneBehindWith
<1>10. PICK U : U = TreeWith(T0, d, i, slot)
  OBVIOUS
<1>11. T0' = U
  BY <1>1, <1>3, <1>6, <1>8, <1>9, <1>10, TreeStored
<1>12. NamedTree(F!OnDevice')
  <2>1. device' = F!Contents \/ device' = device
    BY <1>1, <1>3, <1>6, <1>8, EntryStored
  <2> QED BY <1>3, <2>1, DeviceNames
<1>13. Alike(T0, U)
  <2>1. ~InLong(T0[d], i)
    BY <1>1, <1>6, NotInLong DEF NamedTree
  <2>2. SlotAlike(T0[d], i, slot)
    BY <1>6, <1>8 DEF SlotAlike, F!isFatFileOrSubdir
  <2> QED BY <1>1, <1>6, <1>10, <2>1, <2>2, TreeAlike
<1>14. NoSets(pc, call)
  BY <1>3, BareSets DEF BareSteps
<1>15. call.then \in {"idle", "search"}
  BY <1>4 DEF SyncOK
<1>16. NoSets(pc', call')
  BY <1>3, <1>15, SyncSets DEF BareThens
<1>17. LfnFrom(T0, U, LooseAt(pc, call), LooseAt(pc', call'))
  BY <1>6, <1>8, <1>10, <1>14, <1>16, LfnWith DEF NoSets
<1>18. Dots(U, RawAt(pc', call'), MovingAt(pc', call'))
  <2>1. Dots(T0, {}, {})
    BY <1>1, <1>14 DEF NoSets
  <2>2. SubdirsThere(T0)
    BY <1>1, SubdirsNow
  <2>3. Dots(U, {}, {})
    BY <1>6, <1>8, <1>10, <2>1, <2>2, DotsWith
  <2> QED BY <1>16, <2>3 DEF NoSets
<1>19. file'.open => NameIs(U, file')
  <2>1. PICK o : o = file'
    OBVIOUS
  <2>2. o.dir = file.dir /\ o.index = file.index /\ o.name = file.name /\ o.lfnOrd = file.lfnOrd
    BY <1>1, <1>3, <2>1 DEF Objects
  <2>3. NameIs(U, file)
    BY <1>1, <1>4, <1>13, FilePlace, AlikeFile
  <2>4. NameIs(U, o)
    BY <2>2, <2>3 DEF NameIs
  <2> QED BY <2>1, <2>4
<1>20. NamePhase(pc', U, call', F!Contents')
  BY <1>3, <1>15, PhaseQuiet
<1> QED BY <1>3, <1>11, <1>12, <1>13, <1>17, <1>18, <1>19, <1>20, AlikeStep

LEMMA WriteNames ==
  ASSUME F!DirectoryAssumption, NInv, IInv', F!write
  PROVE  NInv'
<1>1. /\ IInv /\ program \in FatPrograms /\ call \in Calls /\ file \in Objects /\ Sectored(device) /\ NamedTree(F!OnDevice)
      /\ (file.open => NameIs(T0, file)) /\ FileIs(T0, file) /\ DeviceP(device, fatOnDevice, T0, pc, call)
  BY NamesNow, Now DEF NInv
<1>2. PICK c \in F!Cluster :
        /\ pc = "idle" /\ file.write /\ fat[c] = 0 /\ fat' = Allocated(fat, c)
        /\ device' = Overwritten(device, c) /\ file' = Taken(file, c)
        /\ (IF m_sector = c THEN F!Clean ELSE UNCHANGED F!cache)
        /\ program' = program /\ fatOnDevice' = fatOnDevice /\ pc' = pc /\ call' = call /\ at' = at
  BY DEF F!write, F!FreeClusters, Allocated, Overwritten, Taken, F!history
<1>3. /\ VolumeNext /\ F!Contents'[c] = F!Data
      /\ \A x \in F!Cluster : x # c => F!Contents'[x] = F!Contents[x] /\ device'[x] = device[x]
  BY <1>1, <1>2, WrittenAround
<1>4. T0' = T0
  BY <1>1, <1>2, <1>3, AllocTree
<1>5. NamedTree(F!OnDevice')
  <2>1. Below(device, fatOnDevice, 0) \subseteq DOMAIN T0
    BY <1>1, <1>2, IdleNow DEF DeviceP
  <2>2. ASSUME NEW d \in Below(device, fatOnDevice, 0) PROVE F!Slots(device', fatOnDevice, d) = F!Slots(device, fatOnDevice, d)
    <3>1. d \in F!Cluster \cup {0} /\ c \notin F!ChainSet(fatOnDevice, d)
      BY <1>1, <1>2, <2>1, FreeOutside
    <3>2. F!ChainSet(fatOnDevice, d) \subseteq F!Cluster
      BY <1>1, <3>1, ChainSetIs, Now
    <3>3. AgreeOn(F!ChainSet(fatOnDevice, d), device, device')
      BY <1>3, <3>1, <3>2 DEF AgreeOn
    <3> QED BY <1>1, <3>1, <3>3, SlotsAgree
  <2>3. Sectored(device') /\ 0 \in F!Cluster \cup {0}
    BY <1>3 DEF VolumeNext
  <2>4. F!Tree(device', fatOnDevice, 0) = F!Tree(device, fatOnDevice, 0)
    BY <1>1, <2>2, <2>3, TreeSame
  <2>5. F!OnDevice' = F!Tree(device', fatOnDevice', 0)
    BY <1>2, PrimedDeviceTree
  <2>6. F!OnDevice' = F!OnDevice
    BY <1>2, <2>4, <2>5 DEF F!OnDevice
  <2> QED BY <1>1, <2>6
<1>6. file'.open => NameIs(T0, file')
  <2>1. Object(T0, file) /\ file.open
    BY <1>1, <1>2 DEF FileIs, F!Closed, Object, EntryIs
  <2>2. PICK o : o = file'
    OBVIOUS
  <2>3. o.dir = file.dir /\ o.index = file.index /\ o.name = file.name /\ o.lfnOrd = file.lfnOrd
    BY <1>1, <1>2, <2>2 DEF Taken, Objects
  <2>4. NameIs(T0, o)
    BY <1>1, <2>1, <2>3 DEF NameIs
  <2> QED BY <2>2, <2>4
<1>7. NamePhase(pc', T0, call', F!Contents')
  BY <1>2, PhaseQuiet
<1> QED BY <1>2, <1>4, <1>5, <1>6, <1>7, SameTree

LEMMA RemoveNames ==
  ASSUME F!DirectoryAssumption, NInv, IInv', F!remove
  PROVE  NInv'
<1>1. IInv /\ program \in FatPrograms /\ file \in Objects /\ FileIs(T0, file) /\ (file.open => NameIs(T0, file))
  BY NamesNow, Now
<1>2. pc = "idle" /\ file.write /\ F!BeginRemove /\ device' = device /\ m_sector' = m_sector /\ m_buffer' = m_buffer
  BY DEF F!remove, F!cache
<1>3. Object(T0, file) /\ file.open /\ file.isDir = FALSE
  <2>1. Object(T0, file)
    BY <1>1, <1>2 DEF FileIs, F!Closed
  <2> QED BY <2>1, <1>1, <1>2 DEF Object, EntryIs, Objects
<1>4. PICK k : k = <<file.dir, file.index>>
  OBVIOUS
<1>5. /\ program' = program /\ fatOnDevice' = fatOnDevice /\ at' = at
      /\ file' = F!Closed /\ pc' = "del" /\ call'.op = "remove" /\ call'.old = file
  BY <1>1, <1>2, <1>3, <1>4, BeginRemoveIs
<1>6. F!Contents' = F!Contents /\ fat' = F!FreeChain(file.first)
  BY <1>2 DEF F!Contents, F!BeginRemove
<1>7. T0' = T0
  <2>1. PICK d, i, c : d = file.dir /\ i = file.index /\ c = EntryFirst(T0, file, <<d, i>>)
    OBVIOUS
  <2>2. c = file.first
    BY <1>3, <2>1 DEF EntryFirst
  <2>3. d \in DOMAIN T0 /\ i \in UsedOf(T0[d]) /\ T0[d][i].kind = "file"
    BY <1>1, <1>3, <2>1, FilePlace
  <2>4. GoneAt(pc, call) = {} /\ pc # "del"
    BY <1>1, <1>2, IdleNow
  <2>5. fat' = F!FreeChain(c)
    BY <1>6, <2>2
  <2> QED BY <1>1, <1>5, <1>6, <2>1, <2>3, <2>4, <2>5, FreedFileTree
<1>8. NamedTree(F!OnDevice')
  BY <1>2, <1>5, DeviceNames
<1>9. NoSets(pc, call)
  BY <1>2, BareSets DEF BareSteps
<1>10. ~file'.open
  BY <1>5 DEF F!Closed
<1>11. NamePhase(pc', T0, call', F!Contents')
  <2>1. PICK u, contents : u = call' /\ contents = F!Contents'
    OBVIOUS
  <2>2. NameIs(T0, u.old)
    BY <1>1, <1>3, <1>5, <2>1
  <2>3. NamePhase("del", T0, u, contents)
    BY <2>2 DEF NamePhase, PhaseOf
  <2> QED BY <1>5, <2>1, <2>3
<1> QED BY <1>5, <1>7, <1>8, <1>9, <1>10, <1>11, SameTree DEF NoSets

-----------------------------------------------------------------------------
DotsAgree(T, U) == \A x \in DOMAIN T : 0 \in DOMAIN T[x] /\ 1 \in DOMAIN T[x] /\ T[x][0].kind = "dot" /\ T[x][1].kind = "dotdot" =>
  U[x][0] = T[x][0] /\ U[x][1] = T[x][1]
LEMMA DotsSlots ==
  ASSUME NEW T, NEW U, NEW raw, NEW raw2, NEW moving, NEW moving2, Dots(T, raw, moving), SubdirsThere(T), DotsAgree(T, U),
         \A d \in DOMAIN U : \A i \in UsedOf(U[d]) : U[d][i].kind = "subdir" /\ U[d][i].first \notin raw2 =>
           /\ d \in DOMAIN T /\ i \in UsedOf(T[d]) /\ T[d][i].kind = "subdir" /\ T[d][i].first = U[d][i].first
           /\ U[d][i].first \notin raw /\ (<<d, i>> \in moving => <<d, i>> \in moving2)
  PROVE  Dots(U, raw2, moving2)
<1>1. SUFFICES ASSUME NEW d \in DOMAIN U, NEW i \in UsedOf(U[d]), U[d][i].kind = "subdir", U[d][i].first \notin raw2
               PROVE  /\ d \in DOMAIN T /\ i \in UsedOf(T[d]) /\ T[d][i].kind = "subdir" /\ T[d][i].first = U[d][i].first
                      /\ U[d][i].first \notin raw /\ (<<d, i>> \in moving => <<d, i>> \in moving2)
                      /\ U[U[d][i].first][0] = T[U[d][i].first][0] /\ U[U[d][i].first][1] = T[U[d][i].first][1]
  BY DotsKept DEF DotsFrom
<1>2. PICK x : x = U[d][i].first
  OBVIOUS
<1>3. /\ d \in DOMAIN T /\ i \in UsedOf(T[d]) /\ T[d][i].kind = "subdir" /\ T[d][i].first = x
      /\ x \notin raw /\ (<<d, i>> \in moving => <<d, i>> \in moving2)
  BY <1>1, <1>2
<1>4. x \in DOMAIN T /\ 0 \in DOMAIN T[x] /\ 1 \in DOMAIN T[x]
  BY <1>3 DEF SubdirsThere
<1>5. T[x][0].kind = "dot" /\ T[x][1].kind = "dotdot"
  BY <1>3 DEF Dots, DotHead
<1>6. U[x][0] = T[x][0] /\ U[x][1] = T[x][1]
  BY <1>4, <1>5 DEF DotsAgree
<1> QED BY <1>2, <1>3, <1>6

LEMMA RmdirNames ==
  ASSUME F!DirectoryAssumption, NInv, IInv', F!rmdir
  PROVE  NInv'
<1>1. /\ IInv /\ program \in FatPrograms /\ file \in Objects /\ FileIs(T0, file) /\ TreeTyped(T0)
      /\ (file.open => NameIs(T0, file)) /\ NamedTree(T0) /\ LfnEntries \in Nat \ {0} /\ T0 = F!Tree(F!Contents, fat, 0)
      /\ Dots(T0, RawAt(pc, call), MovingAt(pc, call))
  BY NamesNow, Now
<1>2. PICK d, end : /\ d = file.first /\ end = FirstStop(d, F!Size(d)) /\ F!ReadUpTo(d, end) /\ pc = "idle" /\ file.open /\ file.isDir
                    /\ (F!isFatFileOrSubdir(F!Entry(d, end)) /\ UNCHANGED <<program, fat, fatOnDevice, file, pc, call, F!history>>)
                       \/ (~F!isFatFileOrSubdir(F!Entry(d, end)) /\ F!BeginRemove)
  BY DEF F!rmdir, FirstStop
<1>3. VolumeNext /\ F!Contents' = F!Contents /\ (device' = device \/ device' = F!Contents)
  BY <1>1, <1>2, ReadIs
<1>4. NoSets(pc, call)
  BY <1>2, BareSets DEF BareSteps
<1>5. CASE UNCHANGED <<program, fat, fatOnDevice, file, pc, call, F!history>>
  <2>1. /\ program' = program /\ fat' = fat /\ fatOnDevice' = fatOnDevice /\ file' = file /\ pc' = pc /\ call' = call /\ at' = at
    BY <1>5 DEF F!history
  <2>2. T0' = T0
    BY <1>1, <1>3, <2>1, PrimedTree
  <2>3. NamedTree(F!OnDevice')
    BY <1>3, <2>1, DeviceNames
  <2>4. NamePhase(pc', T0, call', F!Contents')
    BY <1>2, <2>1, PhaseQuiet
  <2> QED BY <1>1, <1>4, <2>1, <2>2, <2>3, <2>4, SameTree DEF NoSets
<1>6. CASE ~F!isFatFileOrSubdir(F!Entry(d, end)) /\ F!BeginRemove
  <2>1. EmptyDir(T0, d)
    BY <1>1, <1>2, <1>6, RmdirEmpty
  <2>2. d \in DOMAIN T0 /\ d # 0 /\ Object(T0, file)
    BY <1>1, <1>2, OpenDir
  <2>3. PICK k : k = <<file.dir, file.index>>
    OBVIOUS
  <2>4. /\ program' = program /\ fatOnDevice' = fatOnDevice /\ at' = at
        /\ file' = F!Closed /\ pc' = "del" /\ call'.op = "remove" /\ call'.old = file
    BY <1>1, <1>2, <1>6, <2>3, BeginRemoveIs
  <2>5. fat' = F!FreeChain(d)
    BY <1>2, <1>6 DEF F!BeginRemove
  <2>6. PICK U : U = T0'
    OBVIOUS
  <2>7. Shrunk(T0, U, d)
    BY <1>1, <1>2, <1>3, <2>1, <2>2, <2>4, <2>5, <2>6, FreeDir
  <2>8. /\ DOMAIN U = DOMAIN T0 /\ (\A e \in DOMAIN T0 : e # d => U[e] = T0[e])
        /\ DOMAIN U[d] = 0 .. LenOf(U[d]) - 1 /\ DOMAIN T0[d] = 0 .. LenOf(T0[d]) - 1
        /\ LenOf(U[d]) \in Nat /\ LenOf(T0[d]) \in Nat /\ LenOf(U[d]) <= LenOf(T0[d])
        /\ (\A i \in DOMAIN U[d] : U[d][i] = T0[d][i])
        /\ EmptyDir(T0, d) /\ EmptyDir(U, d) /\ TreeTyped(U)
    BY <2>7 DEF Shrunk, PrefixOf
  <2>9. UsedOf(U[d]) = {} /\ UsedOf(T0[d]) = {}
    BY <2>8 DEF EmptyDir, UsedOf
  <2>10. 0 \in DOMAIN U[d] /\ 1 \in DOMAIN U[d] /\ DOMAIN U[d] \subseteq DOMAIN T0[d]
    <3>1. LenOf(U[d]) \in Nat \ {0, 1}
      BY <2>2, <2>8 DEF TreeTyped, DirSlots
    <3> QED BY <2>8, <3>1
  <2>11. \A e \in DOMAIN T0 : UsedOf(U[e]) = UsedOf(T0[e]) /\ SameNames(T0[e], U[e])
    BY <2>8, <2>9 DEF SameNames
  <2>12. Alike(T0, U)
    BY <2>8, <2>11 DEF Alike, AlikeIn
  <2>13. LfnFrom(T0, U, {}, {})
    <3>1. ASSUME NEW e \in DOMAIN U, NEW i \in DOMAIN U[e] PROVE e \in DOMAIN T0 /\ i \in DOMAIN T0[e] /\ U[e][i] = T0[e][i]
      BY <2>8, <2>10, <3>1
    <3> QED BY <3>1 DEF LfnFrom
  <2>14. LooseAt(pc', call') = {} /\ RawAt(pc', call') = {} /\ MovingAt(pc', call') = {<<file.dir, file.index>>}
    <3>1. PICK u : u = call'
      OBVIOUS
    <3>2. Building("del", u) = {}
      BY BuildingNone
    <3>3. LooseAt("del", u) = {} /\ RawAt("del", u) = {} /\ MovingAt("del", u) = {<<u.old.dir, u.old.index>>}
      BY <3>2 DEF LooseAt, RawAt, MovingAt, PhaseOf
    <3> QED BY <2>4, <3>1, <3>3
  <2>15. DotsAgree(T0, U)
    BY <2>8, <2>10 DEF DotsAgree
  <2>16. Dots(U, RawAt(pc', call'), MovingAt(pc', call'))
    <3>1. PICK raw2, moving2 : raw2 = RawAt(pc', call') /\ moving2 = MovingAt(pc', call')
      OBVIOUS
    <3>2. SubdirsThere(T0) /\ Dots(T0, {}, {})
      BY <1>1, <1>4, SubdirsNow DEF NoSets
    <3>3. ASSUME NEW e \in DOMAIN U, NEW i \in UsedOf(U[e]), U[e][i].kind = "subdir"
          PROVE  e \in DOMAIN T0 /\ i \in UsedOf(T0[e]) /\ T0[e][i].kind = "subdir" /\ T0[e][i].first = U[e][i].first
      <4>1. e # d
        BY <2>9, <3>3
      <4> QED BY <2>8, <3>3, <4>1
    <3>4. Dots(U, raw2, moving2)
      BY <2>15, <3>2, <3>3, DotsSlots
    <3> QED BY <3>1, <3>4
  <2>17. NamePhase(pc', U, call', F!Contents')
    <3>1. NameIs(U, file)
      BY <1>1, <1>2, <2>12, FilePlace, AlikeFile
    <3>2. PICK u, contents : u = call' /\ contents = F!Contents'
      OBVIOUS
    <3>3. NameIs(U, u.old)
      BY <2>4, <3>1, <3>2
    <3>4. NamePhase("del", U, u, contents)
      BY <3>3 DEF NamePhase, PhaseOf
    <3> QED BY <2>4, <3>2, <3>4
  <2>18. NamedTree(F!OnDevice')
    BY <1>3, <2>4, DeviceNames
  <2>19. LfnFrom(T0, U, LooseAt(pc, call), LooseAt(pc', call'))
    BY <1>4, <2>13, <2>14 DEF NoSets
  <2>20. ~file'.open
    BY <2>4 DEF F!Closed
  <2> QED BY <2>4, <2>6, <2>12, <2>16, <2>17, <2>18, <2>19, <2>20, AlikeStep
<1> QED BY <1>2, <1>5, <1>6

UnlfnAt(c) == {<<c.old.dir, c.old.index - k>> : k \in c.order .. LfnEntries}
LEMMA DeleteLfnNames ==
  ASSUME F!DirectoryAssumption, NInv, IInv', F!deleteLFN
  PROVE  NInv'
<1>1. /\ IInv /\ program \in FatPrograms /\ call \in Calls /\ NamePhase(pc, T0, call, F!Contents) /\ TreeTyped(T0)
      /\ (file.open => NameIs(T0, file)) /\ NamedTree(T0) /\ LfnEntries \in Nat \ {0} /\ FileIs(T0, file)
      /\ Dots(T0, RawAt(pc, call), MovingAt(pc, call)) /\ PhaseOK(pc, T0, Inside, file, call, F!Contents, fatOnDevice, fat, m_sector)
  BY NamesNow, Now
<1>2. PICK d, i : d = call.old.dir /\ i = call.old.index - call.order
  OBVIOUS
<1>3. program' = program /\ fatOnDevice' = fatOnDevice /\ fat' = fat /\ file' = file /\ at' = at /\ pc = "unlfn"
  BY DEF F!deleteLFN, F!history
<1>4. Unwritten(T0, call) /\ LeftOK(T0, call)
  BY <1>1, <1>3, PhaseIs DEF NamePhase, PhaseOf
<1>5. d \in DOMAIN T0 /\ i \in DOMAIN T0[d] /\ Indexed(T0[d]) /\ NoneBehind(T0[d]) /\ call.order \in 1 .. LfnEntries
      /\ call.old.index \in Nat /\ i \in Nat
  <2>1. d \in DOMAIN T0 /\ call.old.index \in DOMAIN T0[d] /\ Indexed(T0[d]) /\ NoneBehind(T0[d])
    BY <1>1, <1>2, <1>4 DEF Unwritten, TreeTyped
  <2>2. call.old.index \in Nat /\ call.old.index >= LfnEntries /\ call.order \in 1 .. LfnEntries
    BY <1>4, <2>1 DEF Unwritten, Indexed
  <2>3. i \in 0 .. call.old.index
    BY <1>1, <1>2, <2>2
  <2> QED BY <2>1, <2>2, <2>3 DEF Indexed
<1>6. T0[d][i] = F!Entry(d, i) /\ T0[d][i] \in SlotType
  BY <1>1, <1>5, SizeNow
<1>7. T0[d][i].kind = "lfn" /\ T0[d][i].order = call.order /\ T0[d][i].sum = call.saved.name
  <2>1. call.order \in call.order .. LfnEntries
    BY <1>1, <1>5
  <2>2. LET slot == T0[call.old.dir][call.old.index - call.order] IN slot.kind = "lfn" /\ slot.order = call.order /\ slot.sum = call.saved.name
    BY <1>4, <2>1 DEF LeftOK
  <2> QED BY <1>2, <2>2
<1>8. /\ F!StoreEntry(d, i, F!Deleted)
      /\ IF F!Last(T0[d][i]) THEN F!Goes("data", [call EXCEPT !.then = "idle"]) ELSE F!Goes("unlfn", [call EXCEPT !.order = @ + 1])
  BY <1>2, <1>6, <1>7 DEF F!deleteLFN
<1>9. F!Deleted \in SlotType /\ F!Deleted.kind = "deleted" /\ ~F!isFatFileOrSubdir(F!Deleted) /\ ~F!isFatFileOrSubdir(T0[d][i])
  BY <1>1, <1>7, TypedConstants DEF F!Deleted, F!Slot, F!isFatFileOrSubdir
<1>10. F!Last(T0[d][i]) <=> call.order = LfnEntries
  <2>1. T0[d][i].name \in LongNames
    BY <1>6, <1>7 DEF SlotType
  <2>2. F!nameOrd(T0[d][i].name) = LfnEntries
    BY <2>1 DEF F!nameOrd, F!Lost
  <2> QED BY <1>7, <2>2 DEF F!Last
<1>11. NoneBehind(With(T0[d], i, F!Deleted))
  <2>1. ClearBefore(T0[d], i)
    <3>1. SUFFICES ASSUME NEW j \in DOMAIN T0[d], j < i, T0[d][j].kind = "free" PROVE FALSE
      BY DEF ClearBefore
    <3>2. FreeTail(T0, {})
      <4>1. pc \in PlainSteps /\ pc \notin PairSteps
        BY <1>3 DEF PlainSteps, PairSteps
      <4>2. Building(pc, call) = {} /\ SetsP(T0, pc, call)
        BY <1>1, <4>1, PlainStep, Now
      <4> QED BY <4>2 DEF SetsP
    <3>3. T0[d][i].kind = "free"
      BY <1>5, <3>1, <3>2 DEF FreeTail
    <3> QED BY <1>7, <3>3
  <2> QED BY <1>5, <1>9, <2>1, NoneBehindWith
<1>12. PICK slot, U : slot = F!Deleted /\ U = TreeWith(T0, d, i, slot)
  OBVIOUS
<1>13. T0' = U
  BY <1>1, <1>3, <1>5, <1>7, <1>8, <1>9, <1>11, <1>12, TreeStored
<1>14. NamedTree(F!OnDevice')
  <2>1. device' = F!Contents \/ device' = device
    BY <1>1, <1>5, <1>8, <1>9, EntryStored
  <2> QED BY <1>3, <2>1, DeviceNames
<1>15. Alike(T0, U)
  <2>1. ~InLong(T0[d], i)
    <3>1. SUFFICES ASSUME NEW j \in UsedOf(T0[d]), HasLong(T0[d], j), j - LfnEntries <= i, i < j PROVE FALSE
      BY DEF InLong
    <3>2. j \in Nat
      BY <1>5 DEF UsedOf, Indexed
    <3>3. j - i \in 1 .. LfnEntries /\ j - (j - i) = i
      BY <1>1, <1>5, <3>1, <3>2
    <3>4. PICK k \in 1 .. LfnEntries : k = j - i /\ j - k = i
      BY <3>3
    <3>5. T0[d][j - k].order = k
      BY <1>1, <1>5, <3>1, LongBefore DEF NamedTree
    <3>6. k = call.order
      BY <1>7, <3>4, <3>5
    <3>7. j = call.old.index
      BY <1>2, <1>5, <3>2, <3>4, <3>6
    <3>8. InUse(T0[d], j)
      BY <3>1 DEF UsedOf
    <3> QED BY <1>2, <1>4, <3>7, <3>8 DEF LeftOK
  <2>2. SlotAlike(T0[d], i, slot)
    BY <1>9, <1>12 DEF SlotAlike
  <2> QED BY <1>1, <1>5, <1>12, <2>1, <2>2, TreeAlike
<1>16. RawAt(pc, call) = {} /\ MovingAt(pc, call) = {} /\ LooseAt(pc, call) = UnlfnAt(call)
  BY <1>3 DEF RawAt, MovingAt, LooseAt, PhaseOf, UnlfnAt
<1>17. Dots(U, {}, {})
  <2>1. Dots(T0, {}, {}) /\ SubdirsThere(T0)
    BY <1>1, <1>16, SubdirsNow
  <2>2. slot.kind # "subdir" /\ T0[d][i].kind \notin {"dot", "dotdot"}
    BY <1>7, <1>9, <1>12
  <2> QED BY <1>5, <1>12, <2>1, <2>2, DotsWith
<1>18. file'.open => NameIs(U, file')
  BY <1>1, <1>3, <1>15, FilePlace, AlikeFile
<1>19. PICK u, contents : u = call' /\ contents = F!Contents'
  OBVIOUS
<1>20. CASE call.order = LfnEntries
  <2>1. pc' = "data" /\ u.then = "idle"
    BY <1>1, <1>8, <1>10, <1>19, <1>20 DEF F!Goes, Calls
  <2>2. NoSets("data", u)
    BY <2>1, SyncSets DEF BareThens
  <2>3. NoSets(pc', call')
    BY <1>19, <2>1, <2>2
  <2>4. UnlfnAt(call) = {<<d, i>>}
    BY <1>1, <1>2, <1>20 DEF UnlfnAt
  <2>5. LfnFrom(T0, U, UnlfnAt(call), {})
    BY <1>5, <1>9, <1>12, <2>4, LfnWith
  <2>6. NamePhase(pc', U, call', F!Contents')
    BY <1>19, <2>1, PhaseQuiet
  <2> QED BY <1>3, <1>13, <1>14, <1>15, <1>16, <1>17, <1>18, <2>3, <2>5, <2>6, AlikeStep DEF NoSets
<1>21. CASE call.order # LfnEntries
  <2>1. pc' = "unlfn" /\ u = NextOrder(call)
    BY <1>8, <1>10, <1>19, <1>21 DEF F!Goes, NextOrder
  <2>2. u.order = call.order + 1 /\ u.old = call.old /\ u.saved = call.saved
    BY <1>1, <2>1, NextOrderIs
  <2>3. RawAt("unlfn", u) = {} /\ MovingAt("unlfn", u) = {} /\ LooseAt("unlfn", u) = UnlfnAt(u)
    BY DEF RawAt, MovingAt, LooseAt, PhaseOf, UnlfnAt
  <2>4. \A x \in UnlfnAt(call) : x = <<d, i>> \/ x \in UnlfnAt(u)
    <3>1. SUFFICES ASSUME NEW k \in call.order .. LfnEntries PROVE <<call.old.dir, call.old.index - k>> = <<d, i>> \/ <<call.old.dir, call.old.index - k>> \in UnlfnAt(u)
      BY DEF UnlfnAt
    <3>2. CASE k = call.order
      BY <1>2, <3>2
    <3>3. CASE k # call.order
      <4>1. k \in u.order .. LfnEntries
        BY <1>5, <2>2, <3>3
      <4> QED BY <2>2, <4>1 DEF UnlfnAt
    <3> QED BY <3>2, <3>3
  <2>5. LfnFrom(T0, U, UnlfnAt(call), UnlfnAt(u))
    BY <1>5, <1>9, <1>12, <2>4, LfnWith
  <2>6. NamePhase("unlfn", U, u, contents)
    <3>1. \A j \in DOMAIN T0[d] : U[d][j] = IF j = i THEN slot ELSE T0[d][j]
      BY <1>5, <1>12, TreeWithIs
    <3>2. call.old.index \in DOMAIN T0[d] /\ call.old.index >= LfnEntries
      BY <1>2, <1>4 DEF Unwritten
    <3>3. U[d][call.old.index] = T0[d][call.old.index]
      BY SMTT(60), <1>1, <1>2, <1>5, <3>1, <3>2
    <3>4. ~InUse(U[d], u.old.index)
      BY <1>2, <1>4, <2>2, <3>3 DEF LeftOK, InUse
    <3>5. ASSUME NEW k \in u.order .. LfnEntries
          PROVE  LET sl == U[d][u.old.index - k] IN sl.kind = "lfn" /\ sl.order = k /\ sl.sum = u.saved.name
      <4>1. k \in call.order .. LfnEntries /\ k \in Nat /\ k > call.order
        BY <1>5, <2>2
      <4>2. LET sl == T0[d][call.old.index - k] IN sl.kind = "lfn" /\ sl.order = k /\ sl.sum = call.saved.name
        BY <1>2, <1>4, <4>1 DEF LeftOK
      <4>3. LenOf(T0[d]) \in Nat /\ DOMAIN T0[d] = 0 .. LenOf(T0[d]) - 1
        BY <1>5 DEF Indexed
      <4>4. call.old.index - k \in DOMAIN T0[d] /\ call.old.index - k # i
        BY SMTT(60), <1>1, <1>2, <1>5, <3>2, <4>1, <4>3
      <4>5. U[d][call.old.index - k] = T0[d][call.old.index - k]
        BY <3>1, <4>4
      <4> QED BY <2>2, <4>2, <4>5
    <3>6. LeftOK(U, u)
      BY <1>2, <2>2, <3>4, <3>5 DEF LeftOK
    <3> QED BY <3>6 DEF NamePhase, PhaseOf
  <2>7. /\ RawAt(pc', call') = {} /\ MovingAt(pc', call') = {} /\ LfnFrom(T0, U, LooseAt(pc, call), LooseAt(pc', call'))
        /\ NamePhase(pc', U, call', F!Contents')
    BY <1>16, <1>19, <2>1, <2>3, <2>5, <2>6
  <2> QED BY <1>3, <1>13, <1>14, <1>15, <1>17, <1>18, <2>7, AlikeStep
<1> QED BY <1>20, <1>21

-----------------------------------------------------------------------------
(* A short entry is written or deleted. *)
LEMMA NamedAdd ==
  ASSUME NEW s, Named(s), Indexed(s), NEW i \in DOMAIN s, i \notin UsedOf(s), ~InLong(s, i), LfnEntries \in Nat \ {0}, NEW slot,
         NEW u, u = With(s, i, slot), F!isFatFileOrSubdir(slot), NEW name, SfnNew(s, slot.name), NameNew(s, name), FullName(u, i) = name,
         HasLong(u, i) => LongAt(u, i)
  PROVE  Named(u) /\ UsedOf(u) = Plus(UsedOf(s), i) /\ WithOthers(s, u, i)
<1>1. WithOthers(s, u, i) /\ DOMAIN u = DOMAIN s /\ u[i] = slot
  BY WithNames
<1>2. i \in UsedOf(u)
  BY <1>1 DEF UsedOf, InUse
<1>3. UsedOf(u) \subseteq DOMAIN s /\ UsedOf(s) \subseteq DOMAIN s
  BY <1>1 DEF UsedOf
<1>4. ASSUME NEW j \in UsedOf(u), j # i
      PROVE  /\ j \in UsedOf(s) /\ u[j].name = s[j].name /\ FullName(u, j) = FullName(s, j) /\ (HasLong(u, j) => LongAt(u, j))
             /\ u[j].name # u[i].name /\ FullName(u, j) # FullName(u, i)
  <2>1. /\ j \in UsedOf(s) /\ u[j].name = s[j].name /\ FullName(u, j) = FullName(s, j) /\ (HasLong(u, j) => LongAt(u, j))
    BY <1>1, <1>3, <1>4 DEF WithOthers
  <2> QED BY <1>1, <2>1 DEF SfnNew, NameNew
<1>5. UsedOf(u) = Plus(UsedOf(s), i)
  <2>1. \A j \in UsedOf(s) : j \in UsedOf(u)
    BY <1>1, <1>2, <1>3 DEF WithOthers
  <2> QED BY <1>2, <1>4, <2>1 DEF Plus
<1>6. \A j, l \in UsedOf(u) : u[j].name = u[l].name => j = l
  BY <1>4 DEF Named
<1>7. \A j, l \in UsedOf(u) : FullName(u, j) = FullName(u, l) => j = l
  BY <1>4 DEF Named
<1>8. \A j \in UsedOf(u) : HasLong(u, j) => LongAt(u, j)
  BY <1>4
<1> QED BY <1>1, <1>5, <1>6, <1>7, <1>8 DEF Named

LEMMA NamedDrop ==
  ASSUME NEW s, Named(s), Indexed(s), NEW i \in DOMAIN s, ~InLong(s, i), LfnEntries \in Nat \ {0}, NEW slot,
         NEW u, u = With(s, i, slot), ~F!isFatFileOrSubdir(slot)
  PROVE  Named(u) /\ UsedOf(u) = Minus(UsedOf(s), i) /\ WithOthers(s, u, i)
<1>1. WithOthers(s, u, i) /\ DOMAIN u = DOMAIN s /\ u[i] = slot
  BY WithNames
<1>2. i \notin UsedOf(u)
  BY <1>1 DEF UsedOf, InUse
<1>3. UsedOf(u) \subseteq DOMAIN s /\ UsedOf(s) \subseteq DOMAIN s
  BY <1>1 DEF UsedOf
<1>4. ASSUME NEW j \in UsedOf(u)
      PROVE  /\ j \in UsedOf(s) /\ u[j].name = s[j].name /\ FullName(u, j) = FullName(s, j) /\ (HasLong(u, j) => LongAt(u, j))
  BY <1>1, <1>2, <1>3 DEF WithOthers
<1>5. UsedOf(u) = Minus(UsedOf(s), i)
  <2>1. \A j \in UsedOf(s) : j # i => j \in UsedOf(u)
    BY <1>1, <1>3 DEF WithOthers
  <2> QED BY <1>2, <1>4, <2>1 DEF Minus
<1>6. \A j, l \in UsedOf(u) : u[j].name = u[l].name => j = l
  BY <1>4 DEF Named
<1>7. \A j, l \in UsedOf(u) : FullName(u, j) = FullName(u, l) => j = l
  BY <1>4 DEF Named
<1>8. \A j \in UsedOf(u) : HasLong(u, j) => LongAt(u, j)
  BY <1>4
<1> QED BY <1>1, <1>5, <1>6, <1>7, <1>8 DEF Named

LEMMA AgreeAdd ==
  ASSUME NEW T, NEW d \in DOMAIN T, NEW i, NEW U, DOMAIN U = DOMAIN T, \A e \in DOMAIN T : e # d => U[e] = T[e],
         UsedOf(U[d]) = Plus(UsedOf(T[d]), i), i \notin UsedOf(T[d]), NEW name, FullName(U[d], i) = name,
         \A j \in UsedOf(T[d]) : FullName(U[d], j) = FullName(T[d], j) /\ FullName(T[d], j) # name,
         NEW list, Agree(T, list), NEW list2, DOMAIN list2 = Plus(DOMAIN list, <<d, name>>),
         \A k \in DOMAIN list2 : list2[k] = IF k = <<d, name>> THEN i ELSE list[k]
  PROVE  Agree(U, list2)
<1>1. ASSUME NEW k \in DOMAIN list2
      PROVE  k = <<k[1], k[2]>> /\ k[1] \in DOMAIN U /\ list2[k] \in UsedOf(U[k[1]]) /\ FullName(U[k[1]], list2[k]) = k[2]
  <2>1. CASE k = <<d, name>>
    BY <1>1, <2>1 DEF Plus
  <2>2. CASE k # <<d, name>>
    <3>1. k \in DOMAIN list /\ list2[k] = list[k]
      BY <1>1, <2>2 DEF Plus
    <3>2. k = <<k[1], k[2]>> /\ k[1] \in DOMAIN T /\ list[k] \in UsedOf(T[k[1]]) /\ FullName(T[k[1]], list[k]) = k[2]
      BY <3>1 DEF Agree
    <3>3. CASE k[1] = d
      BY <3>1, <3>2, <3>3 DEF Plus
    <3>4. CASE k[1] # d
      BY <3>1, <3>2, <3>4
    <3> QED BY <3>3, <3>4
  <2> QED BY <2>1, <2>2
<1>2. ASSUME NEW e \in DOMAIN U, NEW j \in UsedOf(U[e])
      PROVE  <<e, FullName(U[e], j)>> \in DOMAIN list2 /\ list2[<<e, FullName(U[e], j)>>] = j
  <2>1. PICK full : full = FullName(U[e], j)
    OBVIOUS
  <2>2. CASE e = d /\ j = i
    BY <2>1, <2>2 DEF Plus
  <2>3. CASE ~(e = d /\ j = i)
    <3>1. j \in UsedOf(T[e]) /\ full = FullName(T[e], j) /\ (e = d => full # name)
      BY <1>2, <2>1, <2>3 DEF Plus
    <3>2. <<e, full>> \in DOMAIN list /\ list[<<e, full>>] = j
      BY <1>2, <3>1 DEF Agree
    <3>3. <<e, full>> # <<d, name>>
      BY <3>1
    <3> QED BY <2>1, <3>2, <3>3 DEF Plus
  <2> QED BY <2>2, <2>3
<1> QED BY <1>1, <1>2 DEF Agree

LEMMA AgreeDrop ==
  ASSUME NEW T, NamedTree(T), NEW d \in DOMAIN T, NEW i \in UsedOf(T[d]), NEW U, DOMAIN U = DOMAIN T, \A e \in DOMAIN T : e # d => U[e] = T[e],
         UsedOf(U[d]) = Minus(UsedOf(T[d]), i), NEW name, FullName(T[d], i) = name,
         \A j \in UsedOf(U[d]) : FullName(U[d], j) = FullName(T[d], j),
         NEW list, Agree(T, list), NEW list2, DOMAIN list2 = Minus(DOMAIN list, <<d, name>>),
         \A k \in DOMAIN list2 : list2[k] = list[k]
  PROVE  Agree(U, list2)
<1>1. ASSUME NEW k \in DOMAIN list2
      PROVE  k = <<k[1], k[2]>> /\ k[1] \in DOMAIN U /\ list2[k] \in UsedOf(U[k[1]]) /\ FullName(U[k[1]], list2[k]) = k[2]
  <2>1. k \in DOMAIN list /\ list2[k] = list[k] /\ k # <<d, name>>
    BY <1>1 DEF Minus
  <2>2. k = <<k[1], k[2]>> /\ k[1] \in DOMAIN T /\ list[k] \in UsedOf(T[k[1]]) /\ FullName(T[k[1]], list[k]) = k[2]
    BY <2>1 DEF Agree
  <2>3. CASE k[1] = d
    <3>1. list[k] # i
      BY <2>1, <2>2, <2>3
    <3> QED BY <2>1, <2>2, <2>3, <3>1 DEF Minus
  <2>4. CASE k[1] # d
    BY <2>1, <2>2, <2>4
  <2> QED BY <2>3, <2>4
<1>2. ASSUME NEW e \in DOMAIN U, NEW j \in UsedOf(U[e])
      PROVE  <<e, FullName(U[e], j)>> \in DOMAIN list2 /\ list2[<<e, FullName(U[e], j)>>] = j
  <2>1. PICK full : full = FullName(U[e], j)
    OBVIOUS
  <2>2. j \in UsedOf(T[e]) /\ full = FullName(T[e], j) /\ (e = d => j # i)
    BY <1>2, <2>1 DEF Minus
  <2>3. <<e, full>> \in DOMAIN list /\ list[<<e, full>>] = j
    BY <1>2, <2>2 DEF Agree
  <2>4. <<e, full>> # <<d, name>>
    BY <2>2 DEF NamedTree, Named
  <2> QED BY <2>1, <2>3, <2>4 DEF Minus
<1> QED BY <1>1, <1>2 DEF Agree

LEMMA OwnedWith ==
  ASSUME NEW T, NEW d \in DOMAIN T, Indexed(T[d]), NEW i \in DOMAIN T[d], NEW slot, slot.kind # "lfn", NEW U, U = TreeWith(T, d, i, slot),
         WithOthers(T[d], U[d], i), NEW loose, NEW loose2, Owned(T, loose),
         \A e, j : <<e, j>> \in loose => <<e, j>> \in loose2 \/ InLong(U[e], j),
         \A j \in DOMAIN T[d] : i \in UsedOf(T[d]) /\ HasLong(T[d], i) /\ i - LfnEntries <= j /\ j < i => <<d, j>> \in loose2
  PROVE  Owned(U, loose2)
<1>1. DOMAIN U = DOMAIN T /\ (\A e \in DOMAIN T : e # d => U[e] = T[e]) /\ DOMAIN U[d] = DOMAIN T[d]
      /\ \A j \in DOMAIN T[d] : U[d][j] = IF j = i THEN slot ELSE T[d][j]
  BY TreeWithIs
<1>2. SUFFICES ASSUME NEW e \in DOMAIN U, NEW j \in DOMAIN U[e], U[e][j].kind = "lfn" PROVE <<e, j>> \in loose2 \/ InLong(U[e], j)
  BY DEF Owned
<1>3. e \in DOMAIN T /\ j \in DOMAIN T[e] /\ T[e][j].kind = "lfn"
  BY <1>1, <1>2
<1>4. <<e, j>> \in loose \/ InLong(T[e], j)
  BY <1>3 DEF Owned
<1>5. CASE <<e, j>> \in loose
  BY <1>5
<1>6. CASE InLong(T[e], j) /\ e # d
  BY <1>1, <1>3, <1>6
<1>7. CASE InLong(T[e], j) /\ e = d
  <2>1. PICK k \in UsedOf(T[d]) : HasLong(T[d], k) /\ k - LfnEntries <= j /\ j < k
    BY <1>7 DEF InLong
  <2>2. k \in DOMAIN T[d]
    BY DEF UsedOf
  <2>3. CASE k = i
    BY <1>3, <1>7, <2>1, <2>3
  <2>4. CASE k # i
    <3>1. k \in UsedOf(U[d]) /\ HasLong(U[d], k)
      BY <2>1, <2>2, <2>4 DEF WithOthers
    <3> QED BY <1>7, <2>1, <3>1 DEF InLong
  <2> QED BY <2>3, <2>4
<1> QED BY <1>4, <1>5, <1>6, <1>7

-----------------------------------------------------------------------------
(* What the short entry completes. *)
LEMMA ShortMade ==
  ASSUME F!DirectoryAssumption, program \in FatPrograms, NEW s, Indexed(s), NEW c, c.name \in F!Names, NEW i \in DOMAIN s, i = c.index,
         SfnFits(c), i >= F!freeNeed(c.name) - 1, NEW slot, slot.name = c.sfn, NEW u, u = With(s, i, slot),
         \A k \in 1 .. Written("sfn", c) : s[c.index - k] = F!LongEntry(c.name, k, c.sfn)
  PROVE  /\ FullName(u, i) = c.name /\ (HasLong(u, i) => LongAt(u, i)) /\ (HasLong(u, i) <=> F!Lost(c.name))
         /\ \A k \in 1 .. Written("sfn", c) : InLong(u, i - k) \/ i \notin UsedOf(u)
<1>1. DOMAIN u = DOMAIN s /\ (\A j \in DOMAIN s : u[j] = IF j = i THEN slot ELSE s[j]) /\ LfnEntries \in Nat \ {0}
  BY WithIs, Setting
<1>2. LenOf(s) \in Nat /\ DOMAIN s = 0 .. LenOf(s) - 1 /\ i \in Nat
  BY DEF Indexed
<1>3. CASE F!Lost(c.name)
  <2>1. Written("sfn", c) = LfnEntries /\ F!freeNeed(c.name) - 1 = LfnEntries /\ c.sfn \in F!LongSfns
    BY <1>1, <1>3 DEF Written, F!freeNeed, SfnFits
  <2>2. i >= LfnEntries
    BY <2>1
  <2>3. ASSUME NEW k \in 1 .. LfnEntries PROVE u[i - k] = F!LongEntry(c.name, k, c.sfn)
    <3>1. i - k \in DOMAIN s /\ i - k # i
      BY <1>1, <1>2, <2>2
    <3>2. s[i - k] = F!LongEntry(c.name, k, c.sfn)
      BY <2>1
    <3> QED BY <1>1, <3>1, <3>2
  <2>4. 1 \in 1 .. LfnEntries
    BY <1>1
  <2>5. u[i - 1] = F!LongEntry(c.name, 1, c.sfn)
    BY <2>3, <2>4
  <2>6. u[i - 1].name = c.name
    BY <2>5 DEF F!LongEntry, F!Slot
  <2>7. u[i].name = c.sfn /\ HasLong(u, i)
    BY <1>1, <2>1 DEF HasLong
  <2>8. LongAt(u, i)
    BY <2>2, <2>3, <2>6, <2>7 DEF LongAt
  <2>9. FullName(u, i) = c.name
    BY <2>6, <2>7 DEF FullName
  <2>10. ASSUME NEW k \in 1 .. LfnEntries, i \in UsedOf(u) PROVE InLong(u, i - k)
    <3>1. i - LfnEntries <= i - k /\ i - k < i
      BY <1>1, <1>2
    <3> QED BY <2>7, <2>10, <3>1 DEF InLong
  <2> QED BY <1>3, <2>1, <2>7, <2>8, <2>9, <2>10
<1>4. CASE ~F!Lost(c.name)
  <2>1. c.sfn = c.name /\ c.name \notin F!LongSfns /\ Written("sfn", c) = 0
    BY <1>4, NameKinds DEF SfnFits, Written
  <2>2. u[i].name = c.name /\ ~HasLong(u, i)
    BY <1>1, <2>1 DEF HasLong
  <2> QED BY <1>4, <2>1, <2>2 DEF FullName
<1> QED BY <1>3, <1>4

LEMMA CreateSfnNames ==
  ASSUME F!DirectoryAssumption, NInv, IInv', F!createSFN
  PROVE  NInv'
<1>1. /\ IInv /\ program \in FatPrograms /\ call \in Calls /\ NamePhase(pc, T0, call, F!Contents) /\ TreeTyped(T0)
      /\ (file.open => NameIs(T0, file)) /\ NamedTree(T0) /\ LfnEntries \in Nat \ {0} /\ FileIs(T0, file) /\ Agree(T0, at)
      /\ Owned(T0, LooseAt(pc, call)) /\ T0 = F!Tree(F!Contents, fat, 0)
      /\ Dots(T0, RawAt(pc, call), MovingAt(pc, call)) /\ PhaseOK(pc, T0, Inside, file, call, F!Contents, fatOnDevice, fat, m_sector)
  BY NamesNow, Now
<1>2. PICK d, i, slot : d = call.dir /\ i = call.index /\ slot = F!ShortEntry("file", call.sfn, 0)
  OBVIOUS
<1>3. /\ program' = program /\ fatOnDevice' = fatOnDevice
      /\ pc = "sfn" /\ F!StoreEntry(d, i, slot) /\ at' = F!WithName(d, call.name, i)
  BY <1>2 DEF F!createSFN
<1>4. /\ CreateOK(T0, Inside, file, call) /\ Run(T0[d], call, Written("sfn", call)) /\ i \in DOMAIN T0[d] /\ MakingOK(T0, "sfn", call)
  BY <1>1, <1>2, <1>3, PhaseIs DEF SfnOK, NewOK, NamePhase
<1>5. d \in DOMAIN T0 /\ Indexed(T0[d]) /\ NoneBehind(T0[d]) /\ i \in Nat /\ d \in F!Cluster \cup {0} /\ call.name \in F!Names
  BY <1>1, <1>2, <1>4 DEF CreateOK, TreeTyped, Calls
<1>6. slot \in SlotType /\ slot.kind = "file" /\ slot.first = 0 /\ slot.name = call.sfn
  <2>1. call.sfn \in ShortNames \cup F!LongSfns /\ call.sfn \in Name /\ Basis \in Name /\ 0 \in 0 .. LfnEntries
    BY <1>1, Setting DEF Calls, Name
  <2> QED BY <1>2, <2>1 DEF F!ShortEntry, F!Slot, SlotType, Kinds, F!isFatFileOrSubdir
<1>7. ClearBefore(T0[d], i) /\ T0[d][i].kind \in {"free", "deleted"} /\ i >= F!freeNeed(call.name) - 1
  BY <1>1, <1>2, <1>4, <1>5, RunDone
<1>8. NoneBehind(With(T0[d], i, slot))
  BY <1>4, <1>5, <1>6, <1>7, NoneBehindWith
<1>9. /\ T0[d][i].kind # "subdir" /\ slot.kind # "subdir" /\ F!isFatFileOrSubdir(slot)
      /\ T0[d][i].kind \notin {"dot", "dotdot"} /\ T0[d][i].kind # "lfn" /\ slot.kind # "lfn" /\ i \notin UsedOf(T0[d])
  BY <1>6, <1>7 DEF F!isFatFileOrSubdir, UsedOf, InUse
<1>10. PICK U : U = TreeWith(T0, d, i, slot)
  OBVIOUS
<1>11. PICK ord : ord = F!freeNeed(call.name) - 1
  OBVIOUS
<1>12. /\ fat' = fat
       /\ \/ F!Ends /\ F!openCachedEntry(d, i, ord, call.name, call.op, slot) /\ call.op \in {"write", "trunc"}
          \/ pc' \in {"newdir", "copy"} /\ call' = call /\ file' = file
  <2>1. call.op \in {"write", "trunc", "mkdir", "rename"}
    BY <1>4 DEF CreateOK
  <2>2. CASE call.op = "mkdir" \/ (call.op = "rename" /\ file.isDir)
    BY <2>2 DEF F!createSFN, F!Goes
  <2>3. CASE call.op = "rename" /\ ~file.isDir
    BY <2>3 DEF F!createSFN, F!Goes
  <2>4. CASE call.op \in {"write", "trunc"}
    <3>1. F!openCachedEntry(d, i, ord, call.name, call.op, slot) /\ F!Ends
      BY <1>2, <1>11, <2>4 DEF F!createSFN
    <3>2. ord \in Nat /\ call.name \in Name
      BY <1>1, <1>11 DEF F!freeNeed, Calls
    <3>3. fat' = fat
      BY <1>1, <1>5, <1>6, <2>4, <3>1, <3>2, OpenNew
    <3> QED BY <2>4, <3>1, <3>3
  <2> QED BY <2>1, <2>2, <2>3, <2>4
<1>13. T0' = U
  BY <1>1, <1>3, <1>4, <1>5, <1>6, <1>8, <1>9, <1>10, <1>12, TreeStored
<1>14. NamedTree(F!OnDevice')
  <2>1. device' = F!Contents \/ device' = device
    BY <1>1, <1>3, <1>4, <1>5, <1>6, EntryStored
  <2> QED BY <1>3, <2>1, DeviceNames
<1>15. DOMAIN U = DOMAIN T0 /\ (\A e \in DOMAIN T0 : e # d => U[e] = T0[e]) /\ U[d] = With(T0[d], i, slot) /\ U[d][i] = slot
       /\ DOMAIN U[d] = DOMAIN T0[d]
  BY <1>4, <1>5, <1>10, TreeWithIs
<1>16. /\ SfnFits(call) /\ SfnNew(T0[d], call.sfn) /\ NameNew(T0[d], call.name)
       /\ \A k \in 1 .. Written("sfn", call) : T0[d][call.index - k] = F!LongEntry(call.name, k, call.sfn)
  BY <1>2, <1>4 DEF MakingOK
<1>17. i \in UsedOf(U[d])
  BY <1>4, <1>9, <1>15 DEF UsedOf, InUse
<1>18. /\ FullName(U[d], i) = call.name /\ (HasLong(U[d], i) => LongAt(U[d], i)) /\ (HasLong(U[d], i) <=> F!Lost(call.name))
       /\ \A k \in 1 .. Written("sfn", call) : InLong(U[d], i - k)
  BY <1>1, <1>2, <1>4, <1>5, <1>6, <1>7, <1>15, <1>16, <1>17, ShortMade
<1>19. ~InLong(T0[d], i) /\ Named(T0[d])
  BY <1>1, <1>4, <1>5, <1>9, NotInLong DEF NamedTree
<1>20. Named(U[d]) /\ UsedOf(U[d]) = Plus(UsedOf(T0[d]), i) /\ WithOthers(T0[d], U[d], i)
  BY <1>1, <1>4, <1>5, <1>6, <1>9, <1>15, <1>16, <1>18, <1>19, NamedAdd
<1>21. NamedTree(U)
  BY <1>1, <1>15, <1>20 DEF NamedTree
<1>22. PICK list2 : list2 = F!WithName(d, call.name, i)
  OBVIOUS
<1>23. Agree(U, list2)
  <2>1. ASSUME NEW j \in UsedOf(T0[d]) PROVE FullName(U[d], j) = FullName(T0[d], j) /\ FullName(T0[d], j) # call.name
    <3>1. j \in DOMAIN T0[d] /\ j # i
      BY <1>9, <2>1 DEF UsedOf
    <3> QED BY <1>16, <1>20, <2>1, <3>1 DEF WithOthers, NameNew
  <2>2. DOMAIN list2 = Plus(DOMAIN at, <<d, call.name>>) /\ \A k \in DOMAIN list2 : list2[k] = IF k = <<d, call.name>> THEN i ELSE at[k]
    BY <1>22 DEF F!WithName, Plus
  <2> QED BY <1>1, <1>5, <1>9, <1>15, <1>18, <1>20, <2>1, <2>2, AgreeAdd
<1>24. Owned(U, {})
  <2>1. Owned(T0, Building("sfn", call))
    BY <1>1, <1>3, PairSets
  <2>2. ASSUME NEW e, NEW j, <<e, j>> \in Building("sfn", call) PROVE InLong(U[e], j)
    <3>1. PICK k \in 1 .. Written("sfn", call) : <<e, j>> = <<call.dir, call.index - k>>
      BY <2>2 DEF Building
    <3>2. e = d /\ j = i - k
      BY <1>2, <3>1
    <3> QED BY <1>18, <3>2
  <2> QED BY <1>4, <1>5, <1>9, <1>10, <1>20, <2>1, <2>2, OwnedWith
<1>25. Dots(U, {}, {})
  <2>1. Dots(T0, {}, {}) /\ SubdirsThere(T0)
    BY <1>1, <1>3, PairSets, SubdirsNow
  <2> QED BY <1>4, <1>5, <1>9, <1>10, <2>1, DotsWith
<1>26. file.open => NameIs(U, file)
  <2>1. SUFFICES ASSUME file.open PROVE NameIs(U, file)
    OBVIOUS
  <2>2. file.dir \in DOMAIN T0 /\ file.index \in UsedOf(T0[file.dir]) /\ file.index \in DOMAIN T0[file.dir]
    BY <1>1, <2>1, FilePlace
  <2>3. CASE file.dir # d
    BY <1>1, <1>15, <2>1, <2>2, <2>3 DEF NameIs
  <2>4. CASE file.dir = d
    <3>1. file.index # i
      BY <1>9, <2>2, <2>4
    <3>2. FullName(U[d], file.index) = FullName(T0[d], file.index) /\ (HasLong(U[d], file.index) <=> HasLong(T0[d], file.index))
      BY <1>20, <2>2, <2>4, <3>1 DEF WithOthers
    <3> QED BY <1>1, <2>1, <2>4, <3>2 DEF NameIs
  <2> QED BY <2>3, <2>4
<1>27. PICK step, c, o, contents : step = pc' /\ c = call' /\ o = file' /\ contents = F!Contents'
  OBVIOUS
<1>28. step \in {"idle", "newdir", "copy"} /\ (o.open => NameIs(U, o)) /\ NamePhase(step, U, c, contents)
  <2>1. CASE F!Ends /\ F!openCachedEntry(d, i, ord, call.name, call.op, slot) /\ call.op \in {"write", "trunc"}
    <3>1. step = "idle"
      BY <1>27, <2>1 DEF F!Ends
    <3>2. o.dir = d /\ o.index = i /\ o.lfnOrd = ord /\ o.name = call.name
      BY <1>6, <1>27, <2>1 DEF F!openCachedEntry
    <3>3. ord = IF F!Lost(call.name) THEN LfnEntries ELSE 0
      BY <1>1, <1>11 DEF F!freeNeed
    <3>4. NameIs(U, o)
      BY <1>18, <3>2, <3>3 DEF NameIs
    <3> QED BY <3>1, <3>4, PhaseQuiet
  <2>2. CASE pc' \in {"newdir", "copy"} /\ call' = call /\ file' = file
    <3>1. step \in {"newdir", "copy"} /\ c = call /\ o = file
      BY <1>27, <2>2
    <3>2. MadeOK(U, call)
      BY <1>2, <1>6, <1>15, <1>16, <1>18 DEF MadeOK
    <3>3. NamePhase(step, U, c, contents)
      BY <3>1, <3>2 DEF NamePhase, PhaseOf
    <3> QED BY <1>26, <3>1, <3>3
  <2> QED BY <1>12, <2>1, <2>2
<1>29. NoSets(step, c)
  BY <1>28, BareSets DEF BareSteps
<1>30. NamesP(U, o, step, c, list2, contents)
  BY <1>21, <1>23, <1>24, <1>25, <1>28, <1>29 DEF NamesP, NoSets
<1>31. NamesP(T0', file', pc', call', at', F!Contents')
  BY <1>3, <1>13, <1>22, <1>27, <1>30
<1> QED BY <1>14, <1>31, NextNames

-----------------------------------------------------------------------------
(* A directory without entries goes with the entry that named it. *)
LEMMA DroppedNames ==
  ASSUME NEW T, NEW U, NEW d \in DOMAIN T, NEW i \in DOMAIN T[d], Indexed(T[d]), NEW slot, NEW x, Dropped(T, U, d, i, slot, x),
         NEW V, V = TreeWith(T, d, i, slot), NamedTree(V), NEW list, Agree(V, list), NEW loose, Owned(V, loose), LfnEntries \in Nat \ {0}
  PROVE  NamedTree(U) /\ Agree(U, list) /\ Owned(U, loose) /\ Alike(V, U) /\ d \in DOMAIN U /\ U[d] = V[d]
<1>1. /\ DOMAIN U = Minus(DOMAIN T, x) /\ x \in DOMAIN T /\ d # x /\ EmptyDir(T, x)
      /\ \A e \in DOMAIN U : U[e] = V[e]
  BY DEF Dropped
<1>2. DOMAIN V = DOMAIN T /\ \A e \in DOMAIN T : e # d => V[e] = T[e]
  BY TreeWithIs
<1>3. d \in DOMAIN U /\ U[d] = V[d]
  BY <1>1 DEF Minus
<1>4. UsedOf(V[x]) = {}
  BY <1>1, <1>2 DEF EmptyDir, UsedOf
<1>5. ASSUME NEW e \in DOMAIN V \cup DOMAIN U PROVE AlikeIn(V, U, e)
  <2>1. CASE e \in DOMAIN U
    <3>1. e \in DOMAIN V /\ U[e] = V[e]
      BY <1>1, <1>2, <2>1 DEF Minus
    <3>2. UsedOf(U[e]) = UsedOf(V[e]) /\ SameNames(V[e], U[e])
      BY <3>1 DEF SameNames
    <3> QED BY <2>1, <3>1, <3>2 DEF AlikeIn
  <2>2. CASE e \notin DOMAIN U
    <3>1. e = x
      BY <1>1, <1>2, <1>5, <2>2 DEF Minus
    <3> QED BY <1>4, <2>2, <3>1 DEF AlikeIn
  <2> QED BY <2>1, <2>2
<1>6. Alike(V, U)
  BY <1>5 DEF Alike
<1>7. Owned(U, loose)
  BY <1>1, <1>2 DEF Owned, Minus
<1> QED BY <1>3, <1>6, <1>7, AlikeNames, AlikeAgree

LEMMA DroppedDots ==
  ASSUME NEW T, NEW U, NEW d \in DOMAIN T, NEW i \in DOMAIN T[d], Indexed(T[d]), NEW slot, NEW x, Dropped(T, U, d, i, slot, x),
         NEW V, V = TreeWith(T, d, i, slot), NEW moving, NEW moving2, Dots(V, {}, moving),
         \A e \in DOMAIN V : \A j \in UsedOf(V[e]) : V[e][j].kind = "subdir" =>
           V[e][j].first \in DOMAIN V /\ V[e][j].first # x /\ (<<e, j>> \in moving => <<e, j>> \in moving2)
  PROVE  Dots(U, {}, moving2)
<1>1. DOMAIN U = Minus(DOMAIN V, x) /\ \A e \in DOMAIN U : U[e] = V[e]
  BY TreeWithIs DEF Dropped
<1>2. ASSUME NEW e \in DOMAIN U, NEW j \in UsedOf(U[e]), U[e][j].kind = "subdir"
      PROVE  /\ e \in DOMAIN V /\ j \in UsedOf(V[e]) /\ V[e][j].kind = "subdir" /\ V[e][j].first = U[e][j].first
             /\ (<<e, j>> \in moving => <<e, j>> \in moving2)
             /\ U[U[e][j].first] = V[U[e][j].first]
  <2>1. e \in DOMAIN V /\ U[e] = V[e]
    BY <1>1 DEF Minus
  <2>2. PICK y : y = U[e][j].first
    OBVIOUS
  <2>3. y \in DOMAIN V /\ y # x /\ (<<e, j>> \in moving => <<e, j>> \in moving2)
    BY <1>2, <2>1, <2>2
  <2>4. U[y] = V[y]
    BY <1>1, <2>3 DEF Minus
  <2> QED BY <1>2, <2>1, <2>2, <2>3, <2>4
<1>3. DotsFrom(V, U, {}, {}, moving, moving2)
  BY <1>2 DEF DotsFrom
<1> QED BY <1>3, DotsKept

DeletedCall(c, saved) == [c EXCEPT !.saved = saved, !.order = 1, !.then = IF c.old.lfnOrd > 0 THEN "unlfn" ELSE "idle"]
LEMMA DeletedNames ==
  ASSUME F!DirectoryAssumption, NInv, F!deleteSFN, NEW d, NEW i, d = call.old.dir, i = call.old.index,
         NEW slot, slot = F!Deleted, NEW V, V = TreeWith(T0, d, i, slot), NEW u, u = call', NEW list, list = at',
         NEW loose, loose = LooseAt("data", u)
  PROVE  /\ NamedTree(V) /\ Agree(V, list) /\ Owned(V, loose) /\ Dots(V, {}, {}) /\ (file.open => NameIs(V, file))
         /\ i \in UsedOf(T0[d]) /\ (u.then = "unlfn" => LeftOK(V, u)) /\ u.then \in {"unlfn", "idle"}
         /\ u.old = call.old
<1>1. /\ IInv /\ program \in FatPrograms /\ call \in Calls /\ NamePhase(pc, T0, call, F!Contents) /\ TreeTyped(T0)
      /\ (file.open => NameIs(T0, file)) /\ NamedTree(T0) /\ LfnEntries \in Nat \ {0} /\ Agree(T0, at)
      /\ Owned(T0, LooseAt(pc, call)) /\ Dots(T0, RawAt(pc, call), MovingAt(pc, call))
  BY NamesNow, Now
<1>2. /\ pc = "del" /\ pc' = "data" /\ d \in DOMAIN T0 /\ i \in DOMAIN T0[d] /\ Indexed(T0[d])
      /\ T0[d][i].kind = (IF call.old.isDir THEN "subdir" ELSE "file")
      /\ file.open => <<file.dir, file.index>> # <<d, i>>
      /\ slot.kind = "deleted"
  BY <1>1, DeleteIs
<1>3. list = F!WithoutName(d, call.old.name) /\ u = DeletedCall(call, F!Entry(d, i))
  BY DEF F!deleteSFN, F!Goes, DeletedCall
<1>4. F!Entry(d, i) = T0[d][i]
  BY <1>1, <1>2, SizeNow
<1>5. u.old = call.old /\ u.saved = T0[d][i] /\ u.order = 1 /\ u.then = IF call.old.lfnOrd > 0 THEN "unlfn" ELSE "idle"
  BY <1>1, <1>3, <1>4 DEF DeletedCall, Calls
<1>6. i \in UsedOf(T0[d]) /\ T0[d][i].kind \notin {"lfn", "dot", "dotdot"} /\ ~F!isFatFileOrSubdir(slot) /\ slot.kind # "subdir" /\ slot.kind # "lfn"
  BY <1>2 DEF UsedOf, InUse, F!isFatFileOrSubdir
<1>7. Named(T0[d]) /\ ~InLong(T0[d], i)
  BY <1>1, <1>2, <1>6, NotInLong DEF NamedTree
<1>8. /\ DOMAIN V = DOMAIN T0 /\ (\A e \in DOMAIN T0 : e # d => V[e] = T0[e]) /\ V[d] = With(T0[d], i, slot)
      /\ DOMAIN V[d] = DOMAIN T0[d] /\ \A j \in DOMAIN T0[d] : V[d][j] = IF j = i THEN slot ELSE T0[d][j]
  BY <1>2, TreeWithIs
<1>9. Named(V[d]) /\ UsedOf(V[d]) = Minus(UsedOf(T0[d]), i) /\ WithOthers(T0[d], V[d], i)
  BY <1>1, <1>2, <1>6, <1>7, <1>8, NamedDrop
<1>10. NamedTree(V)
  BY <1>1, <1>8, <1>9 DEF NamedTree
<1>11. NameIs(T0, call.old)
  BY <1>1, <1>2 DEF NamePhase
<1>12. FullName(T0[d], i) = call.old.name /\ call.old.lfnOrd = IF HasLong(T0[d], i) THEN LfnEntries ELSE 0
  BY <1>11 DEF NameIs
<1>13. Agree(V, list)
  <2>1. ASSUME NEW j \in UsedOf(V[d]) PROVE FullName(V[d], j) = FullName(T0[d], j)
    <3>1. j \in UsedOf(T0[d]) /\ j # i /\ j \in DOMAIN T0[d]
      BY <1>9, <2>1 DEF Minus, UsedOf
    <3> QED BY <1>9, <3>1 DEF WithOthers
  <2>2. DOMAIN list = Minus(DOMAIN at, <<d, call.old.name>>) /\ \A k \in DOMAIN list : list[k] = at[k]
    BY <1>3 DEF F!WithoutName, Minus
  <2> QED BY <1>1, <1>2, <1>6, <1>8, <1>9, <1>12, <2>1, <2>2, AgreeDrop
<1>14. LooseAt("data", u) = (IF HasLong(T0[d], i) THEN {<<d, i - k>> : k \in 1 .. LfnEntries} ELSE {})
  <2>1. CASE HasLong(T0[d], i)
    <3>1. u.then = "unlfn"
      BY <1>1, <1>5, <1>12, <2>1
    <3> QED BY <1>5, <2>1, <3>1 DEF LooseAt, PhaseOf
  <2>2. CASE ~HasLong(T0[d], i)
    <3>1. u.then = "idle"
      BY <1>5, <1>12, <2>2
    <3>2. NoSets("data", u)
      BY <3>1, SyncSets DEF BareThens
    <3> QED BY <2>2, <3>2 DEF NoSets
  <2> QED BY <2>1, <2>2
<1>15. Owned(V, loose)
  <2>1. LooseAt("del", call) = {}
    BY BuildingNone DEF LooseAt, PhaseOf
  <2>2. Owned(T0, {})
    BY <1>1, <1>2, <2>1
  <2>3. ASSUME NEW j \in DOMAIN T0[d], i \in UsedOf(T0[d]) /\ HasLong(T0[d], i) /\ i - LfnEntries <= j /\ j < i PROVE <<d, j>> \in loose
    <3>1. i \in Nat /\ j \in Nat
      BY <1>2 DEF Indexed
    <3>2. i - j \in 1 .. LfnEntries /\ i - (i - j) = j
      BY <1>1, <2>3, <3>1
    <3>3. PICK k \in 1 .. LfnEntries : i - k = j
      BY <3>2
    <3> QED BY <1>14, <2>3, <3>3
  <2> QED BY <1>2, <1>6, <1>9, <2>2, <2>3, OwnedWith
<1>16. Dots(V, {}, {})
  <2>1. RawAt("del", call) = {} /\ MovingAt("del", call) = {<<d, i>>}
    BY DEF RawAt, MovingAt, PhaseOf
  <2>2. Dots(T0, {}, {<<d, i>>}) /\ SubdirsThere(T0)
    BY <1>1, <1>2, <2>1, SubdirsNow
  <2> QED BY <1>2, <1>6, <2>2, DotsWith
<1>17. file.open => NameIs(V, file)
  <2>1. SUFFICES ASSUME file.open PROVE NameIs(V, file)
    OBVIOUS
  <2>2. file.dir \in DOMAIN T0 /\ file.index \in UsedOf(T0[file.dir]) /\ file.index \in DOMAIN T0[file.dir]
    BY <1>1, <2>1, FilePlace
  <2>3. CASE file.dir # d
    BY <1>1, <1>8, <2>1, <2>2, <2>3 DEF NameIs
  <2>4. CASE file.dir = d
    <3>1. file.index # i
      BY <1>2, <2>1, <2>4
    <3>2. FullName(V[d], file.index) = FullName(T0[d], file.index) /\ (HasLong(V[d], file.index) <=> HasLong(T0[d], file.index))
      BY SMTT(60), <1>9, <2>2, <2>4, <3>1 DEF WithOthers
    <3> QED BY <1>1, <2>1, <2>4, <3>2 DEF NameIs
  <2> QED BY <2>3, <2>4
<1>18. u.then = "unlfn" => LeftOK(V, u)
  <2>1. SUFFICES ASSUME u.then = "unlfn" PROVE LeftOK(V, u)
    OBVIOUS
  <2>2. HasLong(T0[d], i)
    BY <1>5, <1>12, <2>1
  <2>3. ~InUse(V[d], i)
    BY <1>2, <1>6, <1>8 DEF InUse
  <2>4. ASSUME NEW k \in 1 .. LfnEntries PROVE LET sl == V[d][i - k] IN sl.kind = "lfn" /\ sl.order = k /\ sl.sum = T0[d][i].name
    <3>1. i >= LfnEntries /\ LET sl == T0[d][i - k] IN sl.kind = "lfn" /\ sl.order = k /\ sl.sum = T0[d][i].name
      BY <1>1, <1>6, <1>7, <2>2, LongBefore
    <3>2. LenOf(T0[d]) \in Nat /\ DOMAIN T0[d] = 0 .. LenOf(T0[d]) - 1
      BY <1>2 DEF Indexed
    <3>3. i - k \in DOMAIN T0[d] /\ i - k # i
      BY <1>1, <1>2, <3>1, <3>2
    <3> QED BY <1>8, <3>1, <3>3
  <2> QED BY <1>5, <2>3, <2>4 DEF LeftOK
<1> QED BY <1>5, <1>6, <1>10, <1>13, <1>15, <1>16, <1>17, <1>18

-----------------------------------------------------------------------------
LEMMA DeletedTree ==
  ASSUME F!DirectoryAssumption, IInv, F!deleteSFN, NEW d, NEW i, d = call.old.dir, i = call.old.index,
         NEW slot, slot = F!Deleted
  PROVE  \/ T0' = TreeWith(T0, d, i, slot)
         \/ file = F!Closed /\ \E x : Dropped(T0, T0', d, i, slot, x) /\ Sole(T0, d, i, x) /\ T0[d][i].first = x
<1>1. /\ program' = program /\ fatOnDevice' = fatOnDevice /\ fat' = fat /\ file' = file
      /\ pc = "del" /\ F!StoreEntry(d, i, slot) /\ call.op \in {"remove", "rename"}
      /\ DelOK(T0, Inside, file, call, F!Contents, fatOnDevice, fat)
      /\ d \in DOMAIN T0 /\ i \in DOMAIN T0[d] /\ Indexed(T0[d]) /\ NoneBehind(T0[d]) /\ ClearBefore(T0[d], i)
      /\ T0[d][i].kind = (IF call.old.isDir THEN "subdir" ELSE "file")
      /\ slot \in SlotType /\ slot.kind = "deleted"
  BY DeleteIs
<1>2. NoneBehind(With(T0[d], i, slot)) /\ ~F!isFatFileOrSubdir(slot) /\ slot.kind # "subdir"
  BY <1>1, NoneBehindWith DEF F!isFatFileOrSubdir
<1>3. CASE ~call.old.isDir
  <2>1. T0[d][i].kind # "subdir"
    BY <1>1, <1>3
  <2> QED BY <1>1, <1>2, <2>1, TreeStored
<1>4. CASE call.old.isDir /\ call.op = "remove"
  <2>1. PICK x : x = call.old.first
    OBVIOUS
  <2>2. T0[d][i].kind = "subdir" /\ Good(fatOnDevice) /\ TreeTyped(T0) /\ program \in FatPrograms
    BY <1>1, <1>4, Now
  <2>3. file = F!Closed /\ T0[d][i].first = x /\ Emptied(T0, F!Contents, fatOnDevice, fat, call)
    BY <1>1, <1>4, <2>1 DEF DelOK, MovedOK
  <2>4. EmptyDir(T0, x) /\ x # 0 /\ \A z \in F!ChainSet(fatOnDevice, x) : fat[z] = 0
    BY <2>1, <2>3 DEF Emptied
  <2>5. fat[x] = 0
    <3>1. x \in DOMAIN T0 /\ x \in F!Cluster
      BY <2>2, <2>4 DEF EmptyDir, TreeTyped
    <3>2. FirstOf(x) = x /\ FirstOf(x) \in F!ChainSet(fatOnDevice, x)
      BY <2>2, <2>4, <3>1, ChainSetIs DEF FirstOf
    <3> QED BY <2>4, <3>2
  <2>6. Sole(T0, d, i, x)
    <3>1. PICK b : b = <<d, i>>
      OBVIOUS
    <3>2. SUFFICES ASSUME NEW e \in DOMAIN T0, NEW j \in UsedOf(T0[e]), T0[e][j].kind = "subdir", T0[e][j].first = x,
                          <<e, j>> # b
                   PROVE  FALSE
      BY <3>1 DEF Sole
    <3>3. PICK k : k = <<e, j>>
      OBVIOUS
    <3>4. k \in Entered(T0) /\ F!At(T0, k) = T0[e][j]
      BY <3>3, EnteredIs DEF F!At
    <3>5. k \notin GoneAt(pc, call)
      BY <1>1, <3>1, <3>2, <3>3 DEF GoneAt
    <3>6. k \in DOMAIN HNow /\ HNow[k] = x
      BY <3>2, <3>4, <3>5, SubdirHolds
    <3>7. Held(fat, HNow, SNow)
      BY HeldNow
    <3>8. fat[HNow[k]] # 0
      BY <2>4, <3>6, <3>7, HeldHead
    <3> QED BY <2>5, <3>6, <3>8
  <2>7. PICK U : U = T0'
    OBVIOUS
  <2>8. Dropped(T0, U, d, i, slot, x)
    BY <1>1, <1>2, <2>2, <2>3, <2>4, <2>6, <2>7, DroppedTree
  <2> QED BY <2>3, <2>6, <2>7, <2>8
<1>5. CASE call.old.isDir /\ call.op = "rename"
  <2>1. PICK y, e, j : y = file.first /\ e = file.dir /\ j = file.index
    OBVIOUS
  <2>2. T0[d][i].kind = "subdir" /\ FileIs(T0, file) /\ file \in Objects
    BY <1>1, <1>5, Now
  <2>3. MovedOK(T0, Inside, file, call)
    BY <1>1, <1>5 DEF DelOK
  <2>4. /\ file.open /\ ~file.dirty /\ file.isDir /\ e \notin Inside /\ T0[d][i].first = y /\ <<e, j>> # <<d, i>>
    BY <1>5, <2>1, <2>3 DEF MovedOK, RenameOK
  <2>5. e \in DOMAIN T0 /\ j \in UsedOf(T0[e]) /\ T0[e][j].kind = "subdir" /\ T0[e][j].first = y
    <3>1. Object(T0, file) /\ T0[e][j].kind = "subdir" /\ T0[e][j].first = y
      BY <2>1, <2>4, OpenDir
    <3>2. e \in DOMAIN T0 /\ j \in DOMAIN T0[e]
      BY <2>1, <3>1 DEF Object, EntryIs
    <3> QED BY <3>1, <3>2 DEF UsedOf, InUse, F!isFatFileOrSubdir
  <2>6. e \notin Below(F!Contents, fat, y)
    BY <2>1, <2>4 DEF Inside
  <2> QED BY <1>1, <1>2, <2>2, <2>4, <2>5, <2>6, MovedTree
<1> QED BY <1>1, <1>3, <1>4, <1>5

LEMMA DeleteSfnNames ==
  ASSUME F!DirectoryAssumption, NInv, IInv', F!deleteSFN
  PROVE  NInv'
<1>1. IInv /\ LfnEntries \in Nat \ {0}
  BY NamesNow
<1>2. PICK d, i, slot, V, u, list, loose, o, contents, U :
        /\ d = call.old.dir /\ i = call.old.index /\ slot = F!Deleted /\ V = TreeWith(T0, d, i, slot)
        /\ u = call' /\ list = at' /\ loose = LooseAt("data", u) /\ o = file /\ contents = F!Contents' /\ U = T0'
  OBVIOUS
<1>3. /\ NamedTree(V) /\ Agree(V, list) /\ Owned(V, loose) /\ Dots(V, {}, {}) /\ (o.open => NameIs(V, o))
      /\ i \in UsedOf(T0[d]) /\ (u.then = "unlfn" => LeftOK(V, u)) /\ u.then \in {"unlfn", "idle"} /\ u.old = call.old
  BY <1>2, DeletedNames
<1>4. /\ program' = program /\ fatOnDevice' = fatOnDevice /\ file' = file
      /\ pc' = "data" /\ F!StoreEntry(d, i, slot)
      /\ d \in DOMAIN T0 /\ i \in DOMAIN T0[d] /\ Indexed(T0[d]) /\ slot \in SlotType /\ slot.kind = "deleted"
  BY <1>1, <1>2, DeleteIs
<1>5. NamedTree(F!OnDevice')
  <2>1. device' = F!Contents \/ device' = device
    BY <1>1, <1>4, EntryStored
  <2> QED BY <1>4, <2>1, DeviceNames
<1>6. RawAt("data", u) = {} /\ MovingAt("data", u) = {}
  BY <1>3 DEF RawAt, MovingAt, PhaseOf
<1>7. /\ NamedTree(U) /\ Agree(U, list) /\ Owned(U, loose) /\ Dots(U, {}, {}) /\ (o.open => NameIs(U, o))
      /\ (u.then = "unlfn" => LeftOK(U, u))
  <2>1. CASE U = V
    BY <1>3, <2>1
  <2>2. CASE file = F!Closed /\ \E x : Dropped(T0, U, d, i, slot, x) /\ Sole(T0, d, i, x) /\ T0[d][i].first = x
    <3>1. PICK x : Dropped(T0, U, d, i, slot, x) /\ Sole(T0, d, i, x) /\ T0[d][i].first = x
      BY <2>2
    <3>2. NamedTree(U) /\ Agree(U, list) /\ Owned(U, loose) /\ U[d] = V[d]
      BY <1>1, <1>2, <1>3, <1>4, <3>1, DroppedNames
    <3>3. ~o.open
      BY SMTT(60), <1>2, <2>2 DEF F!Closed
    <3>4. u.then = "unlfn" => LeftOK(U, u)
      BY <1>2, <1>3, <3>2 DEF LeftOK
    <3>5. /\ DOMAIN V = DOMAIN T0 /\ (\A e \in DOMAIN T0 : e # d => V[e] = T0[e])
          /\ DOMAIN V[d] = DOMAIN T0[d] /\ \A j \in DOMAIN T0[d] : V[d][j] = IF j = i THEN slot ELSE T0[d][j]
      BY <1>2, <1>4, TreeWithIs
    <3>6. ASSUME NEW e \in DOMAIN V, NEW j \in UsedOf(V[e]), V[e][j].kind = "subdir" PROVE V[e][j].first \in DOMAIN V /\ V[e][j].first # x
      <4>1. e # d \/ j # i
        BY <1>4, <3>5, <3>6
      <4>2. j \in DOMAIN T0[e] /\ V[e][j] = T0[e][j]
        BY <1>4, <3>5, <4>1 DEF UsedOf
      <4>3. j \in UsedOf(T0[e])
        BY <4>2 DEF UsedOf, InUse
      <4>4. T0[e][j].first \in DOMAIN T0
        BY <1>1, <3>5, <3>6, <4>2, <4>3, SubdirsNow DEF SubdirsThere
      <4> QED BY <3>1, <3>5, <3>6, <4>1, <4>2, <4>3, <4>4 DEF Sole
    <3>7. Dots(U, {}, {})
      BY <1>2, <1>3, <1>4, <3>1, <3>6, DroppedDots
    <3> QED BY <3>2, <3>3, <3>4, <3>7
  <2> QED BY <1>1, <1>2, <2>1, <2>2, DeletedTree
<1>8. NamePhase("data", U, u, contents)
  BY <1>3, <1>7 DEF NamePhase, PhaseOf
<1>9. NamesP(U, o, "data", u, list, contents)
  BY <1>2, <1>6, <1>7, <1>8 DEF NamesP
<1>10. NamesP(T0', file', pc', call', at', F!Contents')
  BY <1>2, <1>4, <1>9
<1> QED BY <1>5, <1>10, NextNames

-----------------------------------------------------------------------------
(* The first two entries of a directory, in its first sector. *)
LEMMA FirstSlots ==
  ASSUME F!DirectoryAssumption, IInv, NEW x \in DOMAIN T0, x # 0
  PROVE  /\ x \in F!Cluster /\ F!Contents[x] # F!Data /\ F!Contents[x][0] = T0[x][0] /\ F!Contents[x][1] = T0[x][1]
         /\ 0 \in DOMAIN T0[x] /\ 1 \in DOMAIN T0[x] /\ x \in F!ChainSet(fat, x)
<1>1. program \in FatPrograms /\ TreeTyped(T0) /\ T0 = F!Tree(F!Contents, fat, 0) /\ View(F!Contents, fat) /\ Good(fat)
      /\ Sectored(F!Contents)
  BY Now
<1>2. T0[x] = F!Slots(F!Contents, fat, x) /\ x \in F!Cluster \cup {0} /\ SizeOf(fat, x) \in Nat \ {0, 1}
      /\ DOMAIN T0[x] = 0 .. SizeOf(fat, x) - 1
  BY SizeNow
<1>3. x \in F!Cluster
  BY <1>2
<1>4. NoneData(F!ChainSet(fat, x), F!Contents)
  <2>1. PICK T : T = T0
    OBVIOUS
  <2>2. T = F!Tree(F!Contents, fat, 0) /\ x \in DOMAIN T
    BY <1>1, <2>1
  <2> QED BY <1>1, <2>2, TreeClosed
<1>5. FirstOf(x) = x /\ x \in F!ChainSet(fat, x)
  BY <1>1, <1>3, ChainSetIs DEF FirstOf
<1>6. F!Contents[x] # F!Data
  BY <1>4, <1>5 DEF NoneData
<1>7. 0 \in 0 .. F!EntriesPerSector - 1 /\ 1 \in 0 .. F!EntriesPerSector - 1
  BY <1>1, Setting
<1>8. /\ 0 \in 0 .. SizeOf(fat, x) - 1 /\ SectorAt(fat, x, 0) = x /\ 0 % F!EntriesPerSector = 0
      /\ 1 \in 0 .. SizeOf(fat, x) - 1 /\ SectorAt(fat, x, 1) = x /\ 1 % F!EntriesPerSector = 1
  BY <1>1, <1>3, <1>5, <1>7, FirstSector
<1>9. T0[x][0] = F!SlotIn(F!Contents[x], 0) /\ T0[x][1] = F!SlotIn(F!Contents[x], 1)
  BY <1>1, <1>2, <1>3, <1>8, SlotIs
<1> QED BY <1>2, <1>3, <1>5, <1>6, <1>8, <1>9 DEF F!SlotIn

LEMMA MovedName ==
  ASSUME F!DirectoryAssumption, program \in FatPrograms, NEW T, NEW c \in Calls, c.name \in F!Names, MadeOK(T, c), NEW f \in Objects, NEW o, o = Moved(f, c)
  PROVE  NameIs(T, o) /\ o.dir = c.dir /\ o.index = c.index
<1>1. o.dir = c.dir /\ o.index = c.index /\ o.name = c.name /\ o.lfnOrd = F!freeNeed(c.name) - 1
  BY DEF Moved, Objects
<1>2. LfnEntries \in Nat \ {0}
  BY NameKinds
<1>3. HasLong(T[c.dir], c.index) <=> F!Lost(c.name)
  <2>1. T[c.dir][c.index].name = c.sfn /\ SfnFits(c)
    BY DEF MadeOK
  <2>2. CASE F!Lost(c.name)
    BY <2>1, <2>2 DEF SfnFits, HasLong
  <2>3. CASE ~F!Lost(c.name)
    BY <2>1, <2>3, NameKinds DEF SfnFits, HasLong
  <2> QED BY <2>2, <2>3
<1>4. F!freeNeed(c.name) - 1 = IF HasLong(T[c.dir], c.index) THEN LfnEntries ELSE 0
  BY <1>2, <1>3 DEF F!freeNeed
<1>5. FullName(T[c.dir], c.index) = c.name
  BY DEF MadeOK
<1> QED BY <1>1, <1>4, <1>5 DEF NameIs

(* What rename() writes into the new entry keeps the names. *)
LEMMA CopiedNames ==
  ASSUME F!DirectoryAssumption, NInv, F!copyEntry, NEW d, NEW i, d = call.dir, i = call.index, NEW slot, slot = Copied(call),
         NEW V, V = TreeWith(T0, d, i, slot), NEW o, o = file'
  PROVE  /\ Alike(T0, V) /\ Owned(V, {}) /\ NameIs(V, o) /\ NameIs(V, file) /\ NamedTree(V) /\ Agree(V, at)
         /\ Dots(T0, {}, {}) /\ file.dir \in DOMAIN T0 /\ file.index \in UsedOf(T0[file.dir])
         /\ o.dir = d /\ o.index = i /\ i \in UsedOf(T0[d])
<1>1. /\ IInv /\ program \in FatPrograms /\ call \in Calls /\ NamePhase(pc, T0, call, F!Contents) /\ TreeTyped(T0)
      /\ (file.open => NameIs(T0, file)) /\ NamedTree(T0) /\ LfnEntries \in Nat \ {0} /\ Agree(T0, at)
      /\ Owned(T0, LooseAt(pc, call)) /\ Dots(T0, RawAt(pc, call), MovingAt(pc, call)) /\ file \in Objects
  BY NamesNow, Now
<1>2. /\ pc = "copy" /\ file' = Moved(file, call) /\ file.open /\ d \in DOMAIN T0 /\ i \in DOMAIN T0[d] /\ Indexed(T0[d])
      /\ slot \in SlotType /\ T0[d][i].kind = (IF file.isDir THEN "subdir" ELSE "file") /\ slot.kind = T0[d][i].kind
      /\ CopyOK(T0, Inside, file, call)
  BY <1>1, CopyIs
<1>3. MadeOK(T0, call) /\ call.name \in F!Names
  BY <1>1, <1>2 DEF NamePhase, PhaseOf, CopyOK, CreateOK
<1>4. slot.name = T0[d][i].name
  <2>1. slot.name = call.sfn
    BY <1>1 DEF Copied, Calls, SlotType
  <2> QED BY <1>3, <2>1 DEF MadeOK
<1>5. F!isFatFileOrSubdir(T0[d][i]) /\ F!isFatFileOrSubdir(slot) /\ T0[d][i].kind # "lfn" /\ slot.kind # "lfn"
  BY <1>2 DEF F!isFatFileOrSubdir
<1>6. i \in UsedOf(T0[d])
  BY <1>2, <1>5 DEF UsedOf, InUse
<1>7. Alike(T0, V)
  <2>1. ~InLong(T0[d], i)
    BY <1>1, <1>2, <1>5, NotInLong DEF NamedTree
  <2> QED BY <1>1, <1>2, <1>4, <1>5, <2>1, TreeAlike DEF SlotAlike
<1>8. NoSets(pc, call)
  BY <1>2, BareSets DEF BareSteps
<1>9. Owned(V, {})
  <2>1. LfnFrom(T0, V, {}, {})
    BY <1>2, <1>5, LfnWith
  <2>2. Owned(T0, {})
    BY <1>1, <1>8 DEF NoSets
  <2> QED BY <1>1, <1>7, <2>1, <2>2, OwnedKept DEF LfnFrom
<1>10. file.dir \in DOMAIN T0 /\ file.index \in UsedOf(T0[file.dir])
  BY <1>1, <1>2, FilePlace
<1>11. NameIs(V, file)
  BY <1>1, <1>2, <1>7, <1>10, AlikeFile
<1>12. NameIs(V, o) /\ o.dir = d /\ o.index = i
  <2>1. NameIs(T0, o) /\ o.dir = d /\ o.index = i
    BY <1>1, <1>2, <1>3, MovedName
  <2>2. o.dir \in DOMAIN T0 /\ o.index \in UsedOf(T0[o.dir])
    BY <1>2, <1>6, <2>1
  <2> QED BY <1>1, <1>7, <2>1, <2>2, AlikeFile
<1>13. Dots(T0, {}, {})
  BY <1>1, <1>8 DEF NoSets
<1> QED BY <1>1, <1>6, <1>7, <1>9, <1>10, <1>11, <1>12, <1>13, AlikeNames, AlikeAgree

LEMMA CopyFileNames ==
  ASSUME F!DirectoryAssumption, NInv, IInv', F!copyEntry, ~file.isDir
  PROVE  NInv'
<1>1. PICK d, i, slot, V, o, u, contents : /\ d = call.dir /\ i = call.index /\ slot = Copied(call) /\ V = TreeWith(T0, d, i, slot) /\ o = file'
                                           /\ u = call' /\ contents = F!Contents'
  OBVIOUS
<1>2. IInv /\ program \in FatPrograms
  BY NamesNow
<1>3. /\ Alike(T0, V) /\ Owned(V, {}) /\ NameIs(V, o) /\ NameIs(V, file) /\ NamedTree(V) /\ Agree(V, at) /\ Dots(T0, {}, {})
  BY <1>1, CopiedNames
<1>4. /\ program' = program /\ fatOnDevice' = fatOnDevice /\ fat' = fat /\ at' = at /\ F!StoreEntry(d, i, slot) /\ pc' = "del"
      /\ u.old = file /\ d \in DOMAIN T0 /\ i \in DOMAIN T0[d] /\ Indexed(T0[d]) /\ NoneBehind(T0[d]) /\ ClearBefore(T0[d], i)
      /\ slot \in SlotType /\ T0[d][i].kind = "file" /\ slot.kind = "file"
  <2>1. /\ program' = program /\ fatOnDevice' = fatOnDevice /\ fat' = fat /\ at' = at /\ F!StoreEntry(d, i, slot)
        /\ pc' = (IF file.isDir THEN "dotdot" ELSE "del")
        /\ u.old = file /\ d \in DOMAIN T0 /\ i \in DOMAIN T0[d] /\ Indexed(T0[d]) /\ NoneBehind(T0[d]) /\ ClearBefore(T0[d], i)
    BY <1>1, <1>2, CopyIs
  <2>2. slot \in SlotType /\ T0[d][i].kind = (IF file.isDir THEN "subdir" ELSE "file") /\ slot.kind = T0[d][i].kind
    BY <1>1, <1>2, CopyIs
  <2> QED BY <2>1, <2>2
<1>5. NoneBehind(With(T0[d], i, slot))
  BY <1>4, NoneBehindWith
<1>6. T0' = V
  BY <1>1, <1>2, <1>4, <1>5, TreeStored
<1>7. NamedTree(F!OnDevice')
  <2>1. device' = F!Contents \/ device' = device
    BY <1>2, <1>4, EntryStored
  <2> QED BY <1>4, <2>1, DeviceNames
<1>8. RawAt("del", u) = {} /\ LooseAt("del", u) = {}
  BY BuildingNone DEF RawAt, LooseAt, PhaseOf
<1>9. Dots(V, {}, MovingAt("del", u))
  <2>1. SubdirsThere(T0) /\ T0[d][i].kind \notin {"dot", "dotdot"} /\ slot.kind # "subdir"
    BY <1>2, <1>4, SubdirsNow
  <2> QED BY <1>1, <1>3, <1>4, <2>1, DotsWith
<1>10. NamePhase("del", V, u, contents)
  BY <1>3, <1>4 DEF NamePhase, PhaseOf
<1>11. NamesP(V, o, "del", u, at, contents)
  BY <1>3, <1>8, <1>9, <1>10 DEF NamesP
<1>12. NamesP(T0', file', pc', call', at', F!Contents')
  BY <1>1, <1>4, <1>6, <1>11
<1> QED BY <1>7, <1>12, NextNames

-----------------------------------------------------------------------------
LEMMA CopyDirNames ==
  ASSUME F!DirectoryAssumption, NInv, IInv', F!copyEntry, file.isDir
  PROVE  NInv'
<1>1. PICK d, i, slot, x, y, V, U, o, u, contents :
        /\ d = call.dir /\ i = call.index /\ slot = Copied(call) /\ x = call.first /\ y = file.first
        /\ V = TreeWith(T0, d, i, slot) /\ U = T0' /\ o = file' /\ u = call' /\ contents = F!Contents'
  OBVIOUS
<1>2. IInv /\ program \in FatPrograms /\ LfnEntries \in Nat \ {0} /\ FileIs(T0, file) /\ file \in Objects
  BY NamesNow, Now
<1>3. /\ Alike(T0, V) /\ Owned(V, {}) /\ NameIs(V, o) /\ NameIs(V, file) /\ NamedTree(V) /\ Agree(V, at) /\ Dots(T0, {}, {})
      /\ o.dir = d /\ o.index = i /\ i \in UsedOf(T0[d])
      /\ file.dir \in DOMAIN T0 /\ file.index \in UsedOf(T0[file.dir])
  BY <1>1, CopiedNames
<1>4. /\ program' = program /\ fatOnDevice' = fatOnDevice /\ fat' = fat /\ at' = at /\ F!StoreEntry(d, i, slot) /\ pc' = "dotdot"
      /\ u.old = file /\ u.dir = d /\ u.index = i /\ u.first = x
  <2>1. /\ program' = program /\ fatOnDevice' = fatOnDevice /\ fat' = fat /\ at' = at /\ F!StoreEntry(d, i, slot)
        /\ pc' = (IF file.isDir THEN "dotdot" ELSE "del")
        /\ u.old = file /\ u.dir = d /\ u.index = i /\ u.first = x
    BY ZenonT(60), <1>1, <1>2, CopyIs
  <2> QED BY <2>1
<1>5. /\ d \in DOMAIN T0 /\ i \in DOMAIN T0[d] /\ Indexed(T0[d]) /\ NoneBehind(T0[d]) /\ ClearBefore(T0[d], i)
      /\ slot \in SlotType /\ slot.kind = "subdir" /\ slot.first = y
      /\ T0[d][i].kind = "subdir" /\ T0[d][i].first = x
  <2>1. /\ d \in DOMAIN T0 /\ i \in DOMAIN T0[d] /\ Indexed(T0[d]) /\ NoneBehind(T0[d]) /\ ClearBefore(T0[d], i)
        /\ slot \in SlotType /\ slot.kind = T0[d][i].kind /\ slot.first = y
    BY ZenonT(60), <1>1, <1>2, CopyIs
  <2>2. T0[d][i].kind = "subdir" /\ T0[d][i].first = x
    BY ZenonT(60), <1>1, <1>2, CopyObject
  <2> QED BY <2>1, <2>2
<1>6. /\ x # 0 /\ x # y /\ EmptyDir(T0, x) /\ x \in DOMAIN T0 /\ d # x /\ y \in DOMAIN T0 /\ y # 0 /\ d \notin Inside
      /\ Sole(T0, d, i, x)
  BY ZenonT(60), <1>1, <1>2, CopyDirNow
<1>7. NoneBehind(With(T0[d], i, slot))
  BY <1>5, NoneBehindWith
<1>8. Dropped(T0, U, d, i, slot, x)
  BY <1>1, <1>2, <1>4, <1>5, <1>6, <1>7, DroppedTree
<1>9. NamedTree(U) /\ Agree(U, at) /\ Owned(U, {}) /\ Alike(V, U) /\ U[d] = V[d]
  BY <1>1, <1>2, <1>3, <1>5, <1>8, DroppedNames
<1>10. /\ DOMAIN V = DOMAIN T0 /\ (\A e \in DOMAIN T0 : e # d => V[e] = T0[e])
       /\ DOMAIN V[d] = DOMAIN T0[d] /\ \A j \in DOMAIN T0[d] : V[d][j] = IF j = i THEN slot ELSE T0[d][j]
  BY <1>1, <1>5, TreeWithIs
<1>11. DOMAIN U = Minus(DOMAIN T0, x) /\ \A e \in DOMAIN U : U[e] = V[e]
  BY <1>1, <1>8 DEF Dropped
<1>12. NameIs(U, o)
  BY <1>3, <1>9 DEF NameIs
<1>13. file.dir # x
  BY <1>3, <1>6 DEF EmptyDir, UsedOf
<1>14. NameIs(U, file)
  <2>1. file.dir \in DOMAIN U
    BY <1>3, <1>11, <1>13 DEF Minus
  <2> QED BY <1>3, <1>11, <2>1 DEF NameIs
<1>15. d # y
  <2>1. y \in Inside
    <3>1. y \in F!Cluster \cup {0}
      BY <1>1, <1>2 DEF Objects
    <3>2. Inside = Below(F!Contents, fat, y)
      BY <1>1 DEF Inside
    <3>3. Good(fat) /\ Sectored(F!Contents)
      BY <1>2, Now
    <3> QED BY <1>2, <3>1, <3>2, <3>3, BelowIs
  <2> QED BY <1>6, <2>1
<1>16. T0[file.dir][file.index].kind = "subdir" /\ T0[file.dir][file.index].first = y
  <2>1. file.open /\ ~file.dirty /\ Object(T0, file)
    BY <1>1, <1>2, CopyObject
  <2> QED BY <1>1, <1>2, <2>1, FilePlace DEF Object
<1>17. ASSUME NEW z \in DOMAIN T0, z # x, T0[z][0].kind = "dot", T0[z][1].kind = "dotdot", 0 \in DOMAIN T0[z], 1 \in DOMAIN T0[z]
       PROVE  U[z][0] = T0[z][0] /\ U[z][1] = T0[z][1]
  <2>1. U[z] = V[z]
    BY <1>11, <1>17 DEF Minus
  <2>2. CASE z # d
    BY <1>10, <2>1, <2>2
  <2>3. CASE z = d
    <3>1. i # 0 /\ i # 1
      BY <1>5, <1>17, <2>3
    <3> QED BY <1>10, <1>17, <2>1, <2>3, <3>1
  <2> QED BY <2>2, <2>3
<1>18. Dots(U, {}, {<<d, i>>})
  <2>1. SUFFICES ASSUME NEW e \in DOMAIN U, NEW j \in UsedOf(U[e]), U[e][j].kind = "subdir", NEW z, z = U[e][j].first
                 PROVE  /\ U[z][0].kind = "dot" /\ U[z][0].first = z /\ U[z][1].kind = "dotdot"
                        /\ <<e, j>> \in {<<d, i>>} \/ U[z][1].first = e
    BY DEF Dots, DotHead
  <2>2. e \in DOMAIN T0 /\ U[e] = V[e]
    BY <1>11 DEF Minus
  <2>3. CASE e = d /\ j = i
    <3>1. z = y
      BY <1>5, <1>10, <2>1, <2>2, <2>3
    <3>2. T0[y][0].kind = "dot" /\ T0[y][0].first = y /\ T0[y][1].kind = "dotdot"
      BY <1>3, <1>16 DEF Dots, DotHead
    <3>3. 0 \in DOMAIN T0[y] /\ 1 \in DOMAIN T0[y]
      BY <1>2, <1>6, FirstSlots
    <3>4. U[y][0] = T0[y][0] /\ U[y][1] = T0[y][1]
      BY <1>6, <1>17, <3>2, <3>3
    <3> QED BY <2>3, <3>1, <3>2, <3>4
  <2>4. CASE ~(e = d /\ j = i)
    <3>1. j \in DOMAIN T0[e] /\ U[e][j] = T0[e][j]
      BY <1>10, <2>2, <2>4 DEF UsedOf
    <3>2. j \in UsedOf(T0[e]) /\ T0[e][j].kind = "subdir" /\ T0[e][j].first = z
      BY <2>1, <3>1 DEF UsedOf, InUse
    <3>3. z # x
      BY <1>8, <2>2, <2>4, <3>2, <1>6 DEF Sole
    <3>4. z \in DOMAIN T0 /\ 0 \in DOMAIN T0[z] /\ 1 \in DOMAIN T0[z]
      BY <1>2, <2>2, <3>2, SubdirsNow DEF SubdirsThere
    <3>5. T0[z][0].kind = "dot" /\ T0[z][0].first = z /\ T0[z][1].kind = "dotdot" /\ T0[z][1].first = e
      BY <1>3, <2>2, <3>2 DEF Dots, DotHead
    <3>6. U[z][0] = T0[z][0] /\ U[z][1] = T0[z][1]
      BY <1>17, <3>3, <3>4, <3>5
    <3> QED BY <3>5, <3>6
  <2> QED BY <2>3, <2>4
<1>19. contents[x][1].first = d
  <2>1. T0[x][1].first = d
    BY <1>3, <1>5 DEF Dots
  <2>2. F!Contents[x][1] = T0[x][1] /\ x \in F!Cluster /\ x \in F!ChainSet(fat, x)
    BY <1>2, <1>6, FirstSlots
  <2>3. F!ChainSet(fat, d) \cap F!ChainSet(fat, x) = {}
    BY <1>2, <1>5, <1>6, DirsApart
  <2>4. contents[x] = F!Contents[x]
    BY <1>1, <1>2, <1>4, <1>5, <2>2, <2>3, EntryStored
  <2> QED BY <2>1, <2>2, <2>4
<1>20. NamedTree(F!OnDevice')
  <2>1. device' = F!Contents \/ device' = device
    BY <1>2, <1>4, <1>5, EntryStored
  <2> QED BY <1>4, <2>1, DeviceNames
<1>21. RawAt("dotdot", u) = {} /\ LooseAt("dotdot", u) = {} /\ MovingAt("dotdot", u) = {<<d, i>>}
  BY <1>4, BuildingNone DEF RawAt, LooseAt, PhaseOf, MovingAt
<1>22. NamePhase("dotdot", U, u, contents)
  BY <1>4, <1>14, <1>19 DEF NamePhase, PhaseOf
<1>23. NamesP(U, o, "dotdot", u, at, contents)
  BY <1>9, <1>12, <1>18, <1>21, <1>22 DEF NamesP
<1>24. NamesP(T0', file', pc', call', at', F!Contents')
  BY <1>1, <1>4, <1>23
<1> QED BY <1>20, <1>24, NextNames

-----------------------------------------------------------------------------
(* newEntry: the new directory is without entries. *)
LEMMA AddedAlike ==
  ASSUME NEW T, NEW U, NEW d \in DOMAIN T, NEW i \in DOMAIN T[d], NEW slot, NEW x, Added(T, U, d, i, slot, x),
         NEW V, V = TreeWith(T, d, i, slot), Alike(T, V)
  PROVE  Alike(T, U)
<1>1. DOMAIN U = Plus(DOMAIN T, x) /\ x \notin DOMAIN T /\ (\A e \in DOMAIN T : U[e] = V[e]) /\ AllFree(U[x])
  BY DEF Added
<1>2. DOMAIN V = DOMAIN T
  BY DEF TreeWith
<1>3. UsedOf(U[x]) = {}
  BY <1>1 DEF AllFree, UsedOf, InUse, F!isFatFileOrSubdir, F!Free, F!Slot
<1>4. ASSUME NEW e \in DOMAIN T \cup DOMAIN U PROVE AlikeIn(T, U, e)
  <2>1. CASE e \in DOMAIN T
    <3>1. e \in DOMAIN U /\ U[e] = V[e] /\ e \in DOMAIN V
      BY <1>1, <1>2, <2>1 DEF Plus
    <3>2. AlikeIn(T, V, e)
      BY <2>1 DEF Alike
    <3> QED BY <2>1, <3>1, <3>2 DEF AlikeIn
  <2>2. CASE e \notin DOMAIN T
    <3>1. e = x
      BY <1>1, <1>4, <2>2 DEF Plus
    <3> QED BY <1>3, <2>2, <3>1 DEF AlikeIn
  <2> QED BY <2>1, <2>2
<1> QED BY <1>4 DEF Alike

LEMMA NewEntryNames ==
  ASSUME F!DirectoryAssumption, NInv, IInv', F!newEntry
  PROVE  NInv'
<1>1. /\ IInv /\ program \in FatPrograms /\ call \in Calls /\ NamePhase(pc, T0, call, F!Contents) /\ TreeTyped(T0) /\ FileIs(T0, file)
      /\ (file.open => NameIs(T0, file)) /\ NamedTree(T0) /\ LfnEntries \in Nat \ {0} /\ Good(fat)
      /\ Dots(T0, RawAt(pc, call), MovingAt(pc, call)) /\ PhaseOK(pc, T0, Inside, file, call, F!Contents, fatOnDevice, fat, m_sector)
  BY NamesNow, Now
<1>2. PICK d, i, x, slot, V, U, u, contents :
        /\ d = call.dir /\ i = call.index /\ x = call.first /\ slot = F!ShortEntry("subdir", call.sfn, call.first)
        /\ V = TreeWith(T0, d, i, slot) /\ U = T0' /\ u = call' /\ contents = F!Contents'
  OBVIOUS
<1>3. /\ program' = program /\ fatOnDevice' = fatOnDevice /\ fat' = fat /\ file' = file /\ at' = at /\ pc = "newentry"
      /\ F!StoreEntry(d, i, slot) /\ pc' = "data" /\ u = WithThen(call, "dots")
  BY <1>2 DEF F!newEntry, F!history, F!Goes, WithThen
<1>4. /\ NewdirOK(T0, Inside, file, call) /\ x \in F!Cluster \ DOMAIN T0 /\ F!Contents[x] = F!Zeroed /\ fat[x] = EOC
  BY <1>1, <1>2, <1>3, PhaseIs DEF NewentryOK
<1>5. x # 0 /\ x # rootDirStart
  <2>1. fat[x] # 0 /\ 0 \notin F!Cluster
    BY <1>1, <1>4, Setting
  <2>2. x = PendingAt(pc, call) /\ pc # "del" /\ x # 0
    BY <2>1, <1>2, <1>3, <1>4 DEF PendingAt
  <2>3. x \notin F!ChainSet(fat, 0) /\ 0 \in DOMAIN T0
    BY <2>2, <1>1, PendingIs DEF TreeTyped
  <2>4. rootDirStart \in F!ChainSet(fat, 0)
    BY <1>1, ChainSetIs DEF FirstOf
  <2> QED BY <2>2, <2>3, <2>4
<1>6. /\ d \in DOMAIN T0 /\ i \in DOMAIN T0[d] /\ T0[d][i].kind = "file" /\ Indexed(T0[d])
  BY <1>1, <1>2, <1>4 DEF NewdirOK, CreateOK, MadeIs, TreeTyped
<1>7. slot \in SlotType /\ slot.kind = "subdir" /\ slot.first = x /\ slot.name = call.sfn
  <2>1. call.sfn \in ShortNames \cup F!LongSfns /\ call.sfn \in Name /\ Basis \in Name /\ 0 \in 0 .. LfnEntries
    BY <1>1, Setting DEF Calls, Name
  <2> QED BY <2>1, <1>2, <1>4, <1>5 DEF F!ShortEntry, F!Slot, SlotType, Kinds, F!isFatFileOrSubdir
<1>8. u.then = "dots" /\ u.dir = d /\ u.name = call.name /\ u.index = i /\ u.first = x /\ u.sfn = call.sfn
  BY <1>1, <1>2, <1>3 DEF WithThen, Calls
<1>9. Added(T0, U, d, i, slot, x)
  <2>1. x = PendingAt(pc, call) /\ pc # "del"
    BY <1>2, <1>3 DEF PendingAt
  <2> QED BY <2>1, <1>1, <1>2, <1>3, <1>4, <1>5, <1>6, <1>7, AddedTree
<1>10. MadeOK(T0, call)
  BY <1>1, <1>3 DEF NamePhase, PhaseOf
<1>11. F!isFatFileOrSubdir(T0[d][i]) /\ F!isFatFileOrSubdir(slot) /\ T0[d][i].kind # "lfn" /\ slot.kind # "lfn" /\ slot.name = T0[d][i].name
       /\ i \in UsedOf(T0[d])
  BY <1>2, <1>6, <1>7, <1>10 DEF F!isFatFileOrSubdir, MadeOK, UsedOf, InUse
<1>12. Alike(T0, V)
  <2>1. ~InLong(T0[d], i)
    BY <1>1, <1>6, <1>11, NotInLong DEF NamedTree
  <2> QED BY <1>1, <1>2, <1>6, <1>11, <2>1, TreeAlike DEF SlotAlike
<1>13. Alike(T0, U)
  BY <1>2, <1>6, <1>9, <1>12, AddedAlike
<1>14. DOMAIN U = Plus(DOMAIN T0, x) /\ x \notin DOMAIN T0 /\ (\A e \in DOMAIN T0 : U[e] = V[e]) /\ AllFree(U[x])
  BY <1>2, <1>9 DEF Added
<1>15. /\ DOMAIN V = DOMAIN T0 /\ (\A e \in DOMAIN T0 : e # d => V[e] = T0[e])
       /\ DOMAIN V[d] = DOMAIN T0[d] /\ \A j \in DOMAIN T0[d] : V[d][j] = IF j = i THEN slot ELSE T0[d][j]
  BY <1>2, <1>6, TreeWithIs
<1>16. UsedOf(U[x]) = {} /\ \A j \in DOMAIN U[x] : U[x][j].kind = "free"
  BY <1>14 DEF AllFree, UsedOf, InUse, F!isFatFileOrSubdir, F!Free, F!Slot
<1>17. NoSets(pc, call)
  BY <1>3, BareSets DEF BareSteps
<1>18. LooseAt("data", u) = {} /\ RawAt("data", u) = {x} /\ MovingAt("data", u) = {}
  BY <1>8, BuildingNone DEF LooseAt, RawAt, MovingAt, PhaseOf
<1>19. LfnFrom(T0, U, {}, {})
  <2>1. ASSUME NEW e \in DOMAIN U, NEW j \in DOMAIN U[e], U[e][j].kind = "lfn" PROVE e \in DOMAIN T0 /\ j \in DOMAIN T0[e] /\ T0[e][j].kind = "lfn"
    <3>1. e # x
      BY <1>16, <2>1
    <3>2. e \in DOMAIN T0 /\ U[e] = V[e]
      BY <1>14, <3>1 DEF Plus
    <3> QED BY <1>11, <1>15, <2>1, <3>2
  <2> QED BY <2>1 DEF LfnFrom
<1>20. Dots(U, {x}, {})
  <2>1. Dots(T0, {}, {}) /\ SubdirsThere(T0)
    BY <1>1, <1>17, SubdirsNow DEF NoSets
  <2>2. DotsAgree(T0, U)
    <3>1. ASSUME NEW e \in DOMAIN T0, 0 \in DOMAIN T0[e], 1 \in DOMAIN T0[e], T0[e][0].kind = "dot", T0[e][1].kind = "dotdot"
          PROVE  U[e][0] = T0[e][0] /\ U[e][1] = T0[e][1]
      <4>1. U[e] = V[e]
        BY <1>14
      <4>2. CASE e # d
        BY <1>15, <4>1, <4>2
      <4>3. CASE e = d
        <5>1. i # 0 /\ i # 1
          BY <1>6, <3>1, <4>3
        <5> QED BY <1>15, <3>1, <4>1, <4>3, <5>1
      <4> QED BY <4>2, <4>3
    <3> QED BY <3>1 DEF DotsAgree
  <2>3. ASSUME NEW e \in DOMAIN U, NEW j \in UsedOf(U[e]), U[e][j].kind = "subdir", U[e][j].first \notin {x}
        PROVE  e \in DOMAIN T0 /\ j \in UsedOf(T0[e]) /\ T0[e][j].kind = "subdir" /\ T0[e][j].first = U[e][j].first
    <3>1. e # x
      BY <1>16, <2>3
    <3>2. e \in DOMAIN T0 /\ U[e] = V[e]
      BY <1>14, <3>1 DEF Plus
    <3>3. ~(e = d /\ j = i)
      BY <1>6, <1>7, <1>15, <2>3, <3>2
    <3>4. j \in DOMAIN T0[e] /\ U[e][j] = T0[e][j]
      BY <1>15, <3>2, <3>3 DEF UsedOf
    <3> QED BY <2>3, <3>2, <3>4 DEF UsedOf, InUse
  <2> QED BY <2>1, <2>2, <2>3, DotsSlots
<1>21. file.open => NameIs(U, file)
  BY <1>1, <1>13, FilePlace, AlikeFile
<1>22. MadeOK(U, u)
  <2>1. FullName(U[d], i) = FullName(T0[d], i) /\ U[d][i].name = T0[d][i].name
    BY <1>1, <1>6, <1>11, <1>13, AlikeNames
  <2> QED BY <1>2, <1>8, <1>10, <2>1 DEF MadeOK, SfnFits
<1>23. NamePhase("data", U, u, contents)
  BY <1>8, <1>22 DEF NamePhase, PhaseOf
<1>24. NamedTree(F!OnDevice')
  <2>1. device' = F!Contents \/ device' = device
    BY <1>1, <1>3, <1>6, <1>7, EntryStored
  <2> QED BY <1>3, <2>1, DeviceNames
<1>25. LfnFrom(T0, U, LooseAt(pc, call), LooseAt(pc', call')) /\ Dots(U, RawAt(pc', call'), MovingAt(pc', call'))
       /\ NamePhase(pc', U, call', F!Contents')
  BY <1>2, <1>3, <1>17, <1>18, <1>19, <1>20, <1>23 DEF NoSets
<1> QED BY <1>2, <1>3, <1>13, <1>21, <1>24, <1>25, AlikeStep

-----------------------------------------------------------------------------
(* newDots: the first two slots of the new directory. *)
LEMMA TreeFirst ==
  ASSUME F!DirectoryAssumption, program \in FatPrograms, NEW c, Sectored(c), NEW l, Good(l), View(c, l), NEW T, T = F!Tree(c, l, 0),
         NEW x \in DOMAIN T, x \in F!Cluster
  PROVE  c[x] # F!Data /\ c[x][0] = T[x][0] /\ c[x][1] = T[x][1]
<1>1. T[x] = F!Slots(c, l, x) /\ NoneData(F!ChainSet(l, x), c)
  BY TreeClosed
<1>2. FirstOf(x) = x /\ x \in F!ChainSet(l, x)
  <2>1. x # 0
    BY Setting
  <2> QED BY <2>1, ChainSetIs DEF FirstOf
<1>3. c[x] # F!Data
  BY <1>1, <1>2 DEF NoneData
<1>4. 0 \in 0 .. F!EntriesPerSector - 1 /\ 1 \in 0 .. F!EntriesPerSector - 1
  BY Setting
<1>5. /\ 0 \in 0 .. SizeOf(l, x) - 1 /\ SectorAt(l, x, 0) = x /\ 0 % F!EntriesPerSector = 0
      /\ 1 \in 0 .. SizeOf(l, x) - 1 /\ SectorAt(l, x, 1) = x /\ 1 % F!EntriesPerSector = 1
  BY <1>2, <1>4, FirstSector
<1>6. T[x][0] = F!SlotIn(c[x], 0) /\ T[x][1] = F!SlotIn(c[x], 1)
  BY <1>1, <1>5, SlotIs
<1> QED BY <1>3, <1>5, <1>6 DEF F!SlotIn

LEMMA DottedSlots ==
  ASSUME F!DirectoryAssumption, IInv, IInv', program' = program, NEW x \in DOMAIN T0, x # 0, x \in DOMAIN T0',
         NEW s0 \in SlotType, NEW s1 \in SlotType, F!Store(x, [F!Contents[x] EXCEPT ![0] = s0, ![1] = s1])
  PROVE  T0'[x][0] = s0 /\ T0'[x][1] = s1
<1>1. program \in FatPrograms /\ Sectored(F!Contents)
  BY Now
<1>2. x \in F!Cluster /\ F!Contents[x] # F!Data
  BY FirstSlots
<1>3. 0 \in 0 .. F!EntriesPerSector - 1 /\ 1 \in 0 .. F!EntriesPerSector - 1
  BY <1>1, Setting
<1>4. PICK content : content = Twice(F!Contents[x], s0, s1)
  OBVIOUS
<1>5. F!Contents[x] \in DirSector
  BY <1>1, <1>2 DEF Sectored
<1>6. content \in DirSector /\ content[0] = s0 /\ content[1] = s1
  <2>1. PICK f : f = F!Contents[x]
    OBVIOUS
  <2>2. f \in [0 .. F!EntriesPerSector - 1 -> SlotType]
    BY <1>5, <2>1 DEF DirSector
  <2>3. content = [f EXCEPT ![0] = s0, ![1] = s1]
    BY <1>4, <2>1 DEF Twice
  <2>4. content \in [0 .. F!EntriesPerSector - 1 -> SlotType]
    BY <1>3, <2>2, <2>3
  <2>5. content[0] = s0 /\ content[1] = s1
    BY <1>3, <2>2, <2>3
  <2> QED BY <2>4, <2>5 DEF DirSector
<1>7. VolumeNext /\ F!Contents' = [F!Contents EXCEPT ![x] = content]
  BY <1>2, <1>4, <1>6, StoreIs DEF Twice
<1>8. F!Contents'[x] = content
  BY <1>1, <1>2, <1>7 DEF Sectored
<1>9. View(F!Contents', fat') /\ Good(fat')
  <2>1. (View(F!Contents, fat) /\ Good(fat))'
    BY Now, PTL
  <2> QED BY <2>1, PrimedView, PrimedGood
<1>10. T0' = F!Tree(F!Contents', fat', 0)
  BY PrimedTree
<1>11. PICK c, l, T : c = F!Contents' /\ l = fat' /\ T = T0'
  OBVIOUS
<1>12. /\ Sectored(c) /\ Good(l) /\ View(c, l) /\ T = F!Tree(c, l, 0) /\ x \in DOMAIN T
  BY <1>7, <1>9, <1>10, <1>11 DEF VolumeNext
<1>13. c[x][0] = T[x][0] /\ c[x][1] = T[x][1]
  BY <1>1, <1>2, <1>12, TreeFirst
<1> QED BY <1>6, <1>8, <1>11, <1>13

-----------------------------------------------------------------------------
LEMMA DottedAlike ==
  ASSUME NEW T, NEW U, NEW x, Dotted(T, U, x), 0 \in DOMAIN T[x], 1 \in DOMAIN T[x]
  PROVE  Alike(T, U) /\ LfnFrom(T, U, {}, {}) /\ UsedOf(U[x]) = {}
<1>1. /\ DOMAIN U = DOMAIN T /\ (\A e \in DOMAIN T : e # x => U[e] = T[e])
      /\ DOMAIN U[x] = DOMAIN T[x] /\ U[x][0].kind = "dot" /\ U[x][1].kind = "dotdot"
      /\ \A j \in DOMAIN T[x] : j # 0 /\ j # 1 => U[x][j] = T[x][j]
  BY DEF Dotted
<1>2. UsedOf(T[x]) = {} /\ UsedOf(U[x]) = {}
  BY DEF Dotted, EmptyDir, UsedOf
<1>3. ASSUME NEW e \in DOMAIN T \cup DOMAIN U PROVE AlikeIn(T, U, e)
  <2>1. CASE e = x
    BY <1>1, <1>2, <2>1 DEF AlikeIn, SameNames
  <2>2. CASE e # x
    <3>1. U[e] = T[e] /\ e \in DOMAIN T /\ e \in DOMAIN U
      BY <1>1, <1>3, <2>2
    <3>2. UsedOf(U[e]) = UsedOf(T[e]) /\ SameNames(T[e], U[e])
      BY <3>1 DEF SameNames
    <3> QED BY <3>1, <3>2 DEF AlikeIn
  <2> QED BY <2>1, <2>2
<1>4. ASSUME NEW e \in DOMAIN U, NEW j \in DOMAIN U[e], U[e][j].kind = "lfn"
      PROVE  e \in DOMAIN T /\ j \in DOMAIN T[e] /\ T[e][j].kind = "lfn"
  <2>1. CASE e = x
    <3>1. j # 0 /\ j # 1
      BY <1>1, <1>4, <2>1
    <3> QED BY <1>1, <1>4, <2>1, <3>1
  <2>2. CASE e # x
    BY <1>1, <1>4, <2>2
  <2> QED BY <2>1, <2>2
<1> QED BY <1>2, <1>3, <1>4 DEF Alike, LfnFrom

LEMMA NewDotsNames ==
  ASSUME F!DirectoryAssumption, NInv, IInv', F!newDots
  PROVE  NInv'
<1>0. /\ IInv /\ program \in FatPrograms /\ call \in Calls /\ NamePhase(pc, T0, call, F!Contents) /\ TreeTyped(T0) /\ FileIs(T0, file)
      /\ (file.open => NameIs(T0, file)) /\ NamedTree(T0) /\ LfnEntries \in Nat \ {0}
      /\ Dots(T0, RawAt(pc, call), MovingAt(pc, call)) /\ PhaseOK(pc, T0, Inside, file, call, F!Contents, fatOnDevice, fat, m_sector)
  BY NamesNow, Now
<1>1. PICK d, i, x, s0, s1, then : /\ d = call.dir /\ i = call.index /\ x = call.first
                             /\ s0 = F!Slot("dot", Basis, 0, Basis, call.first)
                             /\ s1 = F!Slot("dotdot", Basis, 0, Basis, call.dir) /\ then = (IF call.op = "mkdir" THEN "idle" ELSE "copy")
  OBVIOUS
<1>2. /\ program' = program /\ fatOnDevice' = fatOnDevice /\ fat' = fat /\ file' = file /\ at' = at /\ pc = "dots"
      /\ F!Store(x, [F!Contents[x] EXCEPT ![0] = s0, ![1] = s1]) /\ pc' = "data" /\ call' = WithThen(call, then)
  BY <1>1 DEF F!newDots, F!history, F!Goes, WithThen
<1>3. DotsOK(T0, Inside, file, call)
  BY <1>0, <1>2, PhaseIs
<1>4. /\ MadeIs(T0, file, call, "subdir", x) /\ EmptyDir(T0, x) /\ x # 0 /\ x \in DOMAIN T0 /\ d \in DOMAIN T0
      /\ i \in UsedOf(T0[d]) /\ T0[d][i].kind = "subdir" /\ T0[d][i].first = x
  BY <1>1, <1>3 DEF DotsOK, CreateOK, MadeIs, EmptyDir, UsedOf, InUse, F!isFatFileOrSubdir
<1>5. s0 \in SlotType /\ s1 \in SlotType /\ s0.kind = "dot" /\ s1.kind = "dotdot" /\ s0.first = x /\ s1.first = d
  <2>1. Basis \in Name /\ 0 \in 0 .. LfnEntries /\ x \in F!Cluster \cup {0} /\ call.dir \in F!Cluster \cup {0}
    BY <1>0, <1>1, Setting DEF Calls, Name
  <2> QED BY <2>1, <1>1 DEF F!Slot, SlotType, Kinds, F!isFatFileOrSubdir
<1>6. PICK U, u, contents : U = T0' /\ u = call' /\ contents = F!Contents' /\ u = WithThen(call, then)
  BY <1>2
<1>7. u \in Calls /\ u.then = then /\ u.dir = call.dir /\ u.name = call.name /\ u.index = call.index /\ u.sfn = call.sfn
  <2>1. then \in Steps
    BY <1>1 DEF Steps
  <2> QED BY <2>1, <1>0, <1>6 DEF WithThen, Calls
<1>8. Dotted(T0, U, x) /\ (device' = F!Contents \/ device' = device)
  <2>1. pc # "del"
    BY <1>2
  <2> QED BY <2>1, <1>0, <1>2, <1>4, <1>5, <1>6, DottedTree
<1>9. DOMAIN U = DOMAIN T0 /\ \A e \in DOMAIN T0 : e # x => U[e] = T0[e]
  BY <1>8 DEF Dotted
<1>10. U[x][0] = s0 /\ U[x][1] = s1
  BY <1>0, <1>2, <1>4, <1>5, <1>6, <1>9, DottedSlots
<1>11. Alike(T0, U) /\ LfnFrom(T0, U, {}, {}) /\ UsedOf(U[x]) = {}
  BY <1>0, <1>4, <1>8, FirstSlots, DottedAlike
<1>12. LooseAt(pc, call) = {} /\ RawAt(pc, call) = {x} /\ MovingAt(pc, call) = {} /\ GoneAt(pc, call) = {}
  BY <1>1, <1>2, BuildingNone DEF GoneAt, LooseAt, RawAt, MovingAt, PhaseOf
<1>13. NoSets("data", u) /\ PhaseOf("data", u) = then
  <2>1. u.then \in BareThens
    BY <1>1, <1>7 DEF BareThens
  <2>2. NoSets("data", u)
    BY <2>1, SyncSets
  <2>3. PhaseOf("data", u) = u.then
    BY DEF PhaseOf
  <2> QED BY <2>2, <2>3, <1>7
<1>14. Dots(U, {}, {})
  <2>1. SUFFICES ASSUME NEW e \in DOMAIN U, NEW j \in UsedOf(U[e]), U[e][j].kind = "subdir", NEW z, z = U[e][j].first
                 PROVE  U[z][0].kind = "dot" /\ U[z][0].first = z /\ U[z][1].kind = "dotdot" /\ U[z][1].first = e
    BY DEF Dots, DotHead
  <2>2. e # x /\ e \in DOMAIN T0 /\ U[e] = T0[e] /\ j \in UsedOf(T0[e]) /\ T0[e][j].kind = "subdir" /\ T0[e][j].first = z
    BY <1>9, <1>11, <2>1
  <2>3. CASE z = x
    <3>1. e = d /\ j = i
      <4>1. Sole(T0, d, i, x)
        BY <1>0, <1>4, <1>12, SoleNow
      <4> QED BY <2>2, <2>3, <4>1 DEF Sole
    <3> QED BY <2>3, <3>1, <1>5, <1>10
  <2>4. CASE z # x
    <3>1. z \in DOMAIN T0
      BY <1>0, <2>2, SubdirsNow DEF SubdirsThere
    <3>2. T0[z][0].kind = "dot" /\ T0[z][0].first = z /\ T0[z][1].kind = "dotdot" /\ T0[z][1].first = e
      BY <1>0, <1>12, <2>2, <2>4 DEF Dots, DotHead
    <3> QED BY <1>9, <2>4, <3>1, <3>2
  <2> QED BY <2>3, <2>4
<1>15. file.open => NameIs(U, file)
  BY <1>0, <1>11, FilePlace, AlikeFile
<1>16. MadeOK(U, u)
  <2>1. MadeOK(T0, call)
    BY <1>0, <1>2 DEF NamePhase, PhaseOf
  <2>2. d # x
    BY <1>4 DEF EmptyDir, UsedOf
  <2>3. U[d] = T0[d]
    BY <1>4, <1>9, <2>2
  <2> QED BY <1>1, <1>7, <2>1, <2>3 DEF MadeOK, SfnFits
<1>17. NamePhase("data", U, u, contents)
  <2>1. PhaseOf("data", u) \notin {"unlfn"}
    BY <1>1, <1>13
  <2> QED BY <2>1, <1>16 DEF NamePhase
<1>18. NamedTree(F!OnDevice')
  BY <1>2, <1>8, DeviceNames
<1>19. LfnFrom(T0, U, LooseAt(pc, call), LooseAt(pc', call')) /\ Dots(U, RawAt(pc', call'), MovingAt(pc', call'))
       /\ NamePhase(pc', U, call', F!Contents')
  BY <1>2, <1>6, <1>11, <1>12, <1>13, <1>14, <1>17 DEF NoSets
<1> QED BY <1>2, <1>6, <1>11, <1>15, <1>18, <1>19, AlikeStep

-----------------------------------------------------------------------------
(* moveDotDot: both the old and the new entry name the directory. *)
LEMMA TwoEntries ==
  ASSUME F!DirectoryAssumption, IInv, MovedOK(T0, Inside, file, call), file.isDir, pc = "dotdot",
         NEW k \in Entered(T0), F!At(T0, k).kind = "subdir", F!At(T0, k).first = file.first, file.first # 0
  PROVE  k = <<call.dir, call.index>> \/ k = <<call.old.dir, call.old.index>>
<1>1. PICK a, b : a = <<call.old.dir, call.old.index>> /\ b = <<call.dir, call.index>>
  OBVIOUS
<1>2. SUFFICES ASSUME k # a PROVE k = b
  BY <1>1
<1>3. GoneAt(pc, call) = {a}
  BY <1>1 DEF GoneAt
<1>4. file.open /\ file.dir = call.dir /\ file.index = call.index /\ b # a /\ ~file.dirty
  BY <1>1 DEF MovedOK
<1>5. /\ file.dir \in DOMAIN T0 /\ file.index \in UsedOf(T0[file.dir]) /\ Object(T0, file)
      /\ T0[file.dir][file.index].kind = "subdir"
  BY <1>4, FilePlace
<1>6. b \in Entered(T0) /\ F!At(T0, b).kind = "subdir" /\ F!At(T0, b).first = file.first
  <2>1. b[1] = file.dir /\ b[2] = file.index
    BY <1>1, <1>4
  <2> QED BY <1>1, <1>4, <1>5, <2>1, EnteredIs DEF Object, F!At
<1>7. k \in DOMAIN HNow /\ HNow[k] = file.first
  BY <1>2, <1>3, SubdirHolds
<1>8. b \in DOMAIN HNow /\ HNow[b] = file.first
  BY <1>3, <1>4, <1>6, SubdirHolds
<1>9. Held(fat, HNow, SNow)
  BY HeldNow
<1> QED BY <1>7, <1>8, <1>9 DEF Held

LEMMA MoveDotDotNames ==
  ASSUME F!DirectoryAssumption, NInv, IInv', F!moveDotDot
  PROVE  NInv'
<1>0. /\ IInv /\ program \in FatPrograms /\ file \in Objects /\ FileIs(T0, file) /\ TreeTyped(T0)
      /\ NamedTree(T0) /\ LfnEntries \in Nat \ {0} /\ (file.open => NameIs(T0, file))
      /\ Dots(T0, RawAt(pc, call), MovingAt(pc, call)) /\ NamePhase(pc, T0, call, F!Contents)
  BY NamesNow, Now
<1>1. PICK x, y, slot, d, i, old : x = call.first /\ y = file.first /\ slot = F!DotDot /\ d = call.dir /\ i = call.index /\ old = call.old
  OBVIOUS
<1>2. /\ program' = program /\ fatOnDevice' = fatOnDevice /\ file' = file /\ at' = at
      /\ pc = "dotdot" /\ pc' = "del" /\ call' = call /\ MovedOK(T0, Inside, file, call)
      /\ file.open /\ file.isDir /\ y \in DOMAIN T0 /\ y # 0
  BY <1>0, <1>1, DotDotNow
<1>3. /\ x \in F!Cluster /\ x # rootDirStart /\ x \notin Targets(fat) /\ fat[x] # 0
      /\ (\A e \in DOMAIN T0 : x \notin F!ChainSet(fat, e)) /\ fat' = Freed(fat, x)
  BY <1>0, <1>1, DotDotNow
<1>4. DotKinds(T0, {}) /\ slot \in SlotType /\ slot.kind = "dotdot" /\ F!StoreEntry(y, 1, slot)
  BY <1>0, <1>1, DotDotNow
<1>5. \A e \in DOMAIN T0 : 0 \in DOMAIN T0[e] /\ 1 \in DOMAIN T0[e] /\ Indexed(T0[e]) /\ NoneBehind(T0[e])
  BY <1>0 DEF TreeTyped, DirSlots
<1>6. 1 \in DOMAIN T0[y] /\ T0[y][1].kind = "dotdot" /\ Indexed(T0[y]) /\ NoneBehind(T0[y])
  BY <1>2, <1>4, <1>5 DEF DotKinds
<1>7. ~F!isFatFileOrSubdir(slot) /\ ~F!isFatFileOrSubdir(T0[y][1])
  BY <1>4, <1>6 DEF F!isFatFileOrSubdir
<1>8. NoneBehind(With(T0[y], 1, slot))
  <2>1. ClearBefore(T0[y], 1)
    BY <1>6, UsedClear
  <2> QED BY <1>4, <1>6, <2>1, NoneBehindWith
<1>9. PICK U : U = T0'
  OBVIOUS
<1>10. U = TreeWith(T0, y, 1, slot)
  <2>1. T0[y][1].kind # "subdir" /\ slot.kind # "subdir" /\ pc # "del"
    BY <1>2, <1>4, <1>6
  <2> QED BY <2>1, <1>0, <1>2, <1>3, <1>4, <1>6, <1>8, <1>9, FreedTree
<1>11. /\ DOMAIN U = DOMAIN T0 /\ (\A e \in DOMAIN T0 : DOMAIN U[e] = DOMAIN T0[e])
       /\ \A e \in DOMAIN T0 : \A j \in DOMAIN T0[e] : U[e][j] = IF e = y /\ j = 1 THEN slot ELSE T0[e][j]
  BY <1>2, <1>6, <1>10, TreeWithIs
<1>12. Alike(T0, U)
  <2>1. ~InLong(T0[y], 1)
    <3>1. T0[y][1].kind # "lfn" /\ Named(T0[y])
      BY <1>0, <1>2, <1>6 DEF NamedTree
    <3> QED BY <1>0, <1>6, <3>1, NotInLong
  <2> QED BY <1>0, <1>2, <1>6, <1>7, <1>10, <2>1, TreeAlike DEF SlotAlike
<1>13. LooseAt("dotdot", call) = {} /\ LooseAt("del", call) = {} /\ RawAt("dotdot", call) = {} /\ RawAt("del", call) = {}
       /\ MovingAt("dotdot", call) = {<<d, i>>} /\ MovingAt("del", call) = {<<old.dir, old.index>>}
  BY <1>1, BuildingNone DEF LooseAt, RawAt, MovingAt, PhaseOf
<1>26. Dots(T0, {}, {<<d, i>>})
  BY <1>0, <1>2, <1>13
<1>14. LfnFrom(T0, U, {}, {})
  <2>1. PICK loose : loose = {}
    OBVIOUS
  <2>2. LfnFrom(T0, U, loose, loose)
    BY <1>2, <1>4, <1>6, <1>10, <2>1, LfnWith
  <2> QED BY <2>1, <2>2
<1>15. slot.first = d
  BY <1>0, <1>1, <1>2 DEF NamePhase, F!DotDot
<1>16. /\ file.dir = d /\ file.index = i /\ old.isDir = file.isDir /\ old.first = y /\ OldIs(T0, call)
       /\ T0[old.dir][old.index].first = y /\ ~file.dirty
  BY <1>1, <1>2 DEF MovedOK
<1>17. d \in DOMAIN T0 /\ i \in UsedOf(T0[d]) /\ T0[d][i].kind = "subdir" /\ T0[d][i].first = y
  <2>1. /\ file.dir \in DOMAIN T0 /\ file.index \in UsedOf(T0[file.dir]) /\ Object(T0, file)
        /\ T0[file.dir][file.index].kind = "subdir"
    BY <1>0, <1>2, FilePlace
  <2> QED BY <1>1, <1>16, <2>1 DEF Object
<1>18. T0[y][0].kind = "dot" /\ T0[y][0].first = y
  BY <1>17, <1>26 DEF Dots, DotHead
<1>19. Dots(U, {}, {<<old.dir, old.index>>})
  <2>1. SUFFICES ASSUME NEW e \in DOMAIN U, NEW j \in UsedOf(U[e]), U[e][j].kind = "subdir", NEW z, z = U[e][j].first
                 PROVE  /\ U[z][0].kind = "dot" /\ U[z][0].first = z /\ U[z][1].kind = "dotdot"
                        /\ <<e, j>> \in {<<old.dir, old.index>>} \/ U[z][1].first = e
    BY DEF Dots, DotHead
  <2>2. e \in DOMAIN T0 /\ j \in UsedOf(T0[e]) /\ T0[e][j].kind = "subdir" /\ T0[e][j].first = z
    <3>1. e \in DOMAIN T0 /\ j \in DOMAIN T0[e]
      BY <1>11, <2>1 DEF UsedOf
    <3>2. ~(e = y /\ j = 1)
      BY <1>4, <1>11, <2>1, <3>1
    <3> QED BY <1>11, <2>1, <3>1, <3>2 DEF UsedOf, InUse
  <2>3. z \in DOMAIN T0
    BY <1>0, <2>2, SubdirsNow DEF SubdirsThere
  <2>4. CASE z = y
    <3>1. PICK k : k = <<e, j>>
      OBVIOUS
    <3>2. k[1] = e /\ k[2] = j
      BY <3>1
    <3>3. k \in Entered(T0) /\ F!At(T0, k).kind = "subdir" /\ F!At(T0, k).first = y
      BY <2>2, <2>4, <3>1, <3>2, EnteredIs DEF F!At
    <3>4. <<e, j>> = <<d, i>> \/ <<e, j>> = <<old.dir, old.index>>
      BY <1>0, <1>1, <1>2, <3>1, <3>3, TwoEntries
    <3>5. U[y][0] = T0[y][0] /\ U[y][1] = slot
      BY <1>2, <1>5, <1>11
    <3> QED BY <1>4, <1>15, <1>18, <2>4, <3>4, <3>5
  <2>5. CASE z # y
    <3>1. U[z][0] = T0[z][0] /\ U[z][1] = T0[z][1]
      BY <1>5, <1>11, <2>3, <2>5
    <3>2. <<e, j>> # <<d, i>>
      BY <1>17, <2>2, <2>5
    <3>3. T0[z][0].kind = "dot" /\ T0[z][0].first = z /\ T0[z][1].kind = "dotdot" /\ T0[z][1].first = e
      BY <1>26, <2>2, <3>2 DEF Dots, DotHead
    <3> QED BY <3>1, <3>3
  <2> QED BY <2>4, <2>5
<1>20. NameIs(U, file)
  BY <1>0, <1>2, <1>12, FilePlace, AlikeFile
<1>21. NameIs(U, old)
  <2>1. NameIs(T0, old)
    BY <1>0, <1>1, <1>2 DEF NamePhase
  <2>2. old.dir \in DOMAIN T0 /\ old.index \in UsedOf(T0[old.dir])
    BY <1>1, <1>16 DEF OldIs, EntryIs, UsedOf, InUse, F!isFatFileOrSubdir
  <2> QED BY <1>0, <1>12, <2>1, <2>2, AlikeFile
<1>22. PICK contents : contents = F!Contents'
  OBVIOUS
<1>23. NamePhase("del", U, call, contents)
  BY <1>1, <1>21 DEF NamePhase, PhaseOf
<1>24. NamedTree(F!OnDevice')
  <2>1. device' = F!Contents \/ device' = device
    BY <1>0, <1>2, <1>4, <1>6, EntryStored
  <2> QED BY <1>2, <2>1, DeviceNames
<1>25. LfnFrom(T0, U, LooseAt(pc, call), LooseAt(pc', call')) /\ Dots(U, RawAt(pc', call'), MovingAt(pc', call'))
       /\ NamePhase(pc', U, call', F!Contents') /\ (file'.open => NameIs(U, file'))
  BY <1>2, <1>13, <1>14, <1>19, <1>20, <1>22, <1>23
<1> QED BY <1>2, <1>9, <1>12, <1>24, <1>25, AlikeStep

-----------------------------------------------------------------------------
(* restart: what an intact volume has. *)
LEMMA IntactOwned ==
  ASSUME NEW T, TreeTyped(T), F!NoOrphans(T)
  PROVE  Owned(T, {})
<1>1. SUFFICES ASSUME NEW d \in DOMAIN T, NEW i \in DOMAIN T[d], T[d][i].kind = "lfn" PROVE InLong(T[d], i)
  BY DEF Owned
<1>2. PICK j \in F!Live(T[d]) : i \in F!LongNameOf(T, <<d, j>>)
  BY <1>1 DEF F!NoOrphans
<1>3. j \in UsedOf(T[d])
  BY <1>2 DEF F!Live, UsedOf, InUse
<1>4. PICK e : e = <<d, j>>
  OBVIOUS
<1>5. e[1] = d /\ e[2] = j
  BY <1>4
<1>6. /\ j - LfnEntries <= i /\ i < j
      /\ T[d][i] = F!Slot("lfn", T[d][j - 1].name, j - i, T[d][j].name, 0)
  BY <1>2, <1>4, <1>5 DEF F!LongNameOf
<1>7. T[d][i].sum = T[d][j].name
  BY <1>6 DEF F!Slot
<1>8. T[d][i] \in SlotType
  BY <1>1 DEF TreeTyped, DirSlots
<1>9. HasLong(T[d], j)
  BY <1>1, <1>7, <1>8 DEF SlotType, HasLong
<1> QED BY <1>3, <1>6, <1>9 DEF InLong

LEMMA NameOfIs ==
  ASSUME NEW T, NEW e
  PROVE  F!NameOf(T, e) = FullName(T[e[1]], e[2])
BY DEF F!NameOf, FullName, HasLong, F!At

LEMMA ListedAgree ==
  ASSUME NEW T, TreeTyped(T), NamedTree(T), NEW list, list = F!Listed(T)
  PROVE  Agree(T, list)
<1> DEFINE Entry1(k) == CHOOSE e \in F!EntriesOf(T) : e[1] = k[1] /\ F!NameOf(T, e) = k[2]
           Keys == {<<e[1], F!NameOf(T, e)>> : e \in F!EntriesOf(T)}
<1>1. DOMAIN list = Keys /\ \A k \in Keys : list[k] = Entry1(k)[2]
  BY DEF F!Listed
<1>2. ASSUME NEW k \in Keys PROVE \E e \in F!EntriesOf(T) : Entry1(k) = e /\ e[1] = k[1] /\ F!NameOf(T, e) = k[2] /\ k = <<k[1], k[2]>>
  <2>1. PICK e \in F!EntriesOf(T) : k = <<e[1], F!NameOf(T, e)>>
    BY <1>2
  <2>2. e[1] = k[1] /\ F!NameOf(T, e) = k[2] /\ k = <<k[1], k[2]>>
    BY <2>1
  <2>3. Entry1(k) \in F!EntriesOf(T) /\ Entry1(k)[1] = k[1] /\ F!NameOf(T, Entry1(k)) = k[2]
    BY <2>2
  <2> QED BY <2>2, <2>3
<1>3. \A e \in F!EntriesOf(T) : <<e[1], F!NameOf(T, e)>> \in Keys
  OBVIOUS
<1> HIDE DEF Entry1, Keys
<1>4. F!EntriesOf(T) = Entered(T)
  BY EntriesOfIs DEF TreeTyped
<1>5. ASSUME NEW k \in Keys
      PROVE  k = <<k[1], k[2]>> /\ k[1] \in DOMAIN T /\ list[k] \in UsedOf(T[k[1]]) /\ FullName(T[k[1]], list[k]) = k[2]
  <2>1. PICK e \in F!EntriesOf(T) : Entry1(k) = e /\ e[1] = k[1] /\ F!NameOf(T, e) = k[2] /\ k = <<k[1], k[2]>>
    BY <1>2
  <2>2. e[1] \in DOMAIN T /\ e[2] \in UsedOf(T[e[1]])
    BY <1>4, <2>1, EnteredIs
  <2>3. list[k] = e[2]
    BY <1>1, <2>1
  <2> QED BY <2>1, <2>2, <2>3, NameOfIs
<1>6. ASSUME NEW d \in DOMAIN T, NEW i \in UsedOf(T[d])
      PROVE  <<d, FullName(T[d], i)>> \in Keys /\ list[<<d, FullName(T[d], i)>>] = i
  <2>1. PICK e, k : e = <<d, i>> /\ k = <<d, FullName(T[d], i)>>
    OBVIOUS
  <2>2. e[1] = d /\ e[2] = i /\ k[1] = d /\ k[2] = FullName(T[d], i)
    BY <2>1
  <2>3. e \in F!EntriesOf(T)
    BY <1>4, <2>1, <2>2, EnteredIs
  <2>4. k \in Keys
    BY <1>3, <2>1, <2>2, <2>3, NameOfIs
  <2>5. list[k] \in UsedOf(T[d]) /\ FullName(T[d], list[k]) = FullName(T[d], i)
    BY <1>5, <2>2, <2>4
  <2>6. list[k] = i
    BY SMTT(60), <2>5 DEF NamedTree, Named
  <2> QED BY <2>1, <2>4, <2>6
<1> QED BY <1>1, <1>5, <1>6 DEF Agree

LEMMA IntactDotted ==
  ASSUME NEW T, TreeTyped(T), F!DotsOf(T)
  PROVE  Dots(T, {}, {})
<1>1. SUFFICES ASSUME NEW d \in DOMAIN T, NEW i \in UsedOf(T[d]), T[d][i].kind = "subdir", NEW x, x = T[d][i].first
               PROVE  T[x][0].kind = "dot" /\ T[x][0].first = x /\ T[x][1].kind = "dotdot" /\ T[x][1].first = d
  BY DEF Dots, DotHead
<1>2. PICK e : e = <<d, i>>
  OBVIOUS
<1>3. e[1] = d /\ e[2] = i
  BY <1>2
<1>4. e \in F!EntriesOf(T)
  BY <1>1, <1>2, <1>3, EnteredIs, EntriesOfIs DEF TreeTyped
<1> QED BY <1>1, <1>3, <1>4 DEF F!DotsOf, F!At

LEMMA RestartIntactNames ==
  ASSUME F!DirectoryAssumption, NInv, IInv', program' = program, F!Clean, file' = F!Closed, pc' = "idle", call' = F!NoCall,
         NEW T, T = F!OnDevice, F!Intact(T, fatOnDevice), fat' = fatOnDevice, at' = F!Listed(T),
         UNCHANGED <<device, fatOnDevice, kept>>
  PROVE  NInv'
<1>0. /\ program \in FatPrograms /\ Sectored(device) /\ View(device, fatOnDevice)
  BY NamesNow, Now DEF DeviceP
<1>1. device' = device /\ fatOnDevice' = fatOnDevice /\ F!Contents' = device
  BY DEF F!Clean, F!Contents
<1>2. T = F!Tree(device, fatOnDevice, 0) /\ TreeTyped(T)
  <2>1. T = F!Tree(device, fatOnDevice, 0)
    BY DEF F!OnDevice
  <2> QED BY SMTT(60), <2>1, <1>0, ViewTree
<1>3. T0' = T
  BY <1>1, <1>2, PrimedTree
<1>4. F!OnDevice' = T
  BY <1>1, <1>2, PrimedDeviceTree
<1>5. NamedTree(T)
  BY DEF NInv
<1>6. F!NoOrphans(T) /\ F!DotsOf(T)
  BY DEF F!Intact
<1>7. PICK list, contents : list = at' /\ contents = F!Contents'
  OBVIOUS
<1>8. Owned(T, {}) /\ Agree(T, list) /\ Dots(T, {}, {})
  BY <1>2, <1>5, <1>6, <1>7, IntactOwned, ListedAgree, IntactDotted
<1>9. NoSets("idle", F!NoCall) /\ NamePhase("idle", T, F!NoCall, contents)
  BY BareSets, PhaseQuiet DEF BareSteps
<1>10. NamesP(T, F!Closed, "idle", F!NoCall, list, contents)
  BY <1>5, <1>8, <1>9 DEF NamesP, NoSets, F!Closed
<1>11. NamesP(T0', file', pc', call', at', F!Contents')
  BY <1>3, <1>7, <1>10
<1>12. NamedTree(F!OnDevice')
  BY <1>4, <1>5
<1> QED BY <1>11, <1>12, NextNames

LEMMA InitNames ==
  ASSUME F!DirectoryAssumption, F!Init
  PROVE  NInv
<1>1. program \in FatPrograms /\ device = Formatted /\ fat = FormattedFat /\ fatOnDevice = fat
      /\ m_sector = 0 /\ file = F!Closed /\ pc = "idle" /\ call = F!NoCall /\ at = <<>> /\ F!Contents = device
  BY DEF F!Init, Formatted, FormattedFat, F!Contents
<1>2. PICK l, dev, T, contents : l = fat /\ dev = device /\ T = T0 /\ contents = F!Contents
  OBVIOUS
<1>3. T = F!Tree(dev, l, 0) /\ F!OnDevice = T
  BY <1>1, <1>2 DEF T0, F!InProgram, F!OnDevice
<1>4. Sectored(dev) /\ View(dev, l) /\ DOMAIN T = {0} /\ \A i \in DOMAIN F!Slots(dev, l, 0) : F!Slots(dev, l, 0)[i] = F!Free
  BY <1>1, <1>2, <1>3, FormattedIs DEF Below
<1>5. T[0] = F!Slots(dev, l, 0)
  BY <1>1, <1>3, <1>4, TreeClosed
<1>6. \A i \in DOMAIN T[0] : T[0][i].kind = "free"
  BY <1>4, <1>5 DEF F!Free, F!Slot
<1>7. UsedOf(T[0]) = {}
  BY <1>6 DEF UsedOf, InUse, F!isFatFileOrSubdir
<1>8. NamedTree(T)
  BY <1>4, <1>7, NamedNone DEF NamedTree
<1>9. Owned(T, {})
  BY <1>4, <1>6 DEF Owned
<1>10. Dots(T, {}, {})
  BY <1>4, <1>7 DEF Dots
<1>11. Agree(T, <<>>)
  <2>1. DOMAIN <<>> = {}
    OBVIOUS
  <2> QED BY <2>1, <1>4, <1>7 DEF Agree
<1>12. NoSets("idle", F!NoCall) /\ NamePhase("idle", T, F!NoCall, contents)
  BY BareSets, PhaseQuiet DEF BareSteps
<1>13. NamesP(T, F!Closed, "idle", F!NoCall, <<>>, contents)
  BY <1>8, <1>9, <1>10, <1>11, <1>12 DEF NamesP, NoSets, F!Closed
<1> QED BY <1>1, <1>2, <1>3, <1>8, <1>13, InitHolds DEF NInv

LEMMA InitMeansNames == F!DirectoryAssumption /\ F!Init => NInv
BY InitNames

LEMMA RestartNames ==
  ASSUME F!DirectoryAssumption, NInv, IInv', F!restart
  PROVE  NInv'
<1>0. program \in FatPrograms
  BY NamesNow
<1>1. program' = program /\ F!Clean /\ file' = F!Closed /\ pc' = "idle" /\ call' = F!NoCall
  BY DEF F!restart, F!Ends
<1>2. CASE /\ F!Intact(F!OnDevice, fatOnDevice) /\ fat' = fatOnDevice /\ at' = F!Listed(F!OnDevice)
           /\ UNCHANGED <<device, fatOnDevice, kept>>
  BY <1>1, <1>2, RestartIntactNames
<1>3. CASE /\ device' = [c \in F!Cluster |-> IF c = rootDirStart THEN F!Zeroed ELSE F!Data]
           /\ fat' = [c \in F!Cluster |-> IF c = rootDirStart THEN EOC ELSE 0]
           /\ fatOnDevice' = fat' /\ at' = <<>> /\ kept' = {}
  <2>1. F!Cluster' = F!Cluster /\ F!Zeroed' = F!Zeroed
    BY <1>1, PrimedSetting
  <2>2. F!Init'
    BY <1>0, <1>1, <1>3, <2>1 DEF F!Init, F!Clean
  <2>3. (F!DirectoryAssumption /\ F!Init => NInv)'
    BY InitMeansNames, PTL
  <2>4. F!DirectoryAssumption'
    BY DEF F!DirectoryAssumption
  <2> QED BY <2>2, <2>3, <2>4
<1> QED BY <1>2, <1>3 DEF F!restart

-----------------------------------------------------------------------------
(* Every step keeps the names. *)
LEMMA NextKeepsNames ==
  ASSUME F!DirectoryAssumption, NInv, IInv', F!Next
  PROVE  NInv'
<1>1. CASE pc = "idle" /\ \E d \in F!Directories, name \in F!Names :
                            (\E mode \in program.modes : F!open(d, name, mode)) \/ F!mkdir(d, name) \/ F!rename(d, name)
  <2>1. PICK d \in F!Directories, name \in F!Names :
          (\E mode \in program.modes : F!open(d, name, mode)) \/ F!mkdir(d, name) \/ F!rename(d, name)
    BY <1>1
  <2> QED BY <1>1, <2>1, BeginNames
<1>2. CASE F!addDirCluster \/ F!makeUniqueSfn \/ F!createLFN \/ F!createSFN
  BY <1>2, AddDirClusterNames, MakeUniqueNames, CreateLfnNames, CreateSfnNames
<1>3. CASE F!newDirectory \/ F!newEntry \/ F!newDots
  BY <1>3, NewDirectoryNames, NewEntryNames, NewDotsNames
<1>4. CASE F!syncData \/ F!syncFat \/ F!syncEntry \/ F!close \/ F!write \/ F!search
  BY <1>4, SyncDataNames, SyncFatNames, SyncEntryNames, CloseNames, WriteNames, SearchKeepsNames
<1>5. CASE F!copyEntry \/ F!moveDotDot \/ F!remove \/ F!rmdir
  BY <1>5, CopyFileNames, CopyDirNames, MoveDotDotNames, RemoveNames, RmdirNames
<1>6. CASE F!deleteSFN \/ F!deleteLFN \/ F!restart
  BY <1>6, DeleteSfnNames, DeleteLfnNames, RestartNames
<1> QED BY <1>1, <1>2, <1>3, <1>4, <1>5, <1>6 DEF F!Next

LEMMA SameNInv ==
  ASSUME F!DirectoryAssumption, NInv, IInv', UNCHANGED F!vars
  PROVE  NInv'
<1>1. /\ program' = program /\ device' = device /\ fatOnDevice' = fatOnDevice /\ fat' = fat /\ m_sector' = m_sector
      /\ m_buffer' = m_buffer /\ file' = file /\ pc' = pc /\ call' = call /\ at' = at
  BY DEF F!vars, F!volume, F!cache, F!history
<1>2. F!Contents' = F!Contents
  BY <1>1 DEF F!Contents
<1>3. T0' = T0
  BY <1>1, <1>2, PrimedTree DEF T0, F!InProgram
<1>4. F!OnDevice' = F!OnDevice
  BY <1>1, PrimedDeviceTree DEF F!OnDevice
<1>5. NamesP(T0, file, pc, call, at, F!Contents) /\ NamedTree(F!OnDevice)
  BY DEF NInv
<1>6. NamesP(T0', file', pc', call', at', F!Contents') /\ NamedTree(F!OnDevice')
  BY <1>1, <1>2, <1>3, <1>4, <1>5
<1> QED BY <1>6, NextNames

LEMMA NamesStep ==
  ASSUME F!DirectoryAssumption, NInv, [F!Next]_(F!vars)
  PROVE  NInv'
<1>1. IInv
  BY NamesNow
<1>2. IInv'
  BY <1>1, StepKeeps
<1> QED BY <1>2, NextKeepsNames, SameNInv

(* What the names mean. *)
LEMMA DeviceEntries ==
  ASSUME F!DirectoryAssumption, NInv, NEW T, T = F!OnDevice
  PROVE  NamedTree(T) /\ F!EntriesOf(T) = Entered(T) /\ TreeTyped(T) /\ LfnEntries \in Nat \ {0}
<1>1. program \in FatPrograms /\ Sectored(device) /\ View(device, fatOnDevice) /\ LfnEntries \in Nat \ {0}
  BY NamesNow, Now DEF DeviceP
<1>2. TreeTyped(T)
  BY <1>1, ViewTree DEF F!OnDevice
<1>3. F!EntriesOf(T) = Entered(T)
  BY <1>2, EntriesOfIs DEF TreeTyped
<1> QED BY <1>1, <1>2, <1>3 DEF NInv

LEMMA NInvSfnUnique ==
  ASSUME F!DirectoryAssumption, NInv
  PROVE  F!SfnUnique
<1>1. PICK T : T = F!OnDevice
  OBVIOUS
<1>2. NamedTree(T) /\ F!EntriesOf(T) = Entered(T)
  BY <1>1, DeviceEntries
<1>3. ASSUME NEW e \in F!EntriesOf(T), NEW f \in F!EntriesOf(T), e[1] = f[1], F!At(T, e).name = F!At(T, f).name
      PROVE  e = f
  <2>1. e = <<e[1], e[2]>> /\ f = <<f[1], f[2]>> /\ e[1] \in DOMAIN T /\ e[2] \in UsedOf(T[e[1]]) /\ f[2] \in UsedOf(T[f[1]])
    BY <1>2, EnteredIs
  <2>2. e[2] = f[2]
    BY <1>2, <1>3, <2>1 DEF NamedTree, Named, F!At
  <2> QED BY <1>3, <2>1, <2>2
<1> QED BY <1>1, <1>3 DEF F!SfnUnique

LEMMA NInvWholeNames ==
  ASSUME F!DirectoryAssumption, NInv
  PROVE  F!WholeNames
<1>1. PICK T : T = F!OnDevice
  OBVIOUS
<1>2. NamedTree(T) /\ F!EntriesOf(T) = Entered(T) /\ TreeTyped(T) /\ LfnEntries \in Nat \ {0}
  BY <1>1, DeviceEntries
<1>3. ASSUME NEW e \in F!EntriesOf(T), F!At(T, e).name \in F!LongSfns
      PROVE  F!LongNameOf(T, e) = e[2] - LfnEntries .. e[2] - 1
  <2>1. PICK d, j, s : d = e[1] /\ j = e[2] /\ s = T[d]
    OBVIOUS
  <2>2. d \in DOMAIN T /\ j \in UsedOf(s)
    BY <1>2, <2>1, EnteredIs
  <2>3. Named(s) /\ Indexed(s) /\ HasLong(s, j)
    BY <1>2, <1>3, <2>1, <2>2 DEF NamedTree, TreeTyped, HasLong, F!At
  <2>4. j >= LfnEntries /\ \A k \in 1 .. LfnEntries : s[j - k] = F!LongEntry(s[j - 1].name, k, s[j].name)
    BY <2>2, <2>3 DEF Named, LongAt
  <2>5. j \in Nat /\ DOMAIN s = 0 .. LenOf(s) - 1 /\ LenOf(s) \in Nat /\ j < LenOf(s)
    BY <2>2, <2>3 DEF Indexed, UsedOf
  <2>6. ASSUME NEW i \in j - LfnEntries .. j - 1
        PROVE  i \in DOMAIN s /\ s[i] = F!Slot("lfn", s[j - 1].name, j - i, s[j].name, 0)
    <3>1. PICK k : k = j - i
      OBVIOUS
    <3>2. k \in 1 .. LfnEntries /\ i = j - k /\ i \in DOMAIN s
      BY <1>2, <2>4, <2>5, <2>6, <3>1
    <3>3. s[j - k] = F!LongEntry(s[j - 1].name, k, s[j].name)
      BY <2>4, <3>2
    <3> QED BY <3>1, <3>2, <3>3 DEF F!LongEntry
  <2>7. F!LongNameOf(T, e) = {i \in DOMAIN s : j - LfnEntries <= i /\ i < j /\ s[i] = F!Slot("lfn", s[j - 1].name, j - i, s[j].name, 0)}
    BY <2>1 DEF F!LongNameOf
  <2>8. \A i \in DOMAIN s : j - LfnEntries <= i /\ i < j => i \in j - LfnEntries .. j - 1
    BY <1>2, <2>5
  <2>9. \A i \in j - LfnEntries .. j - 1 : j - LfnEntries <= i /\ i < j
    BY <1>2, <2>5
  <2> QED BY <2>1, <2>6, <2>7, <2>8, <2>9
<1> QED BY <1>1, <1>3 DEF F!WholeNames

LEMMA NInvDotDotRight ==
  ASSUME F!DirectoryAssumption, NInv
  PROVE  F!DotDotRight
<1>1. SUFFICES ASSUME pc = "idle" PROVE F!DotsOf(T0)
  BY DEF F!DotDotRight, T0
<1>2. IInv /\ Dots(T0, RawAt(pc, call), MovingAt(pc, call)) /\ TreeTyped(T0)
  BY NamesNow
<1>3. RawAt(pc, call) = {} /\ MovingAt(pc, call) = {}
  BY <1>1, BareSets DEF BareSteps, NoSets
<1>4. Dots(T0, {}, {})
  BY <1>2, <1>3
<1>5. F!EntriesOf(T0) = Entered(T0)
  BY <1>2, EntriesOfIs DEF TreeTyped
<1>6. ASSUME NEW e \in F!EntriesOf(T0), NEW x, x = F!At(T0, e).first, F!At(T0, e).kind = "subdir"
      PROVE  T0[x][0].kind = "dot" /\ T0[x][0].first = x /\ T0[x][1].kind = "dotdot" /\ T0[x][1].first = e[1]
  <2>1. e[1] \in DOMAIN T0 /\ e[2] \in UsedOf(T0[e[1]])
    BY <1>5, EnteredIs
  <2> QED BY <1>4, <1>6, <2>1 DEF Dots, DotHead, F!At
<1> QED BY <1>6 DEF F!DotsOf

LEMMA NInvLookupAgrees ==
  ASSUME F!DirectoryAssumption, NInv
  PROVE  F!LookupAgrees
<1>1. SUFFICES ASSUME pc = "idle", NEW d \in F!Directories, NEW name \in F!Names, NEW r, r = F!Search(d, name)
               PROVE  IF <<d, name>> \in DOMAIN at THEN r.at = "found" /\ r.last = at[<<d, name>>] ELSE r.at = "create"
  BY DEF F!LookupAgrees
<1>2. d \in DOMAIN T0
  BY <1>1 DEF F!Directories, T0, F!InProgram
<1>3. Agree(T0, at)
  BY NamesNow
<1>4. NamesEnded(T0[d], name, r)
  BY <1>1, <1>2, SearchNowNames
<1>5. PICK k : k = <<d, name>>
  OBVIOUS
<1>6. k[1] = d /\ k[2] = name
  BY <1>5
<1>7. CASE r.at = "found"
  <2>1. r.last \in UsedOf(T0[d]) /\ FullName(T0[d], r.last) = name
    BY <1>4, <1>7 DEF NamesEnded, NameFound
  <2>2. k \in DOMAIN at /\ at[k] = r.last
    BY <1>2, <1>3, <1>5, <2>1 DEF Agree
  <2> QED BY <1>5, <1>7, <2>2
<1>8. CASE r.at = "create"
  <2>1. NameNew(T0[d], name)
    BY <1>4, <1>8 DEF NamesEnded, NameAbsent
  <2>2. k \notin DOMAIN at
    BY <1>3, <1>6, <2>1 DEF Agree, NameNew
  <2> QED BY <1>5, <1>8, <2>2
<1>9. r.at \in {"found", "create"}
  BY <1>4 DEF NamesEnded
<1> QED BY <1>7, <1>8, <1>9

-----------------------------------------------------------------------------
(* The invariant of FsDirectory: the FAT volume's, while the volume is FAT. *)
(* begin() has found the file system before the first call, and no call    *)
(* changes which one it is.                                                *)
FatInvariant == volume \in {"fat", "exfat"} /\ (m_fVol => NInv)

LEMMA NInvIs == NInv => IInv
BY DEF NInv

LEMMA Invariant == Spec => []FatInvariant
<1>1. Init => FatInvariant
  <2>1. F!Init => NInv
    BY FatAssumption, InitMeansNames
  <2> QED BY <2>1 DEF Init, FatInvariant, m_fVol
<1>2. ASSUME FatInvariant, [Next]_vars PROVE FatInvariant'
  <2>1. CASE FatCall
    <3>1. NInv /\ F!Next /\ volume' = volume /\ volume = "fat"
      BY <1>2, <2>1 DEF FatInvariant, FatCall, m_fVol
    <3>2. NInv'
      BY <3>1, FatAssumption, NamesStep
    <3> QED BY <3>1, <3>2 DEF FatInvariant, m_fVol
  <2>2. CASE ExFatCall
    BY <2>2 DEF FatInvariant, ExFatCall, m_fVol, m_xVol
  <2>3. CASE UNCHANGED vars
    <3>1. volume' = volume /\ F!vars' = F!vars
      BY <2>3 DEF vars
    <3>2. m_fVol => NInv'
      BY <1>2, <3>1, FatAssumption, NamesStep DEF FatInvariant
    <3> QED BY <1>2, <3>1, <3>2 DEF FatInvariant, m_fVol
  <2> QED BY <1>2, <2>1, <2>2, <2>3 DEF Next
<1> QED BY <1>1, <1>2, PTL DEF Spec

(* On a FAT volume: what the caches, the open file and the calls hold is   *)
(* of the volume. No cluster number that is read from an entry or a link   *)
(* is out of range, no entry is kept by an index outside its directory,    *)
(* and a call is in one of its steps.                                      *)
THEOREM FatTypes == Spec => [](m_fVol => TypeOK)
<1>1. FatInvariant => (m_fVol => TypeOK)
  BY FatAssumption, NInvIs, IInvTypes DEF FatInvariant, TypeOK
<1> QED BY <1>1, Invariant, PTL

(* On a FAT volume no directory ever takes in a cluster or a sector that   *)
(* still holds what a file wrote: mkdir() and addDirCluster() clear it on  *)
(* the device before a link or an entry leads to it there, whatever the    *)
(* two caches have stored before the device is taken out.                  *)
THEOREM FatNoGarbage == Spec => [](m_fVol => NoGarbage)
<1>1. FatInvariant => (m_fVol => NoGarbage)
  BY FatAssumption, NInvIs, IInvNoGarbage DEF FatInvariant, NoGarbage
<1> QED BY <1>1, Invariant, PTL

(* Between two calls on a FAT volume nothing is in use behind the first    *)
(* free entry of a directory, where every search of it ends: no create,    *)
(* rename, remove or failed mkdir leaves an entry that no open() can find. *)
THEOREM FatFreeBehind == Spec => [](m_fVol => FreeBehind)
<1>1. FatInvariant => (m_fVol => FreeBehind)
  BY FatAssumption, NInvIs, IInvFreeBehind DEF FatInvariant, FreeBehind
<1> QED BY <1>1, Invariant, PTL

(* Between two calls on a FAT volume the clusters that are not free are    *)
(* those of the chains of the root, the entries and the open file: a call  *)
(* that fails halfway, a remove or a rename loses no cluster, and frees    *)
(* none that another entry leads to.                                       *)
THEOREM FatNothingLeaked == Spec => [](m_fVol => NothingLeaked)
<1>1. FatInvariant => (m_fVol => NothingLeaked)
  BY FatAssumption, NInvIs, IInvNothingLeaked DEF FatInvariant, NothingLeaked
<1> QED BY <1>1, Invariant, PTL

(* Between two calls on a FAT volume open() finds a name, at the entries it *)
(* has, exactly when a call has made it and none has removed or renamed it *)
(* since: whatever free and deleted entries are between those of other     *)
(* names, an alias that another long name has taken included.              *)
THEOREM FatLookupAgrees == Spec => [](m_fVol => LookupAgrees)
<1>1. FatInvariant => (m_fVol => LookupAgrees)
  BY FatAssumption, NInvLookupAgrees DEF FatInvariant, LookupAgrees
<1> QED BY <1>1, Invariant, PTL

(* At any moment, also halfway through a call, each file on a FAT volume   *)
(* that has a long name has every entry of it on the device, in order and  *)
(* with the checksum of the short name: createLFN() writes them before the *)
(* short entry, and remove() deletes that one first, over as many sectors  *)
(* as they take.                                                           *)
THEOREM FatWholeNames == Spec => [](m_fVol => WholeNames)
<1>1. FatInvariant => (m_fVol => WholeNames)
  BY FatAssumption, NInvWholeNames DEF FatInvariant, WholeNames
<1> QED BY <1>1, Invariant, PTL

(* At any moment no two entries of a directory on the device of a FAT      *)
(* volume have the same short name: makeUniqueSfn() looks for one that no  *)
(* entry has, and nothing comes between the search and the write.          *)
THEOREM FatSfnUnique == Spec => []SfnUnique
<1>1. FatInvariant => SfnUnique
  BY FatAssumption, NInvSfnUnique DEF FatInvariant, SfnUnique
<1> QED BY <1>1, Invariant, PTL

(* Between two calls on a FAT volume the dot entries of a directory name   *)
(* it and the directory it is in, however often it was moved.              *)
THEOREM FatDirectoriesRight == Spec => [](m_fVol => DirectoriesRight)
<1>1. FatInvariant => (m_fVol => DirectoriesRight)
  BY FatAssumption, NInvDotDotRight DEF FatInvariant, DirectoriesRight
<1> QED BY <1>1, Invariant, PTL
=============================================================================
