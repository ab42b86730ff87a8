-------------------------- MODULE FsDirectoryLemmas --------------------------
(***************************************************************************)
(* The inductive invariant IInv of the FAT half of FsDirectory, and the    *)
(* lemmas its proof rests on.  The definitions of FatDirectory are those   *)
(* of the instance F.                                                      *)
(*                                                                         *)
(* IInv says of the tree of directories T0 that the program sees (the      *)
(* cached sector and the cached FAT included):                             *)
(*   - the links of the FAT form chains no longer than a directory may be  *)
(*     (Good), and the FAT on the device is behind the cached one only in  *)
(*     links that were added, or freed while a call settles (Later);       *)
(*   - each chain in use has exactly one holder (Held): the root, an entry,*)
(*     the open file, or the directory a call is making;                   *)
(*   - behind the first free entry of a directory all are free, but for a  *)
(*     long name whose short entry is still to come (FreeTail);            *)
(*   - each directory is of sectors that were cleared, as the program and  *)
(*     as the device sees them (View), and the device has no directory     *)
(*     that the program has not (DeviceP);                                 *)
(*   - what each step of a call takes for granted about its arguments, the *)
(*     entry it has found or made and the object it works on (PhaseOK).    *)
(*                                                                         *)
(* First come the operators: chains, the changes of the FAT, the entries   *)
(* of a directory, the tree and the change of one entry, the holders, the  *)
(* device.  Then each part of IInv after a step, the steps that change no  *)
(* tree or one entry of it, the search of a directory, and the steps that  *)
(* open and grow directories (a step named s keeps IInv by sKeeps).  The   *)
(* other steps, and the names, are in FsDirectoryProofs.                   *)
(***************************************************************************)
EXTENDS FsDirectory, TLAPS, FiniteSetTheorems, WellFoundedInduction, Sequences


-----------------------------------------------------------------------------
(* The cardinality that F uses is that of the library.                     *)
LEMMA CardinalitySame ==
  ASSUME NEW S
  PROVE  (F!IsFiniteSet(S) <=> IsFiniteSet(S)) /\ F!Cardinality(S) = Cardinality(S)
<1>1. F!IsFiniteSet(S) <=> IsFiniteSet(S)
  BY Zenon DEF F!IsFiniteSet, IsFiniteSet
<1>2. F!Cardinality(S) = Cardinality(S)
  BY Zenon DEF F!Cardinality, Cardinality, F!IsFiniteSet, IsFiniteSet
<1> QED BY <1>1, <1>2

LEMMA FiniteSize ==
  ASSUME NEW S, F!IsFiniteSet(S)
  PROVE  F!Cardinality(S) \in Nat /\ (F!Cardinality(S) = 0 <=> S = {})
BY CardinalitySame, FS_CardinalityType, FS_EmptySet

LEMMA OneMore ==
  ASSUME NEW S, NEW x, F!IsFiniteSet(S)
  PROVE  F!IsFiniteSet(S \cup {x})
         /\ F!Cardinality(S \cup {x}) = IF x \in S THEN F!Cardinality(S) ELSE F!Cardinality(S) + 1
BY CardinalitySame, FS_AddElement

LEMMA OneLess ==
  ASSUME NEW S, NEW x, F!IsFiniteSet(S)
  PROVE  F!IsFiniteSet(S \ {x})
         /\ F!Cardinality(S \ {x}) = IF x \in S THEN F!Cardinality(S) - 1 ELSE F!Cardinality(S)
BY CardinalitySame, FS_RemoveElement

LEMMA OneElement ==
  ASSUME NEW x
  PROVE  F!IsFiniteSet({x}) /\ F!Cardinality({x}) = 1
BY CardinalitySame, FS_Singleton

LEMMA SmallerSet ==
  ASSUME NEW S, F!IsFiniteSet(S), NEW T \in SUBSET S
  PROVE  /\ F!IsFiniteSet(T) /\ F!Cardinality(T) <= F!Cardinality(S)
         /\ F!Cardinality(S) = F!Cardinality(T) => S = T
BY CardinalitySame, FS_Subset

LEMMA SizeBelow ==
  ASSUME NEW n \in Nat
  PROVE  F!Cardinality(0 .. n - 1) = n
BY CardinalitySame, FS_Interval

-----------------------------------------------------------------------------
(* Types of what is on the volume. *)
Kinds == {"free", "deleted", "lfn", "file", "subdir", "dot", "dotdot"}
Name == ShortNames \cup LongNames \cup F!LongSfns
Link == F!Cluster \cup {0, EOC}
SlotType ==
  {s \in [kind : Kinds, name : Name, order : 0 .. LfnEntries, sum : Name, first : F!Cluster \cup {0}] :
     /\ s.kind = "subdir" => s.first \notin {0, rootDirStart}
     /\ F!isFatFileOrSubdir(s) => s.name \in ShortNames \cup F!LongSfns
     /\ s.kind = "lfn" => s.name \in LongNames /\ s.sum \in F!LongSfns}
DirSector == [0 .. F!EntriesPerSector - 1 -> SlotType]
Sectored(contents) == contents \in [F!Cluster -> DirSector \cup {F!Data}]

(* Chains of the FAT. *)
FirstOf(d) == IF d = 0 THEN rootDirStart ELSE d
Targets(links) == {links[x] : x \in F!Cluster} \cap F!Cluster
Good(links) ==
  /\ links \in [F!Cluster -> Link]
  /\ rootDirStart \notin Targets(links) /\ links[rootDirStart] # 0
  /\ \A x, y \in F!Cluster : links[x] = links[y] /\ links[x] \in F!Cluster => x = y
  /\ \A x \in Targets(links) : links[x] # 0
  /\ \E rank \in [F!Cluster -> 1 .. F!MaxDirSectors] :
       /\ \A x \in F!Cluster : links[x] \in F!Cluster => rank[links[x]] = rank[x] + 1
       /\ \A x \in F!Cluster \ Targets(links) : rank[x] = 1
Later(onDevice, links, settling) == \A x \in F!Cluster : onDevice[x] \in F!Cluster =>
   \/ links[x] = onDevice[x]
   \/ settling /\ links[x] = 0 /\ links[onDevice[x]] = 0

SectorAt(l, d, i) == F!Chain(l, d)[i \div F!EntriesPerSector + 1]

(* Entries of a directory. *)
InUse(slots, i) == F!isFatFileOrSubdir(slots[i])
NoneBehind(slots) == \A i, j \in DOMAIN slots :
  i < j /\ slots[i].kind = "free" => slots[j].kind \in {"free", "lfn"}

(* Directories as their entries: T is a tree. *)
Below(contents, links, top) == DOMAIN F!Tree(contents, links, top)
NoneData(S, c) == \A x \in S : c[x] # F!Data
View(contents, links) ==
  \A d \in Below(contents, links, 0) :
    NoneData(F!ChainSet(links, d), contents) /\ NoneBehind(F!Slots(contents, links, d))
Entered(T) == UNION {{d} \X {i \in DOMAIN T[d] : InUse(T[d], i)} : d \in DOMAIN T}

(* Who has a chain of the FAT: the root, a directory that is made, entries. *)
RootKey == <<0, -1>>
NewKey == <<0, -2>>
HolderKeys(T, gone, new) ==
  (Entered(T) \ gone) \cup {RootKey} \cup (IF new = 0 THEN {} ELSE {NewKey})
Holder(T, o, new, k) ==
  IF k = RootKey THEN rootDirStart ELSE IF k = NewKey THEN new
  ELSE IF o.open /\ k = <<o.dir, o.index>> THEN o.first ELSE F!At(T, k).first
Holding(T, o, gone, new) == [k \in HolderKeys(T, gone, new) |-> Holder(T, o, new, k)]
Singles(T, H) == {k \in DOMAIN H \ {RootKey, NewKey} : F!At(T, k).kind = "file"}
Held(links, H, single) ==
  /\ \A k \in DOMAIN H : H[k] # 0 =>
       /\ H[k] \in F!Cluster /\ links[H[k]] # 0 /\ H[k] \notin Targets(links)
       /\ k \in single => links[H[k]] = EOC
  /\ \A k, l \in DOMAIN H : H[k] = H[l] /\ H[k] # 0 => k = l
  /\ \A c \in F!Cluster : links[c] # 0 => \E k \in DOMAIN H : H[k] # 0 /\ c \in F!ChainSet(links, H[k])

(* Behind the first free entry all are free, but for a long name that is built. *)
FreeTail(T, building) == \A d \in DOMAIN T : \A i, j \in DOMAIN T[d] :
  i < j /\ T[d][i].kind = "free" => 
     T[d][j].kind = "free" \/ (<<d, j>> \in building /\ T[d][j].kind = "lfn")
(* The first two entries of a directory are not used for names. *)
DotKinds(T, raw) == \A d \in DOMAIN T :
  d = 0 \/ d \in raw \/ (T[d][0].kind = "dot" /\ T[d][1].kind = "dotdot")

LfnOrdOK(o) == o.lfnOrd = 0 \/ (o.lfnOrd = LfnEntries /\ o.index >= LfnEntries)
EntryIs(T, o) ==
    /\ o.open /\ o.dir \in DOMAIN T /\ o.index \in DOMAIN T[o.dir]
    /\ T[o.dir][o.index].kind = (IF o.isDir THEN "subdir" ELSE "file")
Object(T, o) ==
    /\ EntryIs(T, o) /\ LfnOrdOK(o)
    /\ ~o.dirty => T[o.dir][o.index].first = o.first
    /\ o.dirty \/ o.write => ~o.isDir
FileIs(T, o) == Object(T, o) \/ o = F!Closed
Objects == [open : BOOLEAN, isDir : BOOLEAN, write : BOOLEAN, dirty : BOOLEAN, name : Name,
            dir : F!Cluster \cup {0}, index : Nat, lfnOrd : Nat, first : F!Cluster \cup {0}]

-----------------------------------------------------------------------------
(* The call that runs. *)
Steps == {"idle", "search", "grow", "lfn", "sfn", "newdir", "newentry", "dots", "copy",
          "dotdot", "del", "unlfn", "entry", "data", "fat"}
Calls == [op : F!Modes \cup {"none", "mkdir", "rename", "close", "remove"}, dir : F!Cluster \cup {0},
          name : Name, sfn : ShortNames \cup F!LongSfns, alias : BOOLEAN, index : Nat, order : Nat,
          trunc : BOOLEAN, first : F!Cluster \cup {0}, old : Objects, saved : SlotType, then : Steps]
RenameOK(B, o, c) == o.open /\ (o.isDir => c.dir \notin B)
CreateOK(T, B, o, c) ==
  /\ c.dir \in DOMAIN T /\ c.name \in F!Names /\ c.op \in {"write", "trunc", "mkdir", "rename"}
  /\ c.op \in F!Modes => ~o.open
  /\ c.op = "rename" => RenameOK(B, o, c) /\ ~o.dirty /\ c.saved = T[o.dir][o.index]
CreatesDir(o, c) == c.op = "mkdir" \/ (c.op = "rename" /\ o.isDir)

Written(step, c) ==      \* the long name entries written
  IF F!Lost(c.name) /\ step = "lfn" THEN c.order - 1
  ELSE IF F!Lost(c.name) /\ step = "sfn" THEN LfnEntries ELSE 0
Building(step, c) == {<<c.dir, c.index - k>> : k \in 1 .. Written(step, c)}
Run(slots, c, written) ==
  /\ c.index >= F!freeNeed(c.name) - 1
  /\ \A i \in DOMAIN slots :
       /\ i < c.index - (F!freeNeed(c.name) - 1) => slots[i].kind # "free"
       /\ i >= c.index - (F!freeNeed(c.name) - 1) /\ i < c.index - written =>
            slots[i].kind \in {"free", "deleted"}
       /\ i >= c.index - written /\ i < c.index => slots[i].kind = "lfn"
       /\ i = c.index => slots[i].kind \in {"free", "deleted"}

NewOK(T, B, o, c, written) == CreateOK(T, B, o, c) /\ Run(T[c.dir], c, written)
MadeIs(T, o, c, kind, first) ==
  /\ o.open => <<o.dir, o.index>> # <<c.dir, c.index>>
  /\ c.index \in DOMAIN T[c.dir] /\ c.index >= F!freeNeed(c.name) - 1
  /\ T[c.dir][c.index].kind = kind /\ T[c.dir][c.index].first = first
EmptyDir(T, d) == d \in DOMAIN T /\ \A i \in DOMAIN T[d] : ~InUse(T[d], i)

(* The old entry of rename() and remove() *)
OldIs(T, c) == EntryIs(T, c.old) /\ LfnOrdOK(c.old)
Unwritten(T, c) ==
    /\ c.op \in {"remove", "rename"}
    /\ c.old.dir \in DOMAIN T /\ c.order \in 1 .. LfnEntries
    /\ c.old.index \in DOMAIN T[c.old.dir] /\ c.old.index >= LfnEntries

(* The removed directory, whose clusters are free, as the device has it. *)
Emptied(T, contents, onDevice, links, c) ==
  LET d == c.old.first IN
  /\ EmptyDir(T, d) /\ d # 0 /\ d \notin Targets(links)
  /\ NoneData(F!ChainSet(onDevice, d), contents)
  /\ \A x \in F!ChainSet(onDevice, d) : links[x] = 0
  /\ NoneBehind(F!Slots(contents, onDevice, d))
  /\ \A i \in DOMAIN F!Slots(contents, onDevice, d) : ~InUse(F!Slots(contents, onDevice, d), i)

SyncOK(T, B, o, c) == o.open /\
   \/ c.op = "close" /\ c.then = "idle"
   \/ c.op = "rename" /\ c.then = "search" /\ c.dir \in DOMAIN T /\ c.name \in F!Names
      /\ RenameOK(B, o, c)
SearchOK(T, B, o, c) ==
  /\ c.dir \in DOMAIN T /\ c.name \in F!Names /\ c.op \in F!Modes \cup {"mkdir", "rename"}
  /\ (c.op \in F!Modes => ~o.open)
  /\ c.op = "rename" => RenameOK(B, o, c) /\ ~o.dirty
GrowOK(T, B, o, c) ==
  /\ NewOK(T, B, o, c, 0) /\ c.order = 1 /\ (c.alias => F!Lost(c.name))
  /\ (F!Lost(c.name) => c.sfn \in F!LongSfns)
  /\ c.index < F!Cardinality(DOMAIN T[c.dir]) + F!freeNeed(c.name)
LfnOK(T, B, o, c) ==
  /\ NewOK(T, B, o, c, c.order - 1) /\ c.index \in DOMAIN T[c.dir]
  /\ F!Lost(c.name) /\ c.sfn \in F!LongSfns /\ c.order \in 1 .. LfnEntries
SfnOK(T, B, o, c) ==
  /\ NewOK(T, B, o, c, Written("sfn", c)) /\ c.index \in DOMAIN T[c.dir]
NewdirOK(T, B, o, c) == CreateOK(T, B, o, c) /\ CreatesDir(o, c) /\ MadeIs(T, o, c, "file", 0)
NewentryOK(T, B, o, c, contents) ==
   NewdirOK(T, B, o, c) /\ c.first \in F!Cluster \ DOMAIN T /\ contents[c.first] = F!Zeroed
DotsOK(T, B, o, c) ==
  CreateOK(T, B, o, c) /\ CreatesDir(o, c) /\ MadeIs(T, o, c, "subdir", c.first)
  /\ EmptyDir(T, c.first) /\ c.first # 0
CopyOK(T, B, o, c) ==
  /\ CreateOK(T, B, o, c) /\ c.op = "rename"
  /\ IF o.isDir THEN MadeIs(T, o, c, "subdir", c.first) /\ EmptyDir(T, c.first) /\ c.first # 0
     ELSE MadeIs(T, o, c, "file", 0)
MovedOK(T, B, o, c) ==
  /\ c.op = "rename" /\ o.open /\ ~o.dirty /\ RenameOK(B, o, c)
  /\ OldIs(T, c) /\ c.old.isDir = o.isDir /\ c.old.first = o.first
  /\ T[c.old.dir][c.old.index].first = c.old.first
  /\ o.dir = c.dir /\ o.index = c.index /\ <<c.old.dir, c.old.index>> # <<o.dir, o.index>>
DotdotOK(T, B, o, c, contents) ==
  /\ MovedOK(T, B, o, c) /\ o.isDir /\ c.first \in F!Cluster \ DOMAIN T
  /\ contents[c.first] # F!Data /\ contents[c.first][1].kind = "dotdot"
DelOK(T, B, o, c, contents, onDevice, links) ==
  \/ MovedOK(T, B, o, c)
  \/ /\ c.op = "remove" /\ o = F!Closed /\ OldIs(T, c)
     /\ c.old.isDir => T[c.old.dir][c.old.index].first = c.old.first
                       /\ Emptied(T, contents, onDevice, links, c)

PhaseOf(step, c) == IF step \in {"data", "fat"} THEN c.then ELSE step
PendingAt(step, c) == IF step \in {"newentry", "dotdot"} THEN c.first ELSE 0
GoneAt(step, c) == IF step \in {"dotdot", "del"} THEN {<<c.old.dir, c.old.index>>} ELSE {}
RawAt(step, c) == IF PhaseOf(step, c) = "dots" THEN {c.first} ELSE {}
SettlingAt(step) == step \in {"del", "data", "fat"}
DevXAt(step, c) ==
  IF step = "data" THEN {c.old.first} ELSE IF step = "dotdot" THEN {c.first} ELSE {}

CacheTyped(sector, buffer) ==
  \/ sector = 0 /\ buffer = F!Data
  \/ sector \in F!Cluster /\ buffer \in DirSector
TypedP(dev, sector, buffer, o, c, list, ke) ==
  /\ Sectored(dev) /\ CacheTyped(sector, buffer) /\ o \in Objects /\ c \in Calls
  /\ \A k \in DOMAIN list : list[k] \in F!Index
  /\ ke \subseteq F!Cluster
LinksP(onDevice, links, step) ==
  Good(links) /\ Good(onDevice) /\ Later(onDevice, links, SettlingAt(step))
HoldsP(T, o, step, c) == Holding(T, o, GoneAt(step, c), PendingAt(step, c))
HeldP(T, links, o, step, c) ==
  Held(links, HoldsP(T, o, step, c), Singles(T, HoldsP(T, o, step, c)))
SetsP(T, step, c) == FreeTail(T, Building(step, c)) /\ DotKinds(T, RawAt(step, c))
DeviceP(dev, onDevice, T, step, c) ==
  View(dev, onDevice) /\ Below(dev, onDevice, 0) \subseteq DOMAIN T \cup DevXAt(step, c)
PhaseOK(step, T, B, o, c, contents, onDevice, links, sector) ==
  CASE step = "idle" -> c = F!NoCall
    [] step = "entry" -> SyncOK(T, B, o, c) /\ o.dirty
    [] step \in {"data", "fat"} ->
       /\ \/ SyncOK(T, B, o, c) /\ ~o.dirty
          \/ c.then = "idle" /\ c.op \in {"mkdir", "remove", "rename"}
          \/ c.then = "dots" /\ DotsOK(T, B, o, c)
          \/ c.then = "copy" /\ CopyOK(T, B, o, c)
          \/ c.then = "unlfn" /\ Unwritten(T, c)
       /\ step = "fat" => sector = 0
    [] step = "search" -> SearchOK(T, B, o, c)
    [] step = "grow" -> GrowOK(T, B, o, c)
    [] step = "lfn" -> LfnOK(T, B, o, c)
    [] step = "sfn" -> SfnOK(T, B, o, c)
    [] step = "newdir" -> NewdirOK(T, B, o, c)
    [] step = "newentry" -> NewentryOK(T, B, o, c, contents) /\ links[c.first] = EOC
    [] step = "dots" -> DotsOK(T, B, o, c)
    [] step = "copy" -> CopyOK(T, B, o, c)
    [] step = "dotdot" -> DotdotOK(T, B, o, c, contents) /\ sector = SectorAt(links, c.dir, c.index)
    [] step = "del" -> DelOK(T, B, o, c, contents, onDevice, links)
    [] step = "unlfn" -> Unwritten(T, c)
    [] OTHER -> FALSE
ContentsOf(dev, sector, buffer) == IF sector = 0 THEN dev ELSE [dev EXCEPT ![sector] = buffer]
IInvP(dev, onDevice, links, sector, buffer, o, step, c, list, ke) ==
  LET cc == ContentsOf(dev, sector, buffer)
      T == F!Tree(cc, links, 0) IN
  /\ TypedP(dev, sector, buffer, o, c, list, ke)
  /\ LinksP(onDevice, links, step)
  /\ HeldP(T, links, o, step, c)
  /\ View(cc, links)
  /\ SetsP(T, step, c)
  /\ FileIs(T, o)
  /\ PhaseOK(step, T, Below(cc, links, o.first), o, c, cc, onDevice, links, sector)
  /\ DeviceP(dev, onDevice, T, step, c)
Inside == Below(F!Contents, fat, file.first)
IInv ==
  program \in FatPrograms
  /\ IInvP(device, fatOnDevice, fat, m_sector, m_buffer, file, pc, call, at, kept)

-----------------------------------------------------------------------------
LEMMA LeastNat ==
  ASSUME NEW T, T \subseteq Nat, T # {}
  PROVE  \E i \in T : \A m \in T : i <= m
<1> DEFINE R == OpToRel(<, Nat)
<1>1. IsWellFoundedOn(R, Nat)
  BY NatLessThanWellFounded
<1> HIDE DEF R
<1>2. PICK i \in T : \A m \in T : <<m, i>> \notin R
  BY <1>1, WFMin
<1>3. ASSUME NEW m \in T PROVE i <= m
  <2>1. m \in Nat /\ i \in Nat
    OBVIOUS
  <2>2. <<m, i>> \notin R
    BY <1>2
  <2>3. ~(m < i)
    BY <2>1, <2>2 DEF R, OpToRel
  <2> QED BY <2>1, <2>3
<1> QED BY <1>3

(* A sequence of values, each made from the one before, exists. *)
LEMMA IterationExists ==
  ASSUME NEW S, NEW start \in S, NEW next \in [S -> S], NEW n \in Nat
  PROVE  \E w \in [0 .. n -> S] : w[0] = start /\ \A k \in 1 .. n : w[k] = next[w[k - 1]]
<1> DEFINE W(m) == \E w \in [0 .. m -> S] : w[0] = start /\ \A k \in 1 .. m : w[k] = next[w[k - 1]]
           Bad == {m \in Nat : ~W(m)}
<1>1. W(0)
  <2> DEFINE w == [k \in 0 .. 0 |-> start]
  <2>1. w \in [0 .. 0 -> S] /\ w[0] = start /\ \A k \in 1 .. 0 : w[k] = next[w[k - 1]]
    OBVIOUS
  <2> QED BY <2>1
<1>2. ASSUME NEW m \in Nat \ {0}, W(m - 1) PROVE W(m)
  <2>1. PICK w \in [0 .. m - 1 -> S] : w[0] = start /\ \A k \in 1 .. m - 1 : w[k] = next[w[k - 1]]
    BY <1>2
  <2> DEFINE x == [k \in 0 .. m |-> IF k = m THEN next[w[m - 1]] ELSE w[k]]
  <2>2. x \in [0 .. m -> S]
    BY <2>1
  <2>3. x[0] = start
    BY <2>1
  <2>4. ASSUME NEW k \in 1 .. m PROVE x[k] = next[x[k - 1]]
    BY <2>1
  <2> HIDE DEF x
  <2> QED BY <2>2, <2>3, <2>4
<1> HIDE DEF W
<1>3. SUFFICES ASSUME ~W(n) PROVE FALSE
  BY DEF W
<1>4. n \in Bad /\ Bad \subseteq Nat
  BY <1>3
<1>5. PICK m \in Bad : \A l \in Bad : m <= l
  BY <1>4, LeastNat
<1>6. m \in Nat /\ ~W(m)
  BY <1>5
<1>7. m # 0
  BY <1>1, <1>6
<1>8. m - 1 \in Nat /\ ~(m <= m - 1)
  BY <1>6, <1>7
<1>9. W(m - 1)
  BY <1>5, <1>8
<1> QED BY <1>2, <1>6, <1>7, <1>9

-----------------------------------------------------------------------------
LEMMA Setting ==
  ASSUME F!DirectoryAssumption, program \in FatPrograms
  PROVE  /\ F!IsFiniteSet(F!Cluster) /\ rootDirStart \in F!Cluster /\ 0 \notin F!Cluster /\ EOC \notin F!Cluster
         /\ EOC # 0 /\ F!MaxDirSectors \in Nat \ {0} /\ F!EntriesPerSector \in Nat \ {0, 1}
         /\ F!Names \subseteq ShortNames \cup LongNames /\ LfnEntries \in Nat \ {0}
         /\ ShortNames \cap F!LongSfns = {} /\ ShortNames \cap LongNames = {} /\ Basis \in F!LongSfns
         /\ program.modes \subseteq F!Modes
BY DEF F!DirectoryAssumption, F!Cluster, F!MaxDirSectors, F!EntriesPerSector, F!Names, F!LongSfns

LEMMA NextFirst ==
  ASSUME F!DirectoryAssumption, program \in FatPrograms, NEW d \in F!Cluster \cup {0}
  PROVE  FirstOf(d) \in F!Cluster
BY Setting DEF FirstOf

(* What the sequence of sectors of a directory is. *)
IsChain(links, d, s) ==
  /\ s \in Seq(F!Cluster) /\ Len(s) \in 1 .. F!MaxDirSectors /\ s[1] = FirstOf(d)
  /\ \A i \in 1 .. Len(s) - 1 : s[i + 1] = links[s[i]]
  /\ Len(s) < F!MaxDirSectors => links[s[Len(s)]] \notin F!Cluster

LEMMA ChainIs ==
  ASSUME F!DirectoryAssumption, program \in FatPrograms,
         NEW links, NEW d \in F!Cluster \cup {0}
  PROVE  IsChain(links, d, F!Chain(links, d))
<1> DEFINE S == Seq(F!Cluster)
           first == FirstOf(d)
           next == [s \in S |-> IF links[s[Len(s)]] \in F!Cluster
                                THEN Append(s, links[s[Len(s)]]) ELSE s]
           M == F!MaxDirSectors
           step(walk, k) == IF k = 1 THEN <<first>>
                  ELSE LET before == walk[k - 1]
                           x == links[before[Len(before)]]
                       IN IF x \in F!Cluster THEN Append(before, x) ELSE before
           Walk(walk) == walk = [k \in 1 .. M |-> step(walk, k)]
<1>1. first \in F!Cluster /\ <<first>> \in S /\ M \in Nat \ {0}
  BY NextFirst, Setting
<1>2. next \in [S -> S]
  <2>1. ASSUME NEW s \in S PROVE next[s] \in S
    OBVIOUS
  <2> QED BY <2>1
<1>3. PICK w \in [0 .. M - 1 -> S] : w[0] = <<first>> /\ \A k \in 1 .. M - 1 : w[k] = next[w[k - 1]]
  <2> HIDE DEF S, next, first, M
  <2>1. M - 1 \in Nat
    BY <1>1
  <2>2. <<first>> \in S
    BY <1>1
  <2> DEFINE n == M - 1  start == <<first>>
  <2>3. n \in Nat /\ start \in S
    BY <2>1, <2>2
  <2> HIDE DEF n, start
  <2>4. \E w \in [0 .. n -> S] : w[0] = start /\ \A k \in 1 .. n : w[k] = next[w[k - 1]]
    BY SMTT(60), <1>2, <2>3, IterationExists
  <2> QED BY <2>4 DEF n, start
<1>4. \E walk : Walk(walk)
  <2> DEFINE v == [k \in 1 .. M |-> w[k - 1]]
  <2>1. ASSUME NEW k \in 1 .. M PROVE v[k] = step(v, k)
    <3>1. CASE k = 1
      BY <3>1, <1>1, <1>3
    <3>2. CASE k # 1
      <4>1. k - 1 \in 1 .. M - 1 /\ k - 1 \in 1 .. M /\ v[k] = w[k - 1] /\ v[k - 1] = w[k - 2]
        BY <3>2, <1>1, k \in 1 .. M
      <4>2. w[k - 1] = next[w[(k - 1) - 1]]
        BY <4>1, <1>3
      <4>0. (k - 1) - 1 = k - 2 /\ k - 2 \in 0 .. M - 1
        BY <4>1, <1>1
      <4>3. w[k - 2] \in S
        BY <4>0, <1>3
      <4> QED BY <4>0, <4>1, <4>2, <4>3, <3>2
    <3> QED BY <3>1, <3>2
  <2>2. v = [k \in 1 .. M |-> step(v, k)]
    BY SMTT(60), <2>1
  <2> QED BY <2>2
<1> DEFINE walk == CHOOSE walk : Walk(walk)
<1>5. Walk(walk)
  BY <1>4
<1>6. F!Chain(links, d) = walk[M]
  BY SMTT(60) DEF F!Chain, FirstOf
<1> HIDE DEF walk, next
<1>7. ASSUME NEW k \in 1 .. M
      PROVE  walk[k] = step(walk, k)
  BY <1>5
<1> DEFINE Fine(k) == /\ walk[k] \in S /\ Len(walk[k]) \in 1 .. k /\ walk[k][1] = first
                      /\ \A i \in 1 .. Len(walk[k]) - 1 : walk[k][i + 1] = links[walk[k][i]]
                      /\ Len(walk[k]) < k => links[walk[k][Len(walk[k])]] \notin F!Cluster
           Bad == {k \in 1 .. M : ~Fine(k)}
<1>8. Bad = {}
  <2>1. SUFFICES ASSUME Bad # {} PROVE FALSE
    OBVIOUS
  <2>2. PICK k \in Bad : \A l \in Bad : k <= l
    BY <2>1, LeastNat, Bad \subseteq Nat
  <2>3. k # 1
    <3>1. walk[1] = <<first>>
      BY <1>7, <1>1
    <3>2. Fine(1)
      BY <3>1, <1>1
    <3> QED BY <3>2, <2>2
  <2>4. k - 1 \in 1 .. M /\ Fine(k - 1)
    BY SMTT(60), <2>2, <2>3, <1>1
  <2> DEFINE b == walk[k - 1]
             x == links[b[Len(b)]]
  <2>5. walk[k] = IF x \in F!Cluster THEN Append(b, x) ELSE b
    BY <1>7, <2>2, <2>3
  <2>6. b \in S /\ Len(b) \in 1 .. k - 1 /\ b[1] = first
        /\ (\A i \in 1 .. Len(b) - 1 : b[i + 1] = links[b[i]])
        /\ (Len(b) < k - 1 => x \notin F!Cluster)
    BY <2>4
  <2> HIDE DEF b
  <2>7. CASE x \in F!Cluster
    <3> DEFINE a == Append(b, x)
    <3>1. a \in S /\ Len(a) = Len(b) + 1 /\ Len(b) = k - 1 /\ a[Len(b) + 1] = x
          /\ \A i \in 1 .. Len(b) : a[i] = b[i]
      BY <2>6, <2>7
    <3> HIDE DEF a
    <3>2. walk[k] = a
      BY <2>5, <2>7 DEF a
    <3>3. ASSUME NEW i \in 1 .. Len(a) - 1 PROVE a[i + 1] = links[a[i]]
      <4>1. i \in 1 .. Len(b) /\ a[i] = b[i]
        BY <3>1, <2>6
      <4>2. CASE i = Len(b)
        BY <4>1, <4>2, <3>1
      <4>3. CASE i # Len(b)
        <5>1. i \in 1 .. Len(b) - 1 /\ i + 1 \in 1 .. Len(b)
          BY <4>1, <4>3, <2>6
        <5> QED BY <5>1, <4>1, <3>1, <2>6
      <4> QED BY <4>2, <4>3
    <3>4. Fine(k)
      BY <3>1, <3>2, <3>3, <2>6
    <3> QED BY <3>4, <2>2
  <2>8. CASE x \notin F!Cluster
    <3>1. Fine(k)
      BY <2>5, <2>6, <2>8
    <3> QED BY <3>1, <2>2
  <2> QED BY <2>7, <2>8
<1>9. Fine(M)
  <2>1. M \in 1 .. M
    BY <1>1
  <2> HIDE DEF Fine, M
  <2>2. M \notin Bad
    BY <1>8
  <2> QED BY <2>1, <2>2
<1> QED BY <1>6, <1>9 DEF IsChain

(* t begins with s. *)
Begins(t, s) == Len(s) <= Len(t) /\ \A i \in 1 .. Len(s) : t[i] = s[i]

(* Following the chain of s as far as it goes, t goes at least as far. *)
LEMMA ChainPrefix ==
  ASSUME F!DirectoryAssumption, program \in FatPrograms,
         NEW l1, NEW l2, NEW d \in F!Cluster \cup {0}, NEW s, NEW t,
         IsChain(l1, d, s), IsChain(l2, d, t),
         \A i \in 1 .. Len(s) - 1 : l2[s[i]] = l1[s[i]]
  PROVE  Begins(t, s)
<1> USE DEF Begins
<1> DEFINE Fine(i) == i <= Len(t) /\ t[i] = s[i]
           Bad == {i \in 1 .. Len(s) : ~Fine(i)}
<1>1. /\ s \in Seq(F!Cluster) /\ Len(s) \in Nat \ {0} /\ s[1] = FirstOf(d) /\ Len(s) <= F!MaxDirSectors
      /\ t \in Seq(F!Cluster) /\ Len(t) \in Nat \ {0} /\ t[1] = FirstOf(d)
      /\ F!MaxDirSectors \in Nat
  BY Setting DEF IsChain
<1>2. SUFFICES ASSUME Bad # {} PROVE FALSE
  <2>1. ASSUME NEW i \in 1 .. Len(s) PROVE Fine(i)
    BY <1>2
  <2>2. Len(s) \in 1 .. Len(s)
    BY <1>1
  <2> QED BY <2>1, <2>2
<1>3. PICK i \in Bad : \A j \in Bad : i <= j
  BY <1>2, LeastNat, Bad \subseteq Nat
<1>4. i # 1
  <2>1. Fine(1)
    BY <1>1
  <2> QED BY <2>1, <1>3
<1>5. i - 1 \in 1 .. Len(s) - 1 /\ Fine(i - 1)
  BY <1>3, <1>4, <1>1
<1>6. s[i] = l1[s[i - 1]] /\ s[i] \in F!Cluster
  <2>1. s[(i - 1) + 1] = l1[s[i - 1]]
    BY <1>5 DEF IsChain
  <2>2. (i - 1) + 1 = i /\ i \in 1 .. Len(s)
    BY <1>3, <1>1
  <2> QED BY <2>1, <2>2, <1>1
<1>7. l2[t[i - 1]] = s[i]
  BY <1>5, <1>6
<1>8. i <= Len(t)
  <2>1. CASE Len(t) = i - 1
    <3>1. l2[t[Len(t)]] \notin F!Cluster
      BY <2>1, <1>1, <1>3 DEF IsChain
    <3> QED BY <3>1, <2>1, <1>7, <1>6
  <2> QED BY <2>1, <1>5, <1>1
<1>9. t[i] = l2[t[i - 1]]
  <2>1. i - 1 \in 1 .. Len(t) - 1 /\ (i - 1) + 1 = i
    BY <1>8, <1>5, <1>1
  <2>2. t[(i - 1) + 1] = l2[t[i - 1]]
    BY <2>1 DEF IsChain
  <2> QED BY <2>1, <2>2
<1> QED BY <1>3, <1>7, <1>8, <1>9

LEMMA ChainUnique ==
  ASSUME F!DirectoryAssumption, program \in FatPrograms,
         NEW l, NEW d \in F!Cluster \cup {0}, NEW s, IsChain(l, d, s)
  PROVE  F!Chain(l, d) = s
<1>1. PICK t : t = F!Chain(l, d) /\ IsChain(l, d, t)
  BY ChainIs
<1>2. Begins(t, s) /\ Begins(s, t)
  BY <1>1, ChainPrefix
<1>3. s \in Seq(F!Cluster) /\ t \in Seq(F!Cluster)
  BY <1>1 DEF IsChain
<1>4. s = t
  BY <1>2, <1>3 DEF Begins
<1> QED BY <1>1, <1>4

LEMMA ChainSetIs ==
  ASSUME F!DirectoryAssumption, program \in FatPrograms, NEW l, NEW d \in F!Cluster \cup {0}
  PROVE  /\ F!ChainSet(l, d) = {F!Chain(l, d)[i] : i \in 1 .. Len(F!Chain(l, d))}
         /\ F!ChainSet(l, d) \subseteq F!Cluster /\ FirstOf(d) \in F!ChainSet(l, d)
<1>1. IsChain(l, d, F!Chain(l, d))
  BY ChainIs
<1>2. F!Chain(l, d) \in Seq(F!Cluster) /\ Len(F!Chain(l, d)) \in Nat \ {0} /\ F!Chain(l, d)[1] = FirstOf(d)
  BY <1>1, Setting DEF IsChain
<1>3. DOMAIN F!Chain(l, d) = 1 .. Len(F!Chain(l, d))
  BY <1>2
<1>4. F!ChainSet(l, d) = {F!Chain(l, d)[i] : i \in 1 .. Len(F!Chain(l, d))}
  BY <1>3 DEF F!ChainSet
<1> QED BY <1>2, <1>4

ElementsOf(s) == {s[i] : i \in 1 .. Len(s)}

LEMMA ChainElements ==
  ASSUME F!DirectoryAssumption, program \in FatPrograms, NEW l, NEW d \in F!Cluster \cup {0}
  PROVE  F!ChainSet(l, d) = ElementsOf(F!Chain(l, d))
BY ChainSetIs DEF ElementsOf

AgreeOn(S, l1, l2) == \A c \in S : l2[c] = l1[c]

LEMMA ChainSame ==
  ASSUME F!DirectoryAssumption, program \in FatPrograms, NEW l1, NEW l2, NEW d \in F!Cluster \cup {0},
         AgreeOn(F!ChainSet(l1, d), l1, l2)
  PROVE  F!Chain(l2, d) = F!Chain(l1, d) /\ F!ChainSet(l2, d) = F!ChainSet(l1, d)
<1> USE DEF AgreeOn
<1> DEFINE s == F!Chain(l1, d)
<1>1. IsChain(l1, d, s) /\ F!ChainSet(l1, d) = {s[i] : i \in 1 .. Len(s)}
  BY ChainIs, ChainSetIs
<1> HIDE DEF s
<1>2. \A i \in 1 .. Len(s) : l2[s[i]] = l1[s[i]]
  BY <1>1
<1>3. Len(s) \in 1 .. Len(s)
  BY <1>1 DEF IsChain
<1>4. IsChain(l2, d, s)
  BY <1>1, <1>2, <1>3 DEF IsChain
<1>5. F!Chain(l2, d) = F!Chain(l1, d)
  BY <1>4, ChainUnique DEF s
<1> QED BY <1>5 DEF F!ChainSet

-----------------------------------------------------------------------------
(* Chains of a FAT in which no cluster follows two others, nor itself.     *)
LEMMA ChainRank ==
  ASSUME F!DirectoryAssumption, program \in FatPrograms, NEW l, Good(l), NEW d \in F!Cluster \cup {0},
         FirstOf(d) \notin Targets(l), NEW rank \in [F!Cluster -> 1 .. F!MaxDirSectors],
         \A x \in F!Cluster : l[x] \in F!Cluster => rank[l[x]] = rank[x] + 1,
         \A x \in F!Cluster \ Targets(l) : rank[x] = 1
  PROVE  \A i \in 1 .. Len(F!Chain(l, d)) : rank[F!Chain(l, d)[i]] = i
<1> DEFINE s == F!Chain(l, d)
           Bad == {i \in 1 .. Len(s) : rank[s[i]] # i}
<1>1. IsChain(l, d, s)
  BY ChainIs
<1> HIDE DEF s
<1>2. /\ s \in Seq(F!Cluster) /\ Len(s) \in Nat \ {0} /\ s[1] = FirstOf(d)
      /\ \A i \in 1 .. Len(s) - 1 : s[i + 1] = l[s[i]]
  BY <1>1, Setting DEF IsChain
<1>3. SUFFICES ASSUME Bad # {} PROVE FALSE
  BY DEF s
<1>4. PICK i \in Bad : \A j \in Bad : i <= j
  BY <1>3, LeastNat, Bad \subseteq Nat
<1>5. i \in 1 .. Len(s) /\ rank[s[i]] # i
  BY <1>4
<1>6. i # 1
  BY <1>2, <1>5, NextFirst
<1>7. i - 1 \in 1 .. Len(s) - 1 /\ i - 1 \in 1 .. Len(s) /\ (i - 1) + 1 = i /\ ~(i <= i - 1)
  BY <1>5, <1>6, <1>2
<1>8. rank[s[i - 1]] = i - 1
  BY <1>4, <1>7
<1>9. s[(i - 1) + 1] = l[s[i - 1]] /\ s[i - 1] \in F!Cluster /\ s[i] \in F!Cluster
  BY <1>2, <1>5, <1>7
<1>10. rank[s[i]] = rank[s[i - 1]] + 1
  BY <1>7, <1>9
<1> QED BY <1>5, <1>8, <1>10, <1>7

LEMMA ChainFacts ==
  ASSUME F!DirectoryAssumption, program \in FatPrograms, NEW l, Good(l), NEW d \in F!Cluster \cup {0},
         FirstOf(d) \notin Targets(l)
  PROVE  LET s == F!Chain(l, d) IN
         /\ \A i, j \in 1 .. Len(s) : s[i] = s[j] => i = j
         /\ l[s[Len(s)]] \notin F!Cluster
         /\ \A c \in F!ChainSet(l, d) : l[c] \in F!Cluster => l[c] \in F!ChainSet(l, d)
         /\ l[FirstOf(d)] # 0 => \A c \in F!ChainSet(l, d) : l[c] # 0
<1> DEFINE s == F!Chain(l, d)
<1>1. PICK rank \in [F!Cluster -> 1 .. F!MaxDirSectors] :
         /\ \A x \in F!Cluster : l[x] \in F!Cluster => rank[l[x]] = rank[x] + 1
         /\ \A x \in F!Cluster \ Targets(l) : rank[x] = 1
  BY DEF Good
<1>2. \A i \in 1 .. Len(s) : rank[s[i]] = i
  BY <1>1, ChainRank
<1>3. IsChain(l, d, s) /\ F!ChainSet(l, d) = {s[i] : i \in 1 .. Len(s)}
  BY ChainIs, ChainSetIs
<1> HIDE DEF s
<1>4. /\ s \in Seq(F!Cluster) /\ Len(s) \in Nat \ {0} /\ s[1] = FirstOf(d) /\ Len(s) <= F!MaxDirSectors
      /\ \A i \in 1 .. Len(s) - 1 : s[i + 1] = l[s[i]]
      /\ (Len(s) < F!MaxDirSectors => l[s[Len(s)]] \notin F!Cluster)
      /\ F!MaxDirSectors \in Nat
  BY <1>3, Setting DEF IsChain
<1>5. \A i, j \in 1 .. Len(s) : s[i] = s[j] => i = j
  BY <1>2
<1>6. l[s[Len(s)]] \notin F!Cluster
  <2>1. Len(s) \in 1 .. Len(s) /\ s[Len(s)] \in F!Cluster
    BY <1>4
  <2>2. SUFFICES ASSUME l[s[Len(s)]] \in F!Cluster PROVE FALSE
    OBVIOUS
  <2>3. Len(s) = F!MaxDirSectors
    BY <2>2, <1>4
  <2>4. rank[l[s[Len(s)]]] = F!MaxDirSectors + 1
    BY <1>1, <1>2, <2>1, <2>2, <2>3
  <2>5. rank[l[s[Len(s)]]] \in 1 .. F!MaxDirSectors
    BY <2>2
  <2> QED BY <2>4, <2>5, <1>4
<1>7. ASSUME NEW c \in F!ChainSet(l, d), l[c] \in F!Cluster PROVE l[c] \in F!ChainSet(l, d)
  <2>1. PICK i \in 1 .. Len(s) : c = s[i]
    BY <1>3
  <2>2. i # Len(s)
    BY <1>6, <1>7, <2>1
  <2>3. i \in 1 .. Len(s) - 1 /\ i + 1 \in 1 .. Len(s)
    BY <2>1, <2>2, <1>4
  <2>4. s[i + 1] = l[c]
    BY <2>1, <2>3, <1>4
  <2> QED BY <2>3, <2>4, <1>3
<1>8. ASSUME l[FirstOf(d)] # 0, NEW c \in F!ChainSet(l, d) PROVE l[c] # 0
  <2>1. PICK i \in 1 .. Len(s) : c = s[i]
    BY <1>3
  <2>2. CASE i = 1
    BY <2>1, <2>2, <1>4, <1>8
  <2>3. CASE i # 1
    <3>1. i - 1 \in 1 .. Len(s) - 1 /\ (i - 1) + 1 = i /\ i - 1 \in 1 .. Len(s)
      BY <2>1, <2>3, <1>4
    <3>2. s[(i - 1) + 1] = l[s[i - 1]] /\ s[i - 1] \in F!Cluster /\ c \in F!Cluster
      BY SMTT(60), <3>1, <1>4, <2>1
    <3>3. c \in Targets(l)
      BY <3>1, <3>2, <2>1 DEF Targets
    <3> QED BY <3>3 DEF Good
  <2> QED BY <2>2, <2>3
<1> QED BY <1>5, <1>6, <1>7, <1>8 DEF s

LEMMA ChainsDisjoint ==
  ASSUME F!DirectoryAssumption, program \in FatPrograms, NEW l, Good(l),
         NEW d \in F!Cluster \cup {0}, NEW e \in F!Cluster \cup {0},
         FirstOf(d) \notin Targets(l), FirstOf(e) \notin Targets(l),
         FirstOf(d) # FirstOf(e)
  PROVE  F!ChainSet(l, d) \cap F!ChainSet(l, e) = {}
<1> DEFINE s == F!Chain(l, d)  t == F!Chain(l, e)
           Bad == {i \in 1 .. Len(s) : s[i] \in F!ChainSet(l, e)}
<1>1. PICK rank \in [F!Cluster -> 1 .. F!MaxDirSectors] :
         /\ \A x \in F!Cluster : l[x] \in F!Cluster => rank[l[x]] = rank[x] + 1
         /\ \A x \in F!Cluster \ Targets(l) : rank[x] = 1
  BY DEF Good
<1>2. (\A i \in 1 .. Len(s) : rank[s[i]] = i) /\ (\A i \in 1 .. Len(t) : rank[t[i]] = i)
  BY <1>1, ChainRank
<1>3. /\ IsChain(l, d, s) /\ F!ChainSet(l, d) = {s[i] : i \in 1 .. Len(s)}
      /\ IsChain(l, e, t) /\ F!ChainSet(l, e) = {t[i] : i \in 1 .. Len(t)}
  BY ZenonT(60), ChainIs, ChainSetIs
<1> HIDE DEF s, t
<1>4. /\ s \in Seq(F!Cluster) /\ Len(s) \in Nat \ {0} /\ s[1] = FirstOf(d)
      /\ \A i \in 1 .. Len(s) - 1 : s[i + 1] = l[s[i]]
      /\ t \in Seq(F!Cluster) /\ Len(t) \in Nat \ {0} /\ t[1] = FirstOf(e)
      /\ \A i \in 1 .. Len(t) - 1 : t[i + 1] = l[t[i]]
  BY <1>3, Setting DEF IsChain
<1>5. SUFFICES ASSUME Bad # {} PROVE FALSE
  BY <1>3
<1>6. PICK i \in Bad : \A j \in Bad : i <= j
  BY <1>5, LeastNat, Bad \subseteq Nat
<1>7. PICK j \in 1 .. Len(t) : s[i] = t[j]
  BY <1>3, <1>6
<1>8. i = j /\ i \in 1 .. Len(s)
  BY <1>2, <1>6, <1>7
<1>9. i # 1
  BY <1>4, <1>7, <1>8
<1>10. i - 1 \in 1 .. Len(s) - 1 /\ (i - 1) + 1 = i /\ i - 1 \in 1 .. Len(t) - 1
       /\ i - 1 \in 1 .. Len(s) /\ i - 1 \in 1 .. Len(t) /\ ~(i <= i - 1)
  BY <1>8, <1>9, <1>4, <1>7
<1>11. s[(i - 1) + 1] = l[s[i - 1]] /\ t[(i - 1) + 1] = l[t[i - 1]]
  BY <1>10, <1>4
<1>12. s[i - 1] = t[i - 1]
  <2>1. l[s[i - 1]] = l[t[i - 1]] /\ l[s[i - 1]] \in F!Cluster /\ s[i - 1] \in F!Cluster /\ t[i - 1] \in F!Cluster
    BY SMTT(60), <1>11, <1>10, <1>7, <1>8, <1>4
  <2> QED BY <2>1 DEF Good
<1>13. i - 1 \in Bad
  BY <1>10, <1>12, <1>3
<1> QED BY <1>6, <1>10, <1>13

-----------------------------------------------------------------------------
ChainsKept(l, l2, but) ==
  \A d \in F!Cluster \cup {0} : FirstOf(d) \notin Targets(l) /\ l[FirstOf(d)] # 0 /\ FirstOf(d) # but
     => F!Chain(l2, d) = F!Chain(l, d) /\ F!ChainSet(l2, d) = F!ChainSet(l, d)

(* What taking a cluster does to the FAT. *)
LEMMA FatAlloc ==
  ASSUME F!DirectoryAssumption, program \in FatPrograms, NEW l, Good(l), NEW c \in F!Cluster, l[c] = 0,
         NEW l2, l2 = [l EXCEPT ![c] = EOC]
  PROVE  /\ Good(l2) /\ Targets(l2) = Targets(l) /\ c \notin Targets(l)
         /\ ChainsKept(l, l2, 0)
<1>1. l \in [F!Cluster -> Link] /\ l2 \in [F!Cluster -> Link] /\ EOC \notin F!Cluster /\ EOC # 0 /\ 0 \notin F!Cluster
  BY Setting DEF Good, Link
<1>2. \A x \in F!Cluster : l2[x] = IF x = c THEN EOC ELSE l[x]
  BY <1>1
<1>3. Targets(l2) = Targets(l)
  BY <1>1, <1>2 DEF Targets
<1>4. c \notin Targets(l)
  BY DEF Good
<1>5. PICK rank \in [F!Cluster -> 1 .. F!MaxDirSectors] :
         /\ \A x \in F!Cluster : l[x] \in F!Cluster => rank[l[x]] = rank[x] + 1
         /\ \A x \in F!Cluster \ Targets(l) : rank[x] = 1
  BY DEF Good
<1>6. Good(l2)
  <2>1. \A x \in F!Cluster : l2[x] \in F!Cluster => rank[l2[x]] = rank[x] + 1
    BY <1>1, <1>2, <1>5
  <2>2. \A x \in F!Cluster \ Targets(l2) : rank[x] = 1
    BY <1>3, <1>5
  <2>3. \A x, y \in F!Cluster : l2[x] = l2[y] /\ l2[x] \in F!Cluster => x = y
    BY <1>1, <1>2 DEF Good
  <2>4. \A x \in Targets(l2) : l2[x] # 0
    BY <1>1, <1>2, <1>3 DEF Good, Targets
  <2>5. rootDirStart \notin Targets(l2) /\ l2[rootDirStart] # 0
    BY <1>1, <1>2, <1>3, Setting DEF Good
  <2> QED BY <1>1, <2>1, <2>2, <2>3, <2>4, <2>5 DEF Good
<1>7. ASSUME NEW d \in F!Cluster \cup {0}, FirstOf(d) \notin Targets(l), l[FirstOf(d)] # 0
      PROVE  F!Chain(l2, d) = F!Chain(l, d) /\ F!ChainSet(l2, d) = F!ChainSet(l, d)
  <2>1. \A x \in F!ChainSet(l, d) : l[x] # 0
    BY <1>7, ChainFacts
  <2>2. AgreeOn(F!ChainSet(l, d), l, l2)
    BY <2>1, <1>2, ChainSetIs DEF AgreeOn
  <2> QED BY <2>2, ChainSame
<1> QED BY <1>3, <1>4, <1>6, <1>7 DEF ChainsKept

Plus(S, x) == S \cup {x}
MayGrow(l, d) == Len(F!Chain(l, d)) < F!MaxDirSectors
EndOf(l, d) == F!Chain(l, d)[Len(F!Chain(l, d))]
GrownBy(l, d, c) == [l EXCEPT ![EndOf(l, d)] = c, ![c] = EOC]

LEMMA FatGrow ==
  ASSUME F!DirectoryAssumption, program \in FatPrograms, NEW l, Good(l), NEW c \in F!Cluster, l[c] = 0,
         NEW d \in F!Cluster \cup {0}, FirstOf(d) \notin Targets(l), l[FirstOf(d)] # 0,
         MayGrow(l, d), NEW end, end = EndOf(l, d), NEW l2, l2 = GrownBy(l, d, c)
  PROVE  /\ Good(l2) /\ Targets(l2) = Plus(Targets(l), c) /\ c \notin Targets(l)
         /\ F!Chain(l2, d) = Append(F!Chain(l, d), c)
         /\ F!ChainSet(l2, d) = Plus(F!ChainSet(l, d), c)
         /\ end \in F!Cluster /\ end # c /\ l[end] # 0 /\ l[end] \notin F!Cluster
         /\ ChainsKept(l, l2, FirstOf(d))
<1> DEFINE s == F!Chain(l, d)
<1>1. l \in [F!Cluster -> Link] /\ EOC \notin F!Cluster /\ EOC # 0 /\ 0 \notin F!Cluster
      /\ F!MaxDirSectors \in Nat \ {0}
  BY Setting DEF Good, Link
<1>2. IsChain(l, d, s) /\ F!ChainSet(l, d) = {s[i] : i \in 1 .. Len(s)}
  BY ChainIs, ChainSetIs
<1>3. /\ \A i, j \in 1 .. Len(s) : s[i] = s[j] => i = j
      /\ l[end] \notin F!Cluster
      /\ \A x \in F!ChainSet(l, d) : l[x] # 0
  BY ChainFacts DEF EndOf
<1>4. PICK rank \in [F!Cluster -> 1 .. F!MaxDirSectors] :
         /\ \A x \in F!Cluster : l[x] \in F!Cluster => rank[l[x]] = rank[x] + 1
         /\ \A x \in F!Cluster \ Targets(l) : rank[x] = 1
  BY DEF Good
<1>5. \A i \in 1 .. Len(s) : rank[s[i]] = i
  BY <1>4, ChainRank
<1>6. end = s[Len(s)] /\ Len(s) < F!MaxDirSectors
  BY DEF EndOf, MayGrow
<1>7. F!Chain(l, d) = s
  OBVIOUS
<1> HIDE DEF s
<1>8. s \in Seq(F!Cluster) /\ Len(s) \in 1 .. F!MaxDirSectors /\ s[1] = FirstOf(d)
      /\ (\A i \in 1 .. Len(s) - 1 : s[i + 1] = l[s[i]])
  BY <1>2 DEF IsChain
<1>9. Len(s) \in 1 .. Len(s) /\ end \in F!ChainSet(l, d) /\ end \in F!Cluster /\ rank[end] = Len(s)
  BY <1>2, <1>5, <1>6, <1>8
<1>10. l[end] # 0 /\ end # c
  BY <1>3, <1>9
<1>11. \A x \in F!Cluster : l2[x] = IF x = c THEN EOC ELSE IF x = end THEN c ELSE l[x]
  BY <1>1, <1>9 DEF GrownBy
<1>12. l2 \in [F!Cluster -> Link]
  BY <1>1, <1>9 DEF Link, GrownBy
<1>13. c \notin Targets(l)
  BY DEF Good
<1>14. Targets(l2) = Targets(l) \cup {c}
  <2>1. ASSUME NEW x \in Targets(l2) PROVE x \in Targets(l) \cup {c}
    BY <1>1, <1>11, <2>1 DEF Targets
  <2>2. ASSUME NEW x \in Targets(l) PROVE x \in Targets(l2)
    <3>1. PICK y \in F!Cluster : l[y] = x /\ x \in F!Cluster
      BY <2>2 DEF Targets
    <3>2. y # c /\ y # end
      BY <3>1, <1>1, <1>3
    <3>3. l2[y] = x
      BY <3>1, <3>2, <1>11
    <3> QED BY <3>1, <3>3 DEF Targets
  <2>3. l2[end] = c
    BY <1>9, <1>10, <1>11
  <2>4. c \in Targets(l2)
    BY <2>3, <1>9 DEF Targets
  <2> QED BY <2>1, <2>2, <2>4
<1>15. Good(l2)
  <2> DEFINE rank2 == [x \in F!Cluster |-> IF x = c THEN Len(s) + 1 ELSE rank[x]]
  <2>1. rank2 \in [F!Cluster -> 1 .. F!MaxDirSectors]
    BY <1>6, <1>8, <1>1
  <2>2. ASSUME NEW x \in F!Cluster, l2[x] \in F!Cluster PROVE rank2[l2[x]] = rank2[x] + 1
    <3>1. CASE x = end
      BY <3>1, <1>9, <1>10, <1>11
    <3>2. CASE x # end
      <4>1. x # c /\ l2[x] = l[x] /\ l[x] \in F!Cluster
        BY <3>2, <2>2, <1>1, <1>11
      <4>2. l[x] # c
        BY <4>1, <1>13 DEF Targets
      <4> QED BY <4>1, <4>2, <1>4
    <3> QED BY <3>1, <3>2
  <2>3. ASSUME NEW x \in F!Cluster \ Targets(l2) PROVE rank2[x] = 1
    BY <1>14, <1>4
  <2>4. ASSUME NEW x \in F!Cluster, NEW y \in F!Cluster, l2[x] = l2[y], l2[x] \in F!Cluster PROVE x = y
    <3>1. \A z \in F!Cluster : l[z] \in F!Cluster => l[z] # c
      BY <1>13 DEF Targets
    <3> QED BY <2>4, <3>1, <1>1, <1>11 DEF Good
  <2>5. ASSUME NEW x \in Targets(l2) PROVE l2[x] # 0
    BY <1>1, <1>11, <1>14, <2>5 DEF Good, Targets
  <2>6. rootDirStart \notin Targets(l2) /\ l2[rootDirStart] # 0
    <3>1. l[rootDirStart] # 0 /\ rootDirStart \in F!Cluster /\ c \in F!Cluster /\ c # 0
      BY <1>1, Setting DEF Good
    <3>2. c # rootDirStart
      BY <3>1
    <3> QED BY <1>1, <1>11, <1>14, <3>1, <3>2 DEF Good
  <2> QED BY <1>12, <2>1, <2>2, <2>3, <2>4, <2>5, <2>6 DEF Good
<1>16. F!Chain(l2, d) = Append(s, c)
  <2> DEFINE t == Append(s, c)
  <2>1. t \in Seq(F!Cluster) /\ Len(t) = Len(s) + 1 /\ t[Len(s) + 1] = c /\ \A i \in 1 .. Len(s) : t[i] = s[i]
    BY <1>8
  <2> HIDE DEF t
  <2>2. ASSUME NEW i \in 1 .. Len(t) - 1 PROVE t[i + 1] = l2[t[i]]
    <3>1. i \in 1 .. Len(s) /\ t[i] = s[i] /\ s[i] \in F!Cluster
      BY <2>1, <1>8
    <3>2. s[i] # c
      <4>1. s[i] \in F!ChainSet(l, d)
        BY <1>2, <3>1
      <4> QED BY <4>1, <1>3
    <3>3. CASE i = Len(s)
      BY <3>1, <3>2, <3>3, <2>1, <1>6, <1>11
    <3>4. CASE i # Len(s)
      <4>1. i \in 1 .. Len(s) - 1 /\ i + 1 \in 1 .. Len(s)
        BY <3>1, <3>4, <1>8
      <4>2. s[i] # end
        BY <4>1, <3>1, <3>4, <1>3, <1>6, <1>9, <1>7
      <4>3. t[i + 1] = s[i + 1] /\ s[i + 1] = l[s[i]]
        BY <4>1, <2>1, <1>8
      <4>4. l2[s[i]] = l[s[i]]
        BY <4>2, <3>1, <3>2, <1>11
      <4> QED BY <4>3, <4>4, <3>1
    <3> QED BY <3>3, <3>4
  <2>3. l2[t[Len(t)]] \notin F!Cluster
    BY <2>1, <1>8, <1>11, <1>1
  <2>4. IsChain(l2, d, t)
    <3>1. t[1] = FirstOf(d) /\ Len(t) \in 1 .. F!MaxDirSectors
      BY <2>1, <1>8, <1>6, <1>1
    <3> QED BY <3>1, <2>1, <2>2, <2>3 DEF IsChain
  <2> QED BY <2>4, ChainUnique DEF t
<1>17. F!ChainSet(l2, d) = F!ChainSet(l, d) \cup {c}
  <2>1. PICK t : t = Append(s, c) /\ F!Chain(l2, d) = t
    BY <1>16
  <2>2. F!ChainSet(l2, d) = {t[i] : i \in 1 .. Len(t)}
    <3>1. F!ChainSet(l2, d) = ElementsOf(F!Chain(l2, d))
      BY ChainElements
    <3> QED BY <3>1, <2>1 DEF ElementsOf
  <2>3. Len(t) = Len(s) + 1 /\ t[Len(s) + 1] = c /\ \A i \in 1 .. Len(s) : t[i] = s[i]
    BY <2>1, <1>8
  <2>4. Len(s) \in Nat
    BY <1>8
  <2>5. ASSUME NEW x \in F!ChainSet(l2, d) PROVE x \in F!ChainSet(l, d) \cup {c}
    <3>1. PICK i \in 1 .. Len(t) : x = t[i]
      BY <2>2
    <3>2. i = Len(s) + 1 \/ i \in 1 .. Len(s)
      BY <3>1, <2>3, <2>4
    <3> QED BY <3>1, <3>2, <2>3, <1>2
  <2>6. ASSUME NEW x \in F!ChainSet(l, d) \cup {c} PROVE x \in F!ChainSet(l2, d)
    <3>1. CASE x = c
      <4>1. Len(s) + 1 \in 1 .. Len(t)
        BY <2>3, <2>4
      <4> QED BY <3>1, <4>1, <2>2, <2>3
    <3>2. CASE x # c
      <4>1. PICK i \in 1 .. Len(s) : x = s[i]
        BY <3>2, <1>2
      <4>2. i \in 1 .. Len(t) /\ x = t[i]
        BY <4>1, <2>3, <2>4
      <4> QED BY <4>2, <2>2
    <3> QED BY <3>1, <3>2
  <2> QED BY <2>5, <2>6
<1>18. ASSUME NEW e \in F!Cluster \cup {0}, FirstOf(e) \notin Targets(l), l[FirstOf(e)] # 0, FirstOf(e) # FirstOf(d)
       PROVE  F!Chain(l2, e) = F!Chain(l, e) /\ F!ChainSet(l2, e) = F!ChainSet(l, e)
  <2>1. \A x \in F!ChainSet(l, e) : l[x] # 0
    BY <1>18, ChainFacts
  <2>2. F!ChainSet(l, e) \cap F!ChainSet(l, d) = {}
    BY <1>18, ChainsDisjoint
  <2>3. AgreeOn(F!ChainSet(l, e), l, l2)
    BY <2>1, <2>2, <1>9, <1>11, ChainSetIs DEF AgreeOn
  <2> QED BY <2>3, ChainSame
<1>19. ChainsKept(l, l2, FirstOf(d))
  BY <1>18 DEF ChainsKept
<1>20. Targets(l2) = Plus(Targets(l), c) /\ F!ChainSet(l2, d) = Plus(F!ChainSet(l, d), c)
  BY <1>14, <1>17 DEF Plus
<1> QED BY <1>7, <1>9, <1>10, <1>3, <1>13, <1>15, <1>16, <1>19, <1>20

LEMMA FatFree ==
  ASSUME F!DirectoryAssumption, program \in FatPrograms, NEW l, Good(l), NEW c \in F!Cluster,
         c \notin Targets(l), l[c] # 0, c # rootDirStart,
         NEW l2, l2 = [x \in F!Cluster |-> IF x \in F!ChainSet(l, c) THEN 0 ELSE l[x]]
  PROVE  /\ Good(l2) /\ Targets(l2) \subseteq Targets(l)
         /\ \A x \in F!Cluster : l2[x] = IF x \in F!ChainSet(l, c) THEN 0 ELSE l[x]
         /\ F!Chain(l2, c) = <<c>> /\ c \in F!ChainSet(l, c)
         /\ \A d \in F!Cluster \cup {0} : FirstOf(d) \notin Targets(l) /\ FirstOf(d) # c
              => /\ F!Chain(l2, d) = F!Chain(l, d) /\ F!ChainSet(l2, d) = F!ChainSet(l, d)
                 /\ F!ChainSet(l, d) \cap F!ChainSet(l, c) = {} /\ l2[FirstOf(d)] = l[FirstOf(d)]
<1> DEFINE gone == F!ChainSet(l, c)
<1>1. l \in [F!Cluster -> Link] /\ EOC \notin F!Cluster /\ EOC # 0 /\ 0 \notin F!Cluster /\ rootDirStart \in F!Cluster
      /\ F!MaxDirSectors \in Nat \ {0}
  BY Setting DEF Good, Link
<1>2. l2 \in [F!Cluster -> Link] /\ \A x \in F!Cluster : l2[x] = IF x \in gone THEN 0 ELSE l[x]
  BY <1>1 DEF Link
<1>3. FirstOf(c) = c /\ FirstOf(0) = rootDirStart
  BY <1>1 DEF FirstOf
<1>4. c \in gone /\ gone \subseteq F!Cluster
  BY <1>3, ChainSetIs
<1>5. \A x \in gone : l[x] \in F!Cluster => l[x] \in gone
  BY <1>3, ChainFacts
<1>6. Targets(l2) \subseteq Targets(l)
  BY <1>1, <1>2 DEF Targets
<1>7. ASSUME NEW d \in F!Cluster \cup {0}, FirstOf(d) \notin Targets(l), FirstOf(d) # c
      PROVE  /\ F!Chain(l2, d) = F!Chain(l, d) /\ F!ChainSet(l2, d) = F!ChainSet(l, d)
             /\ F!ChainSet(l, d) \cap gone = {} /\ l2[FirstOf(d)] = l[FirstOf(d)]
  <2>1. F!ChainSet(l, d) \cap gone = {}
    BY <1>3, <1>7, ChainsDisjoint
  <2>2. AgreeOn(F!ChainSet(l, d), l, l2)
    BY <2>1, <1>2, ChainSetIs DEF AgreeOn
  <2>3. FirstOf(d) \in F!ChainSet(l, d)
    BY ChainSetIs
  <2> QED BY <2>1, <2>2, <2>3, ChainSame DEF AgreeOn
<1>8. ASSUME NEW x \in Targets(l), x \notin gone PROVE x \in Targets(l2)
  <2>1. PICK y \in F!Cluster : l[y] = x /\ x \in F!Cluster
    BY <1>8 DEF Targets
  <2>2. y \notin gone
    BY <2>1, <1>5, <1>8
  <2> QED BY <2>1, <2>2, <1>2 DEF Targets
<1>9. PICK rank \in [F!Cluster -> 1 .. F!MaxDirSectors] :
         /\ \A x \in F!Cluster : l[x] \in F!Cluster => rank[l[x]] = rank[x] + 1
         /\ \A x \in F!Cluster \ Targets(l) : rank[x] = 1
  BY DEF Good
<1>10. Good(l2)
  <2> DEFINE rank2 == [x \in F!Cluster |-> IF x \in gone THEN 1 ELSE rank[x]]
  <2>1. rank2 \in [F!Cluster -> 1 .. F!MaxDirSectors]
    BY <1>1
  <2>0. ASSUME NEW x \in F!Cluster, l2[x] \in F!Cluster PROVE x \notin gone /\ l2[x] = l[x] /\ l2[x] \notin gone
    <3>1. x \notin gone /\ l2[x] = l[x]
      BY <2>0, <1>1, <1>2
    <3>2. SUFFICES ASSUME l[x] \in gone PROVE FALSE
      BY <3>1
    <3>3. IsChain(l, c, F!Chain(l, c)) /\ gone = {F!Chain(l, c)[i] : i \in 1 .. Len(F!Chain(l, c))}
      BY ChainIs, ChainSetIs
    <3>4. PICK i \in 1 .. Len(F!Chain(l, c)) : l[x] = F!Chain(l, c)[i]
      BY <3>2, <3>3
    <3>5. i # 1
      BY <3>3, <3>4, <3>1, <2>0, <1>3 DEF IsChain, Targets
    <3>6. i - 1 \in 1 .. Len(F!Chain(l, c)) - 1 /\ (i - 1) + 1 = i /\ i - 1 \in 1 .. Len(F!Chain(l, c))
      BY <3>3, <3>4, <3>5, <1>1 DEF IsChain
    <3>7. F!Chain(l, c)[(i - 1) + 1] = l[F!Chain(l, c)[i - 1]]
      BY <3>3, <3>6 DEF IsChain
    <3>8. F!Chain(l, c)[i - 1] \in gone
      BY <3>3, <3>6
    <3>9. l[F!Chain(l, c)[i - 1]] = l[x] /\ F!Chain(l, c)[i - 1] \in F!Cluster /\ l[x] \in F!Cluster
      BY <3>4, <3>6, <3>7, <3>8, <3>1, <2>0, <1>4
    <3>10. F!Chain(l, c)[i - 1] = x
      BY <3>9 DEF Good
    <3> QED BY <3>10, <3>8, <3>1
  <2>2. ASSUME NEW x \in F!Cluster, l2[x] \in F!Cluster PROVE rank2[l2[x]] = rank2[x] + 1
    BY <2>0, <2>2, <1>9
  <2>3. ASSUME NEW x \in F!Cluster \ Targets(l2) PROVE rank2[x] = 1
    BY <1>8, <1>9
  <2>4. ASSUME NEW x \in F!Cluster, NEW y \in F!Cluster, l2[x] = l2[y], l2[x] \in F!Cluster PROVE x = y
    BY <2>0, <2>4 DEF Good
  <2>5. ASSUME NEW x \in Targets(l2) PROVE l2[x] # 0
    <3>1. PICK y \in F!Cluster : l2[y] = x /\ x \in F!Cluster
      BY <2>5 DEF Targets
    <3>2. x \notin gone
      BY <2>0, <3>1
    <3> QED BY <3>1, <3>2, <1>2, <1>6 DEF Good
  <2>6. rootDirStart \notin Targets(l2) /\ l2[rootDirStart] # 0
    BY <1>3, <1>6, <1>7 DEF Good
  <2> QED BY <1>2, <2>1, <2>2, <2>3, <2>4, <2>5, <2>6 DEF Good
<1>11. F!Chain(l2, c) = <<c>>
  <2>1. IsChain(l2, c, <<c>>)
    <3>1. l2[c] = 0
      BY <1>2, <1>4
    <3> QED BY <3>1, <1>1, <1>3 DEF IsChain
  <2> QED BY <2>1, ChainUnique
<1> QED BY <1>2, <1>4, <1>6, <1>7, <1>10, <1>11

(* What the device has of a chain in use is where it begins in the FAT. *)
LEMMA LaterBegins ==
  ASSUME F!DirectoryAssumption, program \in FatPrograms, NEW od, NEW l, NEW settling, Good(l),
         Later(od, l, settling), NEW d \in F!Cluster \cup {0}, l[FirstOf(d)] # 0
  PROVE  Begins(F!Chain(l, d), F!Chain(od, d))
<1>1. PICK s : s = F!Chain(od, d) /\ IsChain(od, d, s)
  BY ChainIs
<1>2. /\ s \in Seq(F!Cluster) /\ Len(s) \in Nat \ {0} /\ s[1] = FirstOf(d)
      /\ \A i \in 1 .. Len(s) - 1 : s[i + 1] = od[s[i]]
  BY <1>1, Setting DEF IsChain
<1> DEFINE Bad == {i \in 1 .. Len(s) : l[s[i]] = 0}
<1>3. ASSUME NEW i \in 1 .. Len(s) - 1, l[s[i]] # 0 PROVE l[s[i]] = od[s[i]] /\ l[s[i + 1]] # 0
  <2>1. s[i] \in F!Cluster /\ s[i + 1] \in F!Cluster /\ s[i + 1] = od[s[i]]
    BY <1>2
  <2>2. l[s[i]] = od[s[i]]
    BY <2>1, <1>3 DEF Later
  <2>3. s[i + 1] \in Targets(l)
    BY <2>1, <2>2 DEF Targets
  <2> QED BY <2>2, <2>3 DEF Good
<1>4. Bad = {}
  <2>1. SUFFICES ASSUME Bad # {} PROVE FALSE
    OBVIOUS
  <2>2. PICK i \in Bad : \A j \in Bad : i <= j
    BY <2>1, LeastNat, Bad \subseteq Nat
  <2>3. i # 1
    BY <2>2, <1>2
  <2>4. i - 1 \in 1 .. Len(s) - 1 /\ i - 1 \in 1 .. Len(s) /\ (i - 1) + 1 = i /\ ~(i <= i - 1)
    BY <2>2, <2>3, <1>2
  <2>5. l[s[i - 1]] # 0
    BY <2>2, <2>4
  <2>6. l[s[(i - 1) + 1]] # 0
    BY <2>4, <2>5, <1>3
  <2> QED BY <2>2, <2>4, <2>6
<1>5. \A i \in 1 .. Len(s) - 1 : l[s[i]] = od[s[i]]
  BY <1>2, <1>3, <1>4
<1>6. PICK t : t = F!Chain(l, d) /\ IsChain(l, d, t)
  BY ChainIs
<1>7. Begins(t, s)
  BY <1>1, <1>5, <1>6, ChainPrefix
<1> QED BY <1>1, <1>6, <1>7

-----------------------------------------------------------------------------
LEMMA SameFirst ==
  ASSUME F!DirectoryAssumption, program \in FatPrograms, NEW l, NEW d \in F!Cluster \cup {0}
  PROVE  /\ F!Chain(l, FirstOf(d)) = F!Chain(l, d) /\ F!ChainSet(l, FirstOf(d)) = F!ChainSet(l, d)
         /\ FirstOf(FirstOf(d)) = FirstOf(d) /\ FirstOf(d) \in F!Cluster
<1>1. FirstOf(d) \in F!Cluster /\ FirstOf(FirstOf(d)) = FirstOf(d)
  BY NextFirst, Setting DEF FirstOf
<1>2. IsChain(l, d, F!Chain(l, FirstOf(d)))
  BY <1>1, ChainIs DEF IsChain
<1>3. F!Chain(l, d) = F!Chain(l, FirstOf(d))
  BY <1>2, ChainUnique
<1>4. F!ChainSet(l, d) = ElementsOf(F!Chain(l, d)) /\ F!ChainSet(l, FirstOf(d)) = ElementsOf(F!Chain(l, FirstOf(d)))
  BY <1>1, ChainElements
<1> QED BY <1>1, <1>3, <1>4

(* The device's FAT stays an earlier one. *)
LEMMA LaterAlloc ==
  ASSUME F!DirectoryAssumption, program \in FatPrograms, NEW od, NEW l, Later(od, l, FALSE), l \in [F!Cluster -> Link],
         NEW end \in F!Cluster, l[end] \notin F!Cluster, NEW l2, NEW settling,
         \A x \in F!Cluster : l[x] \in F!Cluster => l2[x] = l[x]
  PROVE  Later(od, l2, settling)
BY DEF Later

LEMMA LaterFree ==
  ASSUME F!DirectoryAssumption, program \in FatPrograms, NEW od, NEW l, Later(od, l, FALSE), Good(l),
         NEW gone \in SUBSET F!Cluster, \A x \in gone : l[x] \in F!Cluster => l[x] \in gone,
         NEW l2, \A x \in F!Cluster : l2[x] = IF x \in gone THEN 0 ELSE l[x],
         NEW settling, settling = TRUE \/ \A x \in gone : l[x] \notin F!Cluster
  PROVE  Later(od, l2, settling)
BY DEF Later

LEMMA LaterSettling ==
  ASSUME NEW od, NEW l, NEW s1, NEW s2, Later(od, l, s1), s1 => s2
  PROVE  Later(od, l, s2)
BY DEF Later

LEMMA LaterSynced ==
  ASSUME NEW l, NEW settling
  PROVE  Later(l, l, settling)
BY DEF Later

-----------------------------------------------------------------------------
(* Who holds which chain. *)
LEMMA HeldHead ==
  ASSUME NEW l, NEW H, NEW single, Held(l, H, single), NEW k \in DOMAIN H, H[k] # 0
  PROVE  /\ H[k] \in F!Cluster /\ l[H[k]] # 0 /\ H[k] \notin Targets(l)
         /\ k \in single => l[H[k]] = EOC
BY DEF Held

(* A holder that had none gets a new cluster. *)
LEMMA HeldAlloc ==
  ASSUME F!DirectoryAssumption, program \in FatPrograms, NEW l, Good(l), NEW c \in F!Cluster, l[c] = 0,
         NEW l2, l2 = [l EXCEPT ![c] = EOC],
         NEW H, NEW single, Held(l, H, single), NEW H2, NEW single2, NEW k,
         k \in DOMAIN H => H[k] = 0, DOMAIN H2 = DOMAIN H \cup {k}, H2[k] = c,
         \A j \in DOMAIN H \ {k} : H2[j] = H[j] /\ (H[j] # 0 /\ j \in single2 => j \in single)
  PROVE  Held(l2, H2, single2)
<1>1. /\ Good(l2) /\ Targets(l2) = Targets(l) /\ c \notin Targets(l)
      /\ ChainsKept(l, l2, 0)
  BY FatAlloc
<1>2. l \in [F!Cluster -> Link] /\ EOC # 0 /\ 0 \notin F!Cluster /\ \A x \in F!Cluster : FirstOf(x) = x
  BY Setting DEF Good, FirstOf
<1>3. \A x \in F!Cluster : l2[x] = IF x = c THEN EOC ELSE l[x]
  BY <1>2
<1>4. ASSUME NEW j \in DOMAIN H2, H2[j] # 0
      PROVE  /\ H2[j] \in F!Cluster /\ l2[H2[j]] # 0 /\ H2[j] \notin Targets(l2)
             /\ j \in single2 => l2[H2[j]] = EOC
  <2>1. CASE j = k
    BY <2>1, <1>1, <1>2, <1>3
  <2>2. CASE j # k
    <3>1. j \in DOMAIN H /\ H2[j] = H[j] /\ (j \in single2 => j \in single)
      BY <2>2, <1>4
    <3>2. H[j] \in F!Cluster /\ l[H[j]] # 0 /\ H[j] \notin Targets(l) /\ (j \in single => l[H[j]] = EOC)
      BY <3>1, <1>4, HeldHead
    <3> QED BY <3>1, <3>2, <1>1, <1>3
  <2> QED BY <2>1, <2>2
<1>5. ASSUME NEW i \in DOMAIN H2, NEW j \in DOMAIN H2, H2[i] = H2[j], H2[i] # 0 PROVE i = j
  <2>1. \A n \in DOMAIN H : H[n] # c
    BY <1>2 DEF Held
  <2> QED BY <1>5, <2>1 DEF Held
<1>6. ASSUME NEW x \in F!Cluster, l2[x] # 0 PROVE \E j \in DOMAIN H2 : H2[j] # 0 /\ x \in F!ChainSet(l2, H2[j])
  <2>1. CASE x = c
    <3>1. c \in F!ChainSet(l2, c) /\ c # 0
      BY <1>2, ChainSetIs
    <3> QED BY <3>1, <2>1
  <2>2. CASE x # c
    <3>1. PICK j \in DOMAIN H : H[j] # 0 /\ x \in F!ChainSet(l, H[j])
      BY <2>2, <1>6, <1>3 DEF Held
    <3>2. j # k /\ H2[j] = H[j]
      BY <3>1
    <3>3. H[j] \in F!Cluster /\ l[H[j]] # 0 /\ H[j] \notin Targets(l)
      BY <3>1, HeldHead
    <3>4. F!ChainSet(l2, H[j]) = F!ChainSet(l, H[j])
      BY <3>3, <1>1, <1>2 DEF ChainsKept
    <3> QED BY <3>1, <3>2, <3>4
  <2> QED BY <2>1, <2>2
<1> QED BY <1>4, <1>5, <1>6 DEF Held

(* The chain of a directory gets another cluster. *)
LEMMA HeldGrow ==
  ASSUME F!DirectoryAssumption, program \in FatPrograms, NEW l, Good(l), NEW c \in F!Cluster, l[c] = 0,
         NEW d \in F!Cluster \cup {0}, FirstOf(d) \notin Targets(l), l[FirstOf(d)] # 0,
         MayGrow(l, d), NEW end, end = EndOf(l, d), NEW l2, l2 = GrownBy(l, d, c),
         NEW H, NEW single, Held(l, H, single), NEW k \in DOMAIN H \ single, H[k] = FirstOf(d)
  PROVE  Held(l2, H, single)
<1>0. /\ Good(l2) /\ Targets(l2) = Plus(Targets(l), c) /\ c \notin Targets(l)
      /\ F!ChainSet(l2, d) = Plus(F!ChainSet(l, d), c)
      /\ end \in F!Cluster /\ end # c /\ l[end] # 0 /\ l[end] \notin F!Cluster
      /\ ChainsKept(l, l2, FirstOf(d))
  BY FatGrow
<1>1. /\ Good(l2) /\ Targets(l2) = Targets(l) \cup {c} /\ c \notin Targets(l)
      /\ F!ChainSet(l2, d) = F!ChainSet(l, d) \cup {c}
      /\ end \in F!Cluster /\ end # c /\ l[end] # 0 /\ l[end] \notin F!Cluster
      /\ ChainsKept(l, l2, FirstOf(d))
  BY <1>0 DEF Plus
<1>2. l \in [F!Cluster -> Link] /\ EOC # 0 /\ 0 \notin F!Cluster /\ \A x \in F!Cluster : FirstOf(x) = x
  BY Setting DEF Good, FirstOf
<1>3. \A x \in F!Cluster : l2[x] = IF x = c THEN EOC ELSE IF x = end THEN c ELSE l[x]
  BY <1>1, <1>2 DEF GrownBy
<1>4. FirstOf(d) \in F!Cluster /\ F!ChainSet(l, FirstOf(d)) = F!ChainSet(l, d) /\ F!ChainSet(l2, FirstOf(d)) = F!ChainSet(l2, d)
  BY SameFirst
<1>5. end \in F!ChainSet(l, d)
  <2>1. IsChain(l, d, F!Chain(l, d)) /\ F!ChainSet(l, d) = ElementsOf(F!Chain(l, d))
    BY ChainIs, ChainElements
  <2>2. Len(F!Chain(l, d)) \in 1 .. Len(F!Chain(l, d))
    BY <2>1 DEF IsChain
  <2> QED BY <2>1, <2>2 DEF ElementsOf, EndOf
<1>6. ASSUME NEW j \in DOMAIN H, H[j] # 0
      PROVE  /\ H[j] \in F!Cluster /\ l2[H[j]] # 0 /\ H[j] \notin Targets(l2)
             /\ j \in single => l2[H[j]] = EOC
  <2>1. H[j] \in F!Cluster /\ l[H[j]] # 0 /\ H[j] \notin Targets(l) /\ (j \in single => l[H[j]] = EOC)
    BY <1>6, HeldHead
  <2>2. H[j] # c
    BY <2>1
  <2>3. l2[H[j]] # 0 /\ H[j] \notin Targets(l2)
    BY <2>1, <2>2, <1>1, <1>2, <1>3
  <2>4. ASSUME j \in single PROVE H[j] # end
    <3>1. H[j] # H[k]
      <4>1. j # k /\ H[j] # 0
        BY <1>6, <2>4
      <4> QED BY <4>1 DEF Held
    <3>2. F!ChainSet(l, H[j]) \cap F!ChainSet(l, d) = {} /\ H[j] \in F!ChainSet(l, H[j])
      BY <3>1, <2>1, <1>2, <1>4, ChainsDisjoint, ChainSetIs
    <3> QED BY <3>2, <1>5
  <2> QED BY <2>1, <2>2, <2>3, <2>4, <1>3
<1>7. ASSUME NEW x \in F!Cluster, l2[x] # 0 PROVE \E j \in DOMAIN H : H[j] # 0 /\ x \in F!ChainSet(l2, H[j])
  <2>0. k \in DOMAIN H /\ H[k] # 0 /\ H[k] \in F!Cluster
    BY <1>2, <1>4
  <2>1. CASE x \in F!ChainSet(l2, d)
    BY <2>1, <2>0, <1>4
  <2>2. CASE x \notin F!ChainSet(l2, d)
    <3>1. x # c /\ x # end
      BY <2>2, <1>1, <1>5
    <3>2. PICK j \in DOMAIN H : H[j] # 0 /\ x \in F!ChainSet(l, H[j])
      BY <3>1, <1>7, <1>3 DEF Held
    <3>3. H[j] \in F!Cluster /\ l[H[j]] # 0 /\ H[j] \notin Targets(l)
      BY <3>2, HeldHead
    <3>4. H[j] # FirstOf(d)
      BY <3>2, <2>2, <1>1, <1>4
    <3>5. F!ChainSet(l2, H[j]) = F!ChainSet(l, H[j])
      BY <3>3, <3>4, <1>1, <1>2 DEF ChainsKept
    <3> QED BY <3>2, <3>5
  <2> QED BY <2>1, <2>2
<1> QED BY <1>6, <1>7 DEF Held

(* The chain of a holder is freed, which then has none or is no more. *)
LEMMA HeldFree ==
  ASSUME F!DirectoryAssumption, program \in FatPrograms, NEW l, Good(l), NEW c \in F!Cluster, c # rootDirStart,
         NEW l2, l2 = [x \in F!Cluster |-> IF x \in F!ChainSet(l, c) THEN 0 ELSE l[x]],
         NEW H, NEW single, Held(l, H, single), NEW H2, NEW single2, NEW k \in DOMAIN H, H[k] = c,
         DOMAIN H2 \cup {k} = DOMAIN H, k \in DOMAIN H2 => H2[k] = 0,
         \A j \in DOMAIN H2 \ {k} : H2[j] = H[j] /\ (H[j] # 0 /\ j \in single2 => j \in single)
  PROVE  Held(l2, H2, single2)
<1>0. 0 \notin F!Cluster /\ \A x \in F!Cluster : FirstOf(x) = x
  BY Setting DEF FirstOf
<1>1. c \notin Targets(l) /\ l[c] # 0
  BY <1>0, HeldHead
<1>2. /\ Good(l2) /\ Targets(l2) \subseteq Targets(l)
      /\ \A x \in F!Cluster : l2[x] = IF x \in F!ChainSet(l, c) THEN 0 ELSE l[x]
      /\ c \in F!ChainSet(l, c)
      /\ \A d \in F!Cluster \cup {0} : FirstOf(d) \notin Targets(l) /\ FirstOf(d) # c
              => /\ F!Chain(l2, d) = F!Chain(l, d) /\ F!ChainSet(l2, d) = F!ChainSet(l, d)
                 /\ F!ChainSet(l, d) \cap F!ChainSet(l, c) = {} /\ l2[FirstOf(d)] = l[FirstOf(d)]
  BY <1>1, FatFree
<1>3. ASSUME NEW j \in DOMAIN H2, H2[j] # 0
      PROVE  /\ j \in DOMAIN H /\ j # k /\ H2[j] = H[j] /\ H[j] # c
             /\ H[j] \in F!Cluster /\ l[H[j]] # 0 /\ H[j] \notin Targets(l)
             /\ F!ChainSet(l2, H[j]) = F!ChainSet(l, H[j]) /\ l2[H[j]] = l[H[j]]
             /\ j \in single2 => l[H[j]] = EOC
  <2>1. j # k /\ j \in DOMAIN H /\ H2[j] = H[j] /\ (j \in single2 => j \in single)
    BY <1>3
  <2>2. H[j] \in F!Cluster /\ l[H[j]] # 0 /\ H[j] \notin Targets(l) /\ (j \in single => l[H[j]] = EOC)
    BY <2>1, <1>3, HeldHead
  <2>3. H[j] # c
    BY <2>1, <2>2, <1>0 DEF Held
  <2> QED BY <2>1, <2>2, <2>3, <1>0, <1>2
<1>4. ASSUME NEW i \in DOMAIN H2, NEW j \in DOMAIN H2, H2[i] = H2[j], H2[i] # 0 PROVE i = j
  <2>1. i \in DOMAIN H /\ j \in DOMAIN H /\ H[i] = H[j] /\ H[i] # 0
    BY <1>3, <1>4
  <2> QED BY <2>1 DEF Held
<1>5. ASSUME NEW x \in F!Cluster, l2[x] # 0 PROVE \E j \in DOMAIN H2 : H2[j] # 0 /\ x \in F!ChainSet(l2, H2[j])
  <2>1. x \notin F!ChainSet(l, c) /\ l[x] # 0
    BY <1>2, <1>5
  <2>2. PICK j \in DOMAIN H : H[j] # 0 /\ x \in F!ChainSet(l, H[j])
    BY <2>1 DEF Held
  <2>3. j # k /\ j \in DOMAIN H2 /\ H2[j] = H[j]
    BY <2>1, <2>2
  <2> QED BY <2>2, <2>3, <1>3
<1> QED BY <1>2, <1>3, <1>4, <1>5 DEF Held

(* The same chains are held, by others. *)
LEMMA HeldMoved ==
  ASSUME NEW l, NEW H, NEW single, Held(l, H, single), NEW H2, NEW single2,
         \A j \in DOMAIN H2 : H2[j] # 0 =>
            \E k \in DOMAIN H : H[k] = H2[j] /\ (j \in single2 => k \in single),
         \A k \in DOMAIN H : H[k] # 0 => \E j \in DOMAIN H2 : H2[j] = H[k],
         \A i, j \in DOMAIN H2 : H2[i] = H2[j] /\ H2[i] # 0 => i = j
  PROVE  Held(l, H2, single2)
<1>1. ASSUME NEW j \in DOMAIN H2, H2[j] # 0
      PROVE  /\ H2[j] \in F!Cluster /\ l[H2[j]] # 0 /\ H2[j] \notin Targets(l)
             /\ j \in single2 => l[H2[j]] = EOC
  <2>1. PICK k \in DOMAIN H : H[k] = H2[j] /\ (j \in single2 => k \in single)
    BY <1>1
  <2> QED BY <2>1, <1>1, HeldHead
<1>2. ASSUME NEW x \in F!Cluster, l[x] # 0 PROVE \E j \in DOMAIN H2 : H2[j] # 0 /\ x \in F!ChainSet(l, H2[j])
  <2>1. PICK k \in DOMAIN H : H[k] # 0 /\ x \in F!ChainSet(l, H[k])
    BY <1>2 DEF Held
  <2>2. PICK j \in DOMAIN H2 : H2[j] = H[k]
    BY <2>1
  <2> QED BY <2>1, <2>2
<1> QED BY <1>1, <1>2 DEF Held

-----------------------------------------------------------------------------
LEMMA DivMod ==
  ASSUME NEW p \in Nat, NEW b \in Nat \ {0}
  PROVE  p \div b \in Nat /\ p % b \in 0 .. b - 1 /\ p = b * (p \div b) + (p % b)
OBVIOUS

LEMMA DivUnique ==
  ASSUME NEW p \in Nat, NEW b \in Nat \ {0}, NEW q \in Nat, NEW r \in 0 .. b - 1, p = b * q + r
  PROVE  p \div b = q /\ p % b = r
OBVIOUS

LEMMA DivBelow ==
  ASSUME NEW p \in Nat, NEW b \in Nat \ {0}, NEW n \in Nat
  PROVE  p < n * b <=> p \div b < n
OBVIOUS

LEMMA Times == ASSUME NEW n \in Nat, NEW b \in Nat PROVE n * b \in Nat
OBVIOUS

LEMMA PlaceBelow ==
  ASSUME NEW n \in Nat, NEW b \in Nat \ {0}, NEW k \in 1 .. n, NEW r \in 0 .. b - 1
  PROVE  b * (k - 1) + r \in Nat /\ b * (k - 1) + r < n * b
         /\ (b * (k - 1) + r) \div b = k - 1 /\ (b * (k - 1) + r) % b = r
<1>1. k - 1 \in Nat /\ b * (k - 1) \in Nat
  BY Times
<1>2. b * (k - 1) + r \in Nat
  BY <1>1
<1>3. (b * (k - 1) + r) \div b = k - 1 /\ (b * (k - 1) + r) % b = r
  <2> DEFINE p == b * (k - 1) + r
  <2>1. p \in Nat /\ p = b * (k - 1) + r
    BY <1>2
  <2> HIDE DEF p
  <2>2. p \div b = k - 1 /\ p % b = r
    BY <1>1, <2>1, DivUnique
  <2> QED BY <2>2 DEF p
<1>4. b * (k - 1) + r < n * b
  <2> DEFINE p == b * (k - 1) + r
  <2>1. p \in Nat /\ p \div b < n
    BY <1>2, <1>3
  <2> HIDE DEF p
  <2>2. p < n * b
    BY <2>1, DivBelow
  <2> QED BY <2>2 DEF p
<1> QED BY <1>2, <1>3, <1>4

LEMMA TimesMore == ASSUME NEW n \in Nat, NEW m \in Nat, NEW b \in Nat, m <= n PROVE m * b <= n * b
<1>1. n * b = m * b + (n - m) * b /\ (n - m) * b \in Nat /\ m * b \in Nat
  <2>1. n - m \in Nat
    OBVIOUS
  <2>2. (n - m) * b \in Nat /\ m * b \in Nat
    BY <2>1, Times
  <2>3. n * b = (m + (n - m)) * b
    OBVIOUS
  <2> QED BY <2>1, <2>2, <2>3
<1> QED BY <1>1

LenOf(slots) == F!Cardinality(DOMAIN slots)
DirSlots(slots) == LenOf(slots) \in Nat \ {0, 1} /\ slots \in [0 .. LenOf(slots) - 1 -> SlotType]

LEMMA CardinalityBelow == ASSUME NEW n \in Nat PROVE F!Cardinality(0 .. n - 1) = n
BY SizeBelow

(* Where an index of a directory is: its sector and the place in it. *)
SizeOf(l, d) == Len(F!Chain(l, d)) * F!EntriesPerSector

LEMMA SizeIs ==
  ASSUME F!DirectoryAssumption, program \in FatPrograms, NEW l, NEW d \in F!Cluster \cup {0}
  PROVE  /\ SizeOf(l, d) \in Nat \ {0, 1} /\ F!EntriesPerSector <= SizeOf(l, d)
         /\ SizeOf(l, d) <= F!MaxDirSectors * F!EntriesPerSector
<1>1. Len(F!Chain(l, d)) \in 1 .. F!MaxDirSectors
  BY ChainIs DEF IsChain
<1>2. F!EntriesPerSector \in Nat \ {0, 1} /\ F!MaxDirSectors \in Nat \ {0}
  BY Setting
<1>3. 1 * F!EntriesPerSector <= SizeOf(l, d) /\ SizeOf(l, d) \in Nat
  BY <1>1, <1>2, TimesMore, Times DEF SizeOf
<1>4. SizeOf(l, d) <= F!MaxDirSectors * F!EntriesPerSector
  BY <1>1, <1>2, TimesMore DEF SizeOf
<1> QED BY <1>2, <1>3, <1>4

LEMMA SlotsDomain ==
  ASSUME F!DirectoryAssumption, program \in FatPrograms, NEW c, NEW l, NEW d \in F!Cluster \cup {0}
  PROVE  /\ DOMAIN F!Slots(c, l, d) = 0 .. SizeOf(l, d) - 1
         /\ LenOf(F!Slots(c, l, d)) = SizeOf(l, d)
<1>1. DOMAIN F!Slots(c, l, d) = 0 .. SizeOf(l, d) - 1
  BY DEF F!Slots, SizeOf
<1>2. SizeOf(l, d) \in Nat
  BY SizeIs
<1> QED BY <1>1, <1>2, CardinalityBelow DEF LenOf

LEMMA IndexPlace ==
  ASSUME F!DirectoryAssumption, program \in FatPrograms, NEW l, NEW d \in F!Cluster \cup {0},
         NEW i \in 0 .. SizeOf(l, d) - 1
  PROVE  /\ i \div F!EntriesPerSector + 1 \in 1 .. Len(F!Chain(l, d)) /\ i % F!EntriesPerSector \in 0 .. F!EntriesPerSector - 1
         /\ SectorAt(l, d, i) \in F!ChainSet(l, d) /\ SectorAt(l, d, i) \in F!Cluster
<1>1. Len(F!Chain(l, d)) \in Nat /\ F!EntriesPerSector \in Nat \ {0} /\ SizeOf(l, d) \in Nat
  BY ChainIs, Setting, SizeIs DEF IsChain
<1>2. i \in Nat /\ i < Len(F!Chain(l, d)) * F!EntriesPerSector
  BY <1>1 DEF SizeOf
<1>3. i \div F!EntriesPerSector < Len(F!Chain(l, d)) /\ i \div F!EntriesPerSector \in Nat
       /\ i % F!EntriesPerSector \in 0 .. F!EntriesPerSector - 1
  BY <1>1, <1>2, DivMod, DivBelow
<1>4. i \div F!EntriesPerSector + 1 \in 1 .. Len(F!Chain(l, d))
  BY <1>1, <1>3
<1>5. SectorAt(l, d, i) \in F!ChainSet(l, d)
  BY <1>4, ChainElements DEF ElementsOf, SectorAt
<1> QED BY <1>3, <1>4, <1>5, ChainSetIs

LEMMA SlotIs ==
  ASSUME F!DirectoryAssumption, program \in FatPrograms, NEW c, NEW l, NEW d \in F!Cluster \cup {0},
         NEW i \in 0 .. SizeOf(l, d) - 1
  PROVE  F!Slots(c, l, d)[i] = F!SlotIn(c[SectorAt(l, d, i)], i)
BY DEF F!Slots, SectorAt, SizeOf

LEMMA SectorNotData ==
  ASSUME F!DirectoryAssumption, program \in FatPrograms, NEW x \in DirSector
  PROVE  x # F!Data
<1>1. DOMAIN x = 0 .. F!EntriesPerSector - 1 /\ 0 \in 0 .. F!EntriesPerSector - 1
  BY Setting DEF DirSector
<1>2. DOMAIN F!Data = {}
  BY DEF F!Data
<1> QED BY <1>1, <1>2

(* The first entry of the k-th sector. *)
LEMMA PlaceIndex ==
  ASSUME F!DirectoryAssumption, program \in FatPrograms, NEW l, NEW d \in F!Cluster \cup {0},
         NEW k \in 1 .. Len(F!Chain(l, d)), NEW r \in 0 .. F!EntriesPerSector - 1
  PROVE  LET i == F!EntriesPerSector * (k - 1) + r IN
         i \in 0 .. SizeOf(l, d) - 1 /\ SectorAt(l, d, i) = F!Chain(l, d)[k] /\ i % F!EntriesPerSector = r
<1>1. Len(F!Chain(l, d)) \in Nat /\ F!EntriesPerSector \in Nat \ {0} /\ SizeOf(l, d) \in Nat
  BY ChainIs, Setting, SizeIs DEF IsChain
<1> DEFINE i == F!EntriesPerSector * (k - 1) + r
<1>2. i \in Nat /\ i < SizeOf(l, d) /\ i \div F!EntriesPerSector = k - 1 /\ i % F!EntriesPerSector = r
  BY <1>1, PlaceBelow DEF SizeOf
<1> HIDE DEF i
<1>3. i \div F!EntriesPerSector + 1 = k
  BY <1>2
<1>4. i \in 0 .. SizeOf(l, d) - 1 /\ SectorAt(l, d, i) = F!Chain(l, d)[k]
  BY <1>1, <1>2, <1>3 DEF SectorAt
<1> QED BY <1>2, <1>4 DEF i

LEMMA SamePlace ==
  ASSUME F!DirectoryAssumption, program \in FatPrograms, NEW l, Good(l), NEW d \in F!Cluster \cup {0},
         FirstOf(d) \notin Targets(l), NEW i \in 0 .. SizeOf(l, d) - 1, NEW j \in 0 .. SizeOf(l, d) - 1,
         SectorAt(l, d, i) = SectorAt(l, d, j), i % F!EntriesPerSector = j % F!EntriesPerSector
  PROVE  i = j
<1>1. i \in Nat /\ j \in Nat /\ F!EntriesPerSector \in Nat \ {0}
  BY Setting, SizeIs
<1>2. i \div F!EntriesPerSector + 1 \in 1 .. Len(F!Chain(l, d)) /\ j \div F!EntriesPerSector + 1 \in 1 .. Len(F!Chain(l, d))
  BY IndexPlace
<1>3. i \div F!EntriesPerSector + 1 = j \div F!EntriesPerSector + 1
  BY <1>2, ChainFacts DEF SectorAt
<1>4. i \div F!EntriesPerSector = j \div F!EntriesPerSector
  BY <1>1, <1>3, DivMod
<1>5. i = F!EntriesPerSector * (i \div F!EntriesPerSector) + (i % F!EntriesPerSector)
      /\ j = F!EntriesPerSector * (j \div F!EntriesPerSector) + (j % F!EntriesPerSector)
  BY <1>1, DivMod
<1> QED BY <1>4, <1>5

LEMMA GarbageOrTyped ==
  ASSUME F!DirectoryAssumption, program \in FatPrograms, NEW c, Sectored(c), NEW l, NEW d \in F!Cluster \cup {0},
         NEW i \in 0 .. SizeOf(l, d) - 1
  PROVE  F!Slots(c, l, d)[i] \in SlotType \/ F!Slots(c, l, d)[i] = F!Garbage
<1>1. SectorAt(l, d, i) \in F!Cluster /\ i % F!EntriesPerSector \in 0 .. F!EntriesPerSector - 1
  BY IndexPlace
<1>2. F!Slots(c, l, d)[i] = F!SlotIn(c[SectorAt(l, d, i)], i)
  BY SlotIs
<1>3. c[SectorAt(l, d, i)] = F!Data \/ c[SectorAt(l, d, i)] \in DirSector
  BY <1>1 DEF Sectored
<1> QED BY <1>1, <1>2, <1>3 DEF F!SlotIn, DirSector

LEMMA SlotsTyped ==
  ASSUME F!DirectoryAssumption, program \in FatPrograms, NEW c, Sectored(c), NEW l, NEW d \in F!Cluster \cup {0},
         NoneData(F!ChainSet(l, d), c)
  PROVE  DirSlots(F!Slots(c, l, d))
<1>1. ASSUME NEW i \in 0 .. SizeOf(l, d) - 1 PROVE F!Slots(c, l, d)[i] \in SlotType
  <2>1. SectorAt(l, d, i) \in F!Cluster /\ SectorAt(l, d, i) \in F!ChainSet(l, d)
        /\ i % F!EntriesPerSector \in 0 .. F!EntriesPerSector - 1
    BY IndexPlace
  <2>2. F!Slots(c, l, d)[i] = F!SlotIn(c[SectorAt(l, d, i)], i)
    BY SlotIs
  <2>3. c[SectorAt(l, d, i)] \in DirSector /\ c[SectorAt(l, d, i)] # F!Data
    BY <2>1 DEF Sectored, NoneData
  <2> QED BY <2>1, <2>2, <2>3 DEF F!SlotIn, DirSector
<1>2. DOMAIN F!Slots(c, l, d) = 0 .. SizeOf(l, d) - 1 /\ LenOf(F!Slots(c, l, d)) = SizeOf(l, d)
      /\ SizeOf(l, d) \in Nat \ {0, 1}
  BY SlotsDomain, SizeIs
<1>3. F!Slots(c, l, d) = [i \in DOMAIN F!Slots(c, l, d) |-> F!Slots(c, l, d)[i]]
  BY DEF F!Slots
<1> QED BY <1>1, <1>2, <1>3 DEF DirSlots

LEMMA SlotsAgree ==
  ASSUME F!DirectoryAssumption, program \in FatPrograms, NEW c1, NEW c2, NEW l1, NEW l2, NEW d \in F!Cluster \cup {0},
         F!Chain(l2, d) = F!Chain(l1, d), AgreeOn(F!ChainSet(l1, d), c1, c2)
  PROVE  F!Slots(c2, l2, d) = F!Slots(c1, l1, d)
<1>1. SizeOf(l2, d) = SizeOf(l1, d)
  BY DEF SizeOf
<1>2. ASSUME NEW i \in 0 .. SizeOf(l1, d) - 1 PROVE F!Slots(c2, l2, d)[i] = F!Slots(c1, l1, d)[i]
  <2>1. SectorAt(l1, d, i) \in F!ChainSet(l1, d) /\ SectorAt(l2, d, i) = SectorAt(l1, d, i)
    BY IndexPlace DEF SectorAt
  <2>2. F!Slots(c1, l1, d)[i] = F!SlotIn(c1[SectorAt(l1, d, i)], i)
    BY SlotIs
  <2>3. F!Slots(c2, l2, d)[i] = F!SlotIn(c2[SectorAt(l2, d, i)], i)
    BY <1>1, SlotIs
  <2> QED BY <2>1, <2>2, <2>3 DEF AgreeOn
<1>3. DOMAIN F!Slots(c1, l1, d) = 0 .. SizeOf(l1, d) - 1 /\ DOMAIN F!Slots(c2, l2, d) = 0 .. SizeOf(l1, d) - 1
  BY <1>1, SlotsDomain
<1>4. F!Slots(c1, l1, d) = [i \in DOMAIN F!Slots(c1, l1, d) |-> F!Slots(c1, l1, d)[i]]
      /\ F!Slots(c2, l2, d) = [i \in DOMAIN F!Slots(c2, l2, d) |-> F!Slots(c2, l2, d)[i]]
  BY DEF F!Slots
<1> QED BY <1>2, <1>3, <1>4

(* One entry is stored in its sector. *)
Stored(c, l, d, i, slot) ==
  [c EXCEPT ![SectorAt(l, d, i)] = [c[SectorAt(l, d, i)] EXCEPT ![i % F!EntriesPerSector] = slot]]
With(slots, i, slot) == [slots EXCEPT ![i] = slot]

LEMMA SlotsStored ==
  ASSUME F!DirectoryAssumption, program \in FatPrograms, NEW c, Sectored(c), NEW l, Good(l),
         NEW d \in F!Cluster \cup {0}, FirstOf(d) \notin Targets(l), NoneData(F!ChainSet(l, d), c),
         NEW i \in 0 .. SizeOf(l, d) - 1, NEW slot \in SlotType
  PROVE  /\ Sectored(Stored(c, l, d, i, slot))
         /\ F!Slots(Stored(c, l, d, i, slot), l, d) = With(F!Slots(c, l, d), i, slot)
         /\ \A x \in F!Cluster : x # SectorAt(l, d, i) => Stored(c, l, d, i, slot)[x] = c[x]
         /\ Stored(c, l, d, i, slot)[SectorAt(l, d, i)] # F!Data
<1> DEFINE s == SectorAt(l, d, i)
           c2 == Stored(c, l, d, i, slot)
           E == F!EntriesPerSector
<1>1. s \in F!Cluster /\ s \in F!ChainSet(l, d) /\ i % E \in 0 .. E - 1
  BY IndexPlace
<1>2. c[s] \in DirSector /\ c \in [F!Cluster -> DirSector \cup {F!Data}]
  BY <1>1 DEF Sectored, NoneData
<1>3. c2 = [c EXCEPT ![s] = [c[s] EXCEPT ![i % E] = slot]]
  BY DEF Stored
<1>4. c2[s] = [c[s] EXCEPT ![i % E] = slot] /\ c2[s] \in DirSector
  BY <1>1, <1>2, <1>3 DEF DirSector
<1>5. \A x \in F!Cluster : x # s => c2[x] = c[x]
  BY <1>2, <1>3
<1>6. Sectored(c2)
  BY <1>2, <1>3, <1>4 DEF Sectored
<1> HIDE DEF c2
<1>7. c2[s] # F!Data /\ c[s] # F!Data
  BY <1>2, <1>4, SectorNotData
<1>8. ASSUME NEW j \in 0 .. SizeOf(l, d) - 1
      PROVE  F!Slots(c2, l, d)[j] = IF j = i THEN slot ELSE F!Slots(c, l, d)[j]
  <2>1. F!Slots(c, l, d)[j] = F!SlotIn(c[SectorAt(l, d, j)], j) /\ F!Slots(c2, l, d)[j] = F!SlotIn(c2[SectorAt(l, d, j)], j)
    BY SlotIs
  <2>2. SectorAt(l, d, j) \in F!Cluster /\ j % E \in 0 .. E - 1
    BY IndexPlace
  <2>3. CASE SectorAt(l, d, j) # s
    BY <2>1, <2>2, <2>3, <1>5
  <2>4. CASE SectorAt(l, d, j) = s
    <3>1. F!Slots(c, l, d)[j] = c[s][j % E] /\ F!Slots(c2, l, d)[j] = c2[s][j % E]
      BY <2>1, <2>4, <1>7 DEF F!SlotIn
    <3>2. c2[s][j % E] = IF j % E = i % E THEN slot ELSE c[s][j % E]
      BY <1>2, <1>4, <2>2 DEF DirSector
    <3>3. j % E = i % E => j = i
      BY <2>4, SamePlace
    <3> QED BY <3>1, <3>2, <3>3
  <2> QED BY <2>3, <2>4
<1>9. DOMAIN F!Slots(c, l, d) = 0 .. SizeOf(l, d) - 1 /\ DOMAIN F!Slots(c2, l, d) = 0 .. SizeOf(l, d) - 1
  BY SlotsDomain
<1>10. F!Slots(c2, l, d) = [j \in DOMAIN F!Slots(c2, l, d) |-> F!Slots(c2, l, d)[j]]
       /\ F!Slots(c, l, d) = [j \in DOMAIN F!Slots(c, l, d) |-> F!Slots(c, l, d)[j]]
  BY DEF F!Slots
<1>11. F!Slots(c2, l, d) = With(F!Slots(c, l, d), i, slot)
  BY <1>8, <1>9, <1>10 DEF With
<1> QED BY <1>5, <1>6, <1>7, <1>11 DEF c2

(* A directory gets a sector of free entries. *)
Longer(slots) ==
  [i \in 0 .. LenOf(slots) + F!EntriesPerSector - 1 |-> IF i < LenOf(slots) THEN slots[i] ELSE F!Free]

LEMMA SlotsLonger ==
  ASSUME F!DirectoryAssumption, program \in FatPrograms, NEW c1, NEW c2, NEW l1, NEW l2, NEW d \in F!Cluster \cup {0},
         NEW x \in F!Cluster, F!Chain(l2, d) = Append(F!Chain(l1, d), x),
         AgreeOn(F!ChainSet(l1, d), c1, c2), c2[x] = F!Zeroed
  PROVE  F!Slots(c2, l2, d) = Longer(F!Slots(c1, l1, d)) /\ SizeOf(l2, d) = SizeOf(l1, d) + F!EntriesPerSector
<1> DEFINE E == F!EntriesPerSector
           n == Len(F!Chain(l1, d))
<1>1. F!Chain(l1, d) \in Seq(F!Cluster) /\ n \in Nat /\ E \in Nat \ {0, 1} /\ SizeOf(l1, d) \in Nat
  BY ChainIs, Setting, SizeIs DEF IsChain
<1>2. Len(F!Chain(l2, d)) = n + 1 /\ F!Chain(l2, d)[n + 1] = x /\ \A k \in 1 .. n : F!Chain(l2, d)[k] = F!Chain(l1, d)[k]
  BY <1>1
<1>3. SizeOf(l2, d) = SizeOf(l1, d) + E
  <2>1. (n + 1) * E = n * E + E
    BY <1>1
  <2> QED BY <2>1, <1>2 DEF SizeOf
<1>4. LenOf(F!Slots(c1, l1, d)) = SizeOf(l1, d) /\ DOMAIN F!Slots(c1, l1, d) = 0 .. SizeOf(l1, d) - 1
      /\ DOMAIN F!Slots(c2, l2, d) = 0 .. SizeOf(l2, d) - 1
  BY SlotsDomain
<1>5. ASSUME NEW i \in 0 .. SizeOf(l2, d) - 1
      PROVE  F!Slots(c2, l2, d)[i] = IF i < SizeOf(l1, d) THEN F!Slots(c1, l1, d)[i] ELSE F!Free
  <2>1. F!Slots(c2, l2, d)[i] = F!SlotIn(c2[SectorAt(l2, d, i)], i)
    BY SlotIs
  <2>2. i \div E + 1 \in 1 .. n + 1 /\ i % E \in 0 .. E - 1
    BY <1>2, IndexPlace
  <2>3. CASE i < SizeOf(l1, d)
    <3>1. i \in 0 .. SizeOf(l1, d) - 1
      BY <2>3, <1>1, <1>3
    <3>2. i \div E + 1 \in 1 .. n /\ SectorAt(l1, d, i) \in F!ChainSet(l1, d)
      BY <3>1, IndexPlace
    <3>3. SectorAt(l2, d, i) = SectorAt(l1, d, i)
      BY <3>2, <1>2 DEF SectorAt
    <3>4. F!Slots(c1, l1, d)[i] = F!SlotIn(c1[SectorAt(l1, d, i)], i)
      BY <3>1, SlotsDomain, SlotIs
    <3>5. c2[SectorAt(l1, d, i)] = c1[SectorAt(l1, d, i)]
      BY <3>2 DEF AgreeOn
    <3> QED BY <3>3, <3>4, <3>5, <2>1, <2>3
  <2>4. CASE ~(i < SizeOf(l1, d))
    <3>0. i \in Nat /\ SizeOf(l1, d) = n * E /\ n \in Nat /\ E \in Nat \ {0} /\ ~(i < n * E)
      BY <2>4, <1>1, <1>3 DEF SizeOf
    <3>1. ~(i \div E < n) /\ i \div E \in Nat
      BY <3>0, DivBelow, DivMod
    <3>2. i \div E + 1 = n + 1
      <4> DEFINE q == i \div E
      <4> HIDE DEF n, q
      <4>1. q \in Nat /\ n \in Nat /\ ~(q < n) /\ q + 1 \in 1 .. n + 1
        BY <3>0, <3>1, <2>2 DEF q
      <4> QED BY <4>1 DEF q
    <3>3. SectorAt(l2, d, i) = x
      BY <3>2, <1>2 DEF SectorAt
    <3>4. F!Zeroed # F!Data
      <4>1. DOMAIN F!Zeroed = 0 .. E - 1 /\ 0 \in 0 .. E - 1 /\ DOMAIN F!Data = {}
        BY <1>1 DEF F!Zeroed, F!Data
      <4> QED BY <4>1
    <3> QED BY <3>3, <3>4, <2>1, <2>2, <2>4 DEF F!SlotIn, F!Zeroed
  <2> QED BY <2>3, <2>4
<1>6. F!Slots(c2, l2, d) = [i \in DOMAIN F!Slots(c2, l2, d) |-> F!Slots(c2, l2, d)[i]]
  BY DEF F!Slots
<1>7. F!Slots(c2, l2, d) = Longer(F!Slots(c1, l1, d))
  <2>1. LenOf(F!Slots(c1, l1, d)) + E - 1 = SizeOf(l2, d) - 1 /\ LenOf(F!Slots(c1, l1, d)) = SizeOf(l1, d)
    BY <1>1, <1>3, <1>4
  <2>2. Longer(F!Slots(c1, l1, d)) = [i \in 0 .. SizeOf(l2, d) - 1 |-> IF i < SizeOf(l1, d) THEN F!Slots(c1, l1, d)[i] ELSE F!Free]
    BY <2>1 DEF Longer
  <2>3. F!Slots(c2, l2, d) = [i \in 0 .. SizeOf(l2, d) - 1 |-> F!Slots(c2, l2, d)[i]]
    BY <1>4, <1>6
  <2> QED BY <2>2, <2>3, <1>5
<1> QED BY <1>3, <1>7

(* The entries of the first sectors. *)
PrefixOf(short, long) ==
  /\ DOMAIN short = 0 .. LenOf(short) - 1 /\ DOMAIN long = 0 .. LenOf(long) - 1
  /\ LenOf(short) \in Nat /\ LenOf(long) \in Nat /\ LenOf(short) <= LenOf(long)
  /\ \A i \in DOMAIN short : short[i] = long[i]

LEMMA SlotsPrefix ==
  ASSUME F!DirectoryAssumption, program \in FatPrograms, NEW c, NEW l1, NEW l2, NEW d \in F!Cluster \cup {0},
         Begins(F!Chain(l2, d), F!Chain(l1, d))
  PROVE  PrefixOf(F!Slots(c, l1, d), F!Slots(c, l2, d)) /\ F!ChainSet(l1, d) \subseteq F!ChainSet(l2, d)
<1>1. /\ Len(F!Chain(l1, d)) \in Nat /\ Len(F!Chain(l2, d)) \in Nat /\ F!EntriesPerSector \in Nat
      /\ SizeOf(l1, d) \in Nat /\ SizeOf(l2, d) \in Nat
      /\ DOMAIN F!Slots(c, l1, d) = 0 .. SizeOf(l1, d) - 1 /\ DOMAIN F!Slots(c, l2, d) = 0 .. SizeOf(l2, d) - 1
      /\ LenOf(F!Slots(c, l1, d)) = SizeOf(l1, d) /\ LenOf(F!Slots(c, l2, d)) = SizeOf(l2, d)
  BY ChainIs, Setting, SizeIs, SlotsDomain DEF IsChain
<1>2. SizeOf(l1, d) <= SizeOf(l2, d)
  BY <1>1, TimesMore DEF SizeOf, Begins
<1>3. ASSUME NEW i \in 0 .. SizeOf(l1, d) - 1 PROVE F!Slots(c, l1, d)[i] = F!Slots(c, l2, d)[i]
  <2>1. i \in 0 .. SizeOf(l2, d) - 1
    BY <1>1, <1>2
  <2>2. i \div F!EntriesPerSector + 1 \in 1 .. Len(F!Chain(l1, d))
    BY IndexPlace
  <2>3. SectorAt(l2, d, i) = SectorAt(l1, d, i)
    BY <2>2 DEF SectorAt, Begins
  <2>4. F!Slots(c, l1, d)[i] = F!SlotIn(c[SectorAt(l1, d, i)], i)
    BY SlotIs
  <2>5. F!Slots(c, l2, d)[i] = F!SlotIn(c[SectorAt(l2, d, i)], i)
    BY <2>1, SlotIs
  <2> QED BY <2>3, <2>4, <2>5
<1>4. F!ChainSet(l1, d) \subseteq F!ChainSet(l2, d)
  <2>1. F!ChainSet(l1, d) = ElementsOf(F!Chain(l1, d)) /\ F!ChainSet(l2, d) = ElementsOf(F!Chain(l2, d))
    BY ChainElements
  <2> QED BY <2>1, <1>1 DEF ElementsOf, Begins
<1> QED BY <1>1, <1>2, <1>3, <1>4 DEF PrefixOf

-----------------------------------------------------------------------------
(* The first free entry of a directory, and the entries that are in use. *)
Indexed(slots) == LenOf(slots) \in Nat /\ DOMAIN slots = 0 .. LenOf(slots) - 1
UsedOf(slots) == {i \in DOMAIN slots : InUse(slots, i)}

LEMMA FirstFreeIs ==
  ASSUME NEW slots, Indexed(slots)
  PROVE  /\ F!FirstFree(slots) \in 0 .. LenOf(slots)
         /\ F!FirstFree(slots) < LenOf(slots) => slots[F!FirstFree(slots)].kind = "free"
         /\ \A i \in DOMAIN slots : i < F!FirstFree(slots) => slots[i].kind # "free"
         /\ \A i \in DOMAIN slots : slots[i].kind = "free" => F!FirstFree(slots) <= i
<1> DEFINE S == {i \in DOMAIN slots : slots[i].kind = "free"} \cup {LenOf(slots)}
<1>1. S \subseteq Nat /\ S # {} /\ S \subseteq 0 .. LenOf(slots)
  BY DEF Indexed
<1>2. F!FirstFree(slots) = F!Min(S)
  BY DEF F!FirstFree, LenOf
<1>3. \E x \in S : \A y \in S : x <= y
  <2> HIDE DEF S
  <2> QED BY <1>1, LeastNat
<1>4. F!FirstFree(slots) \in S /\ \A y \in S : F!FirstFree(slots) <= y
  <2> HIDE DEF S
  <2> QED BY <1>2, <1>3 DEF F!Min
<1> QED BY <1>1, <1>4 DEF Indexed

LEMMA LiveIs ==
  ASSUME NEW slots, Indexed(slots), NoneBehind(slots)
  PROVE  F!Live(slots) = UsedOf(slots)
<1>1. ASSUME NEW i \in DOMAIN slots, InUse(slots, i) PROVE i < F!FirstFree(slots)
  <2>1. SUFFICES ASSUME ~(i < F!FirstFree(slots)) PROVE FALSE
    OBVIOUS
  <2>2. i \in Nat /\ i < LenOf(slots) /\ F!FirstFree(slots) \in Nat /\ F!FirstFree(slots) <= i
    BY <2>1, FirstFreeIs DEF Indexed
  <2>3. F!FirstFree(slots) \in DOMAIN slots /\ slots[F!FirstFree(slots)].kind = "free"
    BY <2>2, FirstFreeIs DEF Indexed
  <2>4. slots[i].kind \in {"file", "subdir"}
    BY <1>1 DEF InUse, F!isFatFileOrSubdir
  <2>5. F!FirstFree(slots) # i
    BY <2>3, <2>4
  <2>6. F!FirstFree(slots) < i
    BY <2>2, <2>5
  <2> QED BY <2>3, <2>4, <2>6 DEF NoneBehind
<1>2. F!Live(slots) \subseteq UsedOf(slots)
  BY DEF F!Live, UsedOf, InUse
<1>3. UsedOf(slots) \subseteq F!Live(slots)
  BY <1>1 DEF F!Live, UsedOf, InUse
<1> QED BY <1>2, <1>3

SubdirsOf(slots) == {slots[i].first : i \in {j \in UsedOf(slots) : slots[j].kind = "subdir"}}
LEMMA SubdirsIs ==
  ASSUME NEW slots, Indexed(slots), NoneBehind(slots)
  PROVE  F!Subdirs(slots) = SubdirsOf(slots)
BY LiveIs DEF F!Subdirs, SubdirsOf

LEMMA LivePrefix ==
  ASSUME NEW s, NEW t, PrefixOf(s, t)
  PROVE  F!Live(s) \subseteq F!Live(t) /\ F!Subdirs(s) \subseteq F!Subdirs(t) /\ (NoneBehind(t) => NoneBehind(s))
<1>1. Indexed(s) /\ Indexed(t) /\ DOMAIN s \subseteq DOMAIN t /\ \A i \in DOMAIN s : s[i] = t[i]
  BY DEF PrefixOf, Indexed
<1>2. ASSUME NEW i \in F!Live(s) PROVE i \in F!Live(t)
  <2>1. i \in DOMAIN s /\ i < F!FirstFree(s) /\ F!isFatFileOrSubdir(s[i])
    BY DEF F!Live
  <2>2. i < F!FirstFree(t)
    <3>1. SUFFICES ASSUME ~(i < F!FirstFree(t)) PROVE FALSE
      OBVIOUS
    <3>2. F!FirstFree(t) \in Nat /\ i \in Nat /\ F!FirstFree(t) <= i /\ i < LenOf(s) /\ LenOf(s) <= LenOf(t) /\ LenOf(s) \in Nat
          /\ LenOf(t) \in Nat /\ F!FirstFree(s) \in Nat
      BY <1>1, <2>1, <3>1, FirstFreeIs DEF PrefixOf, Indexed
    <3>3. F!FirstFree(t) \in DOMAIN s /\ F!FirstFree(t) < LenOf(t) /\ F!FirstFree(t) < F!FirstFree(s)
      BY <3>2, <1>1, <2>1 DEF Indexed
    <3>4. t[F!FirstFree(t)].kind = "free"
      BY <1>1, <3>3, FirstFreeIs
    <3>5. s[F!FirstFree(t)].kind = "free"
      BY <1>1, <3>3, <3>4
    <3>6. s[F!FirstFree(t)].kind # "free"
      BY <1>1, <3>3, FirstFreeIs
    <3> QED BY <3>5, <3>6
  <2> QED BY <1>1, <2>1, <2>2 DEF F!Live
<1>3. F!Subdirs(s) \subseteq F!Subdirs(t)
  <2>1. F!Live(s) \subseteq DOMAIN s
    BY DEF F!Live
  <2> QED BY <1>1, <1>2, <2>1 DEF F!Subdirs
<1>4. NoneBehind(t) => NoneBehind(s)
  BY <1>1 DEF NoneBehind
<1> QED BY <1>2, <1>3, <1>4

LEMMA SlotsIndexed ==
  ASSUME F!DirectoryAssumption, program \in FatPrograms, NEW c, NEW l, NEW d \in F!Cluster \cup {0}
  PROVE  Indexed(F!Slots(c, l, d))
BY SlotsDomain, SizeIs DEF Indexed

LEMMA SubdirsTyped ==
  ASSUME F!DirectoryAssumption, program \in FatPrograms, NEW c, Sectored(c), NEW l, NEW d \in F!Cluster \cup {0}
  PROVE  F!Subdirs(F!Slots(c, l, d)) \subseteq F!Cluster \ {rootDirStart}
<1> SUFFICES ASSUME NEW i \in F!Live(F!Slots(c, l, d)), F!Slots(c, l, d)[i].kind = "subdir"
             PROVE  F!Slots(c, l, d)[i].first \in F!Cluster \ {rootDirStart}
  BY DEF F!Subdirs
<1>1. i \in 0 .. SizeOf(l, d) - 1
  BY SlotsDomain DEF F!Live
<1>2. F!Slots(c, l, d)[i] # F!Garbage
  BY DEF F!Garbage, F!Slot
<1>3. F!Slots(c, l, d)[i] \in SlotType
  BY <1>1, <1>2, GarbageOrTyped
<1> QED BY <1>3 DEF SlotType

-----------------------------------------------------------------------------
(* The tree of directories is the least set that has the subdirectories of its own. *)
ClosedUnder(c, l, R) == \A d \in R : F!Subdirs(F!Slots(c, l, d)) \subseteq R
Least(c, l, top, D) == top \in D /\ \A R : top \in R /\ ClosedUnder(c, l, R) => D \subseteq R
Universe(top) == Plus(F!Cluster \ {rootDirStart}, top)
TreeOn(c, l, D) == [d \in D |-> F!Slots(c, l, d)]

LEMMA UniverseSize ==
  ASSUME F!DirectoryAssumption, program \in FatPrograms, NEW top \in F!Cluster \cup {0}
  PROVE  /\ F!IsFiniteSet(Universe(top)) /\ F!Cardinality(Universe(top)) <= F!Cardinality(F!Cluster)
         /\ F!Cardinality(Universe(top)) \in Nat /\ F!Cardinality(F!Cluster) \in Nat \ {0}
         /\ Universe(top) \subseteq F!Cluster \cup {0}
<1>1. F!IsFiniteSet(F!Cluster) /\ rootDirStart \in F!Cluster /\ 0 \notin F!Cluster
  BY Setting
<1>2. F!Cardinality(F!Cluster) \in Nat \ {0}
  BY <1>1, FiniteSize
<1>3. CASE top = 0
  <2> DEFINE S == F!Cluster \ {rootDirStart}
  <2>1. F!IsFiniteSet(S) /\ F!Cardinality(S) = F!Cardinality(F!Cluster) - 1
    BY <1>1, OneLess
  <2>2. 0 \notin S
    BY <1>1
  <2> HIDE DEF S
  <2>3. F!IsFiniteSet(S \cup {0}) /\ F!Cardinality(S \cup {0}) = F!Cardinality(S) + 1
    BY <2>1, <2>2, OneMore
  <2>4. Universe(top) = S \cup {0}
    BY <1>3 DEF Universe, S, Plus
  <2>5. Universe(top) \subseteq F!Cluster \cup {0}
    BY <1>3 DEF Universe, Plus
  <2> QED BY <2>1, <2>3, <2>4, <2>5, <1>2
<1>4. CASE top \in F!Cluster
  <2>1. Universe(top) \in SUBSET F!Cluster
    BY <1>4 DEF Universe, Plus
  <2>2. F!IsFiniteSet(Universe(top)) /\ F!Cardinality(Universe(top)) <= F!Cardinality(F!Cluster)
    BY <1>1, <2>1, SmallerSet
  <2> QED BY <2>1, <2>2, <1>2, FiniteSize
<1> QED BY <1>3, <1>4

LEMMA UniverseClosed ==
  ASSUME F!DirectoryAssumption, program \in FatPrograms, NEW c, Sectored(c), NEW l, NEW top \in F!Cluster \cup {0}
  PROVE  /\ \A d \in Universe(top) : F!Subdirs(F!Slots(c, l, d)) \subseteq Universe(top)
         /\ top \in Universe(top) /\ Universe(top) \subseteq F!Cluster \cup {0}
<1>1. \A d \in F!Cluster \cup {0} : F!Subdirs(F!Slots(c, l, d)) \subseteq F!Cluster \ {rootDirStart}
  BY SubdirsTyped
<1> QED BY <1>1 DEF Universe, Plus

GrownOf(c, l, D) ==
  LET more == UNION {F!Subdirs(F!Slots(c, l, d)) : d \in D} IN IF more \subseteq D THEN D ELSE D \cup more

LEMMA GrownLeast ==
  ASSUME NEW c, NEW l, NEW top, NEW D, Least(c, l, top, D)
  PROVE  Least(c, l, top, GrownOf(c, l, D)) /\ D \subseteq GrownOf(c, l, D)
<1>1. D \subseteq GrownOf(c, l, D) /\ top \in D
  BY DEF GrownOf, Least
<1>2. ASSUME NEW R, top \in R, ClosedUnder(c, l, R) PROVE GrownOf(c, l, D) \subseteq R
  <2>1. D \subseteq R
    BY <1>2 DEF Least
  <2> QED BY <2>1, <1>2 DEF GrownOf, ClosedUnder
<1> QED BY <1>1, <1>2 DEF Least

(* Either nothing more is found, or one more directory at least. *)
LEMMA GrownMore ==
  ASSUME NEW c, NEW l, NEW D, NEW U, F!IsFiniteSet(U), D \subseteq U, GrownOf(c, l, D) \subseteq U
  PROVE  \/ GrownOf(c, l, D) = D /\ ClosedUnder(c, l, D)
         \/ F!Cardinality(GrownOf(c, l, D)) >= F!Cardinality(D) + 1
<1> DEFINE more == UNION {F!Subdirs(F!Slots(c, l, d)) : d \in D}
           G == GrownOf(c, l, D)
<1>1. CASE more \subseteq D
  <2>1. ClosedUnder(c, l, D)
    BY <1>1 DEF ClosedUnder
  <2> QED BY <1>1, <2>1 DEF GrownOf
<1>2. CASE ~(more \subseteq D)
  <2>1. G = D \cup more
    BY <1>2 DEF GrownOf
  <2>2. D \in SUBSET G /\ D # G /\ G \in SUBSET U
    BY <1>2, <2>1
  <2> HIDE DEF G
  <2>3. F!IsFiniteSet(G)
    BY <2>2, SmallerSet
  <2>4. F!Cardinality(D) <= F!Cardinality(G) /\ F!Cardinality(D) # F!Cardinality(G) /\ F!IsFiniteSet(D)
    BY <2>2, <2>3, SmallerSet
  <2>5. F!Cardinality(D) \in Nat /\ F!Cardinality(G) \in Nat
    BY <2>3, <2>4, FiniteSize
  <2>6. F!Cardinality(G) >= F!Cardinality(D) + 1
    BY <2>4, <2>5
  <2> QED BY <2>6 DEF G
<1> QED BY <1>1, <1>2

TreeFacts(c, l, top, T) ==
  /\ T = TreeOn(c, l, DOMAIN T) /\ DOMAIN T \subseteq Universe(top)
  /\ Least(c, l, top, DOMAIN T) /\ ClosedUnder(c, l, DOMAIN T)

LEMMA TreeIs ==
  ASSUME F!DirectoryAssumption, program \in FatPrograms, NEW c, Sectored(c), NEW l, NEW top \in F!Cluster \cup {0}
  PROVE  TreeFacts(c, l, top, F!Tree(c, l, top))
<1> DEFINE U == Universe(top)
           n == F!Cardinality(F!Cluster) - 1
           S == SUBSET U
           next == [D \in S |-> GrownOf(c, l, D)]
           step(level, k) ==
             IF k = 0 THEN [d \in {top} |-> F!Slots(c, l, d)]
             ELSE LET tree == level[k - 1]
                      more == UNION {F!Subdirs(tree[d]) : d \in DOMAIN tree}
                  IN IF more \subseteq DOMAIN tree THEN tree ELSE [d \in DOMAIN tree \cup more |-> F!Slots(c, l, d)]
           Level(level) == level = [k \in 0 .. n |-> step(level, k)]
<1>1. n \in Nat /\ {top} \in S
  BY UniverseSize, UniverseClosed
<1>2. next \in [S -> S]
  <2>1. ASSUME NEW D \in S PROVE GrownOf(c, l, D) \in S
    BY UniverseClosed DEF GrownOf
  <2> QED BY <2>1
<1>3. PICK w \in [0 .. n -> S] : w[0] = {top} /\ \A k \in 1 .. n : w[k] = next[w[k - 1]]
  <2> DEFINE start == {top}
  <2>1. start \in S
    BY <1>1
  <2> HIDE DEF S, next, n, start
  <2>2. \E w \in [0 .. n -> S] : w[0] = start /\ \A k \in 1 .. n : w[k] = next[w[k - 1]]
    <3>1. n \in Nat
      BY <1>1
    <3> QED BY SMTT(60), <3>1, <1>2, <2>1, IterationExists
  <2> QED BY <2>2 DEF start
<1>4. ASSUME NEW k \in 1 .. n PROVE k - 1 \in 0 .. n /\ k \in 0 .. n /\ w[k - 1] \in S /\ w[k] = GrownOf(c, l, w[k - 1])
  <2>1. k - 1 \in 0 .. n /\ k \in 0 .. n
    BY <1>1
  <2> QED BY <2>1, <1>3
<1>5. \E level : Level(level)
  <2> DEFINE v == [k \in 0 .. n |-> TreeOn(c, l, w[k])]
  <2>1. ASSUME NEW k \in 0 .. n PROVE v[k] = step(v, k)
    <3>1. CASE k = 0
      BY <3>1, <1>1, <1>3 DEF TreeOn
    <3>2. CASE k # 0
      <4>1. k \in 1 .. n
        BY <3>2, <1>1
      <4> DEFINE D == w[k - 1]
                 t == v[k - 1]
                 more == UNION {F!Subdirs(t[d]) : d \in DOMAIN t}
      <4>2. w[k] = GrownOf(c, l, D) /\ k - 1 \in 0 .. n
        BY <4>1, <1>4
      <4>3. t = TreeOn(c, l, D) /\ DOMAIN t = D /\ \A d \in D : t[d] = F!Slots(c, l, d)
        BY <4>2 DEF TreeOn
      <4>4. more = UNION {F!Subdirs(F!Slots(c, l, d)) : d \in D}
        BY <4>3
      <4>5. step(v, k) = IF more \subseteq DOMAIN t THEN t ELSE [d \in DOMAIN t \cup more |-> F!Slots(c, l, d)]
        BY <3>2
      <4>6. v[k] = TreeOn(c, l, w[k])
        OBVIOUS
      <4> HIDE DEF v, t, D, more
      <4>7. w[k] = IF more \subseteq D THEN D ELSE D \cup more
        BY <4>2, <4>4 DEF GrownOf
      <4>8. CASE more \subseteq D
        BY <4>3, <4>5, <4>6, <4>7, <4>8
      <4>9. CASE ~(more \subseteq D)
        BY <4>3, <4>5, <4>6, <4>7, <4>9 DEF TreeOn
      <4> QED BY <4>8, <4>9
    <3> QED BY <3>1, <3>2
  <2>2. v = [k \in 0 .. n |-> step(v, k)]
    BY ZenonT(60), <2>1
  <2> QED BY <2>2
<1> DEFINE level == CHOOSE level : Level(level)
<1>6. Level(level)
  BY <1>5
<1>7. F!Tree(c, l, top) = level[n]
  BY SMTT(60) DEF F!Tree
<1> HIDE DEF level, next
<1>8. ASSUME NEW k \in 0 .. n PROVE level[k] = step(level, k)
  BY <1>6
<1> DEFINE Fine(k) == /\ level[k] = TreeOn(c, l, DOMAIN level[k]) /\ DOMAIN level[k] \subseteq U
                      /\ Least(c, l, top, DOMAIN level[k])
                      /\ ClosedUnder(c, l, DOMAIN level[k]) \/ F!Cardinality(DOMAIN level[k]) >= k + 1
           Bad == {k \in 0 .. n : ~Fine(k)}
<1>9. Bad = {}
  <2>1. SUFFICES ASSUME Bad # {} PROVE FALSE
    OBVIOUS
  <2>2. PICK k \in Bad : \A m \in Bad : k <= m
    BY <2>1, LeastNat, Bad \subseteq Nat
  <2>3. k # 0
    <3>0. 0 \in 0 .. n
      BY <1>1
    <3>9. level[0] = step(level, 0)
      <4> HIDE DEF step
      <4> QED BY <3>0, <1>8
    <3>1. level[0] = TreeOn(c, l, {top})
      BY <3>9 DEF TreeOn
    <3>2. DOMAIN level[0] = {top}
      BY <3>1 DEF TreeOn
    <3>3. Least(c, l, top, {top}) /\ F!Cardinality({top}) >= 0 + 1 /\ {top} \subseteq U
      <4>1. F!Cardinality({top}) = 1
        BY OneElement
      <4>2. {top} \subseteq U
        BY <1>1
      <4>3. Least(c, l, top, {top})
        BY DEF Least
      <4> QED BY <4>1, <4>2, <4>3
    <3>4. Fine(0)
      BY <3>1, <3>2, <3>3
    <3> QED BY <3>4, <2>2
  <2>4. k \in 1 .. n /\ k - 1 \in 0 .. n /\ k \in 0 .. n
    BY <2>2, <2>3, <1>1
  <2>5. Fine(k - 1)
    <3>1. k - 1 \notin Bad
      BY <2>2, <2>4, <1>1
    <3> HIDE DEF Fine
    <3> QED BY <3>1, <2>4
  <2> DEFINE t == level[k - 1]
             D == DOMAIN t
             more == UNION {F!Subdirs(t[d]) : d \in D}
             G == GrownOf(c, l, D)
  <2>6. level[k] = IF more \subseteq D THEN t ELSE [d \in D \cup more |-> F!Slots(c, l, d)]
    BY <1>8, <2>3, <2>4
  <2>7. t = TreeOn(c, l, D) /\ D \subseteq U /\ Least(c, l, top, D) /\ (ClosedUnder(c, l, D) \/ F!Cardinality(D) >= k)
    BY <2>5, <2>4, <1>1
  <2>8. more = UNION {F!Subdirs(F!Slots(c, l, d)) : d \in D}
    <3>1. \A d \in D : t[d] = F!Slots(c, l, d)
      <4> HIDE DEF t, D
      <4> QED BY <2>7 DEF TreeOn
    <3> QED BY <3>1
  <2>9. G = IF more \subseteq D THEN D ELSE D \cup more
    BY <2>8 DEF GrownOf
  <2> HIDE DEF t, D, more
  <2>10. level[k] = TreeOn(c, l, G) /\ DOMAIN level[k] = G
    BY <2>6, <2>7, <2>9 DEF TreeOn
  <2>11. G \subseteq U
    <3>1. \A d \in D : F!Subdirs(F!Slots(c, l, d)) \subseteq U
      BY <2>7, UniverseClosed
    <3> QED BY <3>1, <2>7, <2>8, <2>9
  <2>12. Least(c, l, top, G)
    BY <2>7, GrownLeast
  <2>13. ClosedUnder(c, l, G) \/ F!Cardinality(G) >= k + 1
    <3>0. F!IsFiniteSet(U)
      BY UniverseSize
    <3>1. (G = D /\ ClosedUnder(c, l, D)) \/ F!Cardinality(G) >= F!Cardinality(D) + 1
      <4> HIDE DEF U
      <4> QED BY <3>0, <2>7, <2>11, GrownMore
    <3>2. F!IsFiniteSet(D) /\ F!IsFiniteSet(G)
      <4> HIDE DEF U
      <4> QED BY <3>0, <2>7, <2>11, SmallerSet
    <3>3. F!Cardinality(D) \in Nat /\ F!Cardinality(G) \in Nat /\ k \in Nat
      BY <3>2, FiniteSize, <2>4
    <3>4. CASE ClosedUnder(c, l, D)
      <4>1. G = D
        BY <3>4 DEF GrownOf, ClosedUnder
      <4> QED BY <4>1, <3>4
    <3>5. CASE F!Cardinality(D) >= k
      <4> HIDE DEF G
      <4> QED BY <3>1, <3>3, <3>5
    <3> QED BY <3>4, <3>5, <2>7
  <2> HIDE DEF G, U
  <2>14. Fine(k)
    BY <2>10, <2>11, <2>12, <2>13
  <2> QED BY <2>14, <2>2
<1>10. Fine(n)
  <2>1. n \in 0 .. n
    BY <1>1
  <2> HIDE DEF Fine, n
  <2>2. n \notin Bad
    BY <1>9
  <2> QED BY <2>1, <2>2
<1>11. ClosedUnder(c, l, DOMAIN level[n])
  <2>1. CASE F!Cardinality(DOMAIN level[n]) >= n + 1
    <3> DEFINE D == DOMAIN level[n]
    <3>1. F!IsFiniteSet(U) /\ F!Cardinality(U) <= F!Cardinality(F!Cluster) /\ F!Cardinality(U) \in Nat /\ F!Cardinality(F!Cluster) \in Nat
      BY UniverseSize
    <3>2. D \in SUBSET U
      BY <1>10
    <3> HIDE DEF D, U
    <3>3. F!Cardinality(D) <= F!Cardinality(U) /\ F!IsFiniteSet(D) /\ (F!Cardinality(U) = F!Cardinality(D) => U = D)
      BY <3>1, <3>2, SmallerSet
    <3>4. F!Cardinality(D) \in Nat
      BY <3>3, FiniteSize
    <3>5. F!Cardinality(D) >= F!Cardinality(F!Cluster)
      BY <2>1, <3>1 DEF D
    <3>6. D = U
      BY <3>1, <3>3, <3>4, <3>5
    <3> QED BY <3>6, UniverseClosed DEF ClosedUnder, D, U
  <2> QED BY <2>1, <1>10
<1> QED BY <1>7, <1>10, <1>11 DEF TreeFacts

-----------------------------------------------------------------------------
(* What changes of subdirectories do to the tree. *)
Subs(c, l, d) == F!Subdirs(F!Slots(c, l, d))

LEMMA BelowIs ==
  ASSUME F!DirectoryAssumption, program \in FatPrograms, NEW c, Sectored(c), NEW l, NEW top \in F!Cluster \cup {0}
  PROVE  /\ F!Tree(c, l, top) = TreeOn(c, l, Below(c, l, top))
         /\ \A d \in Below(c, l, top) : F!Tree(c, l, top)[d] = F!Slots(c, l, d) /\ d \in F!Cluster \cup {0}
                                        /\ Subs(c, l, d) \subseteq Below(c, l, top)
                                        /\ (d # top => d # rootDirStart)
         /\ top \in Below(c, l, top)
         /\ \A R : top \in R /\ ClosedUnder(c, l, R) => Below(c, l, top) \subseteq R
         /\ ClosedUnder(c, l, Below(c, l, top))
         /\ DOMAIN F!Tree(c, l, top) = Below(c, l, top)
<1>1. TreeFacts(c, l, top, F!Tree(c, l, top))
  BY TreeIs
<1>2. Universe(top) \subseteq F!Cluster \cup {0}
  BY UniverseClosed
<1>3. \A d \in Universe(top) : d # top => d # rootDirStart
  BY DEF Universe, Plus
<1>4. F!Tree(c, l, top) = TreeOn(c, l, Below(c, l, top)) /\ Below(c, l, top) \subseteq Universe(top)
      /\ Least(c, l, top, Below(c, l, top)) /\ ClosedUnder(c, l, Below(c, l, top))
  BY <1>1 DEF TreeFacts, Below
<1>5. \A d \in Below(c, l, top) : F!Tree(c, l, top)[d] = F!Slots(c, l, d)
  BY <1>4 DEF TreeOn
<1> QED BY <1>2, <1>3, <1>4, <1>5 DEF Least, ClosedUnder, Subs, Below

(* A set with the defining properties is the domain. *)
LEMMA BelowFrom ==
  ASSUME F!DirectoryAssumption, program \in FatPrograms, NEW c, Sectored(c), NEW l, NEW top \in F!Cluster \cup {0},
         NEW D, Least(c, l, top, D), ClosedUnder(c, l, D)
  PROVE  Below(c, l, top) = D /\ F!Tree(c, l, top) = TreeOn(c, l, D)
<1>1. top \in D /\ Below(c, l, top) \subseteq D
  BY BelowIs DEF Least
<1>2. top \in Below(c, l, top) /\ ClosedUnder(c, l, Below(c, l, top))
  BY BelowIs
<1>3. D \subseteq Below(c, l, top)
  BY <1>2 DEF Least
<1>4. Below(c, l, top) = D
  BY <1>1, <1>3
<1> QED BY <1>4, BelowIs

LEMMA TreeKept ==
  ASSUME F!DirectoryAssumption, program \in FatPrograms, NEW c1, NEW c2, Sectored(c1), Sectored(c2), NEW l1, NEW l2,
         NEW top \in F!Cluster \cup {0},
         \A d \in Below(c1, l1, top) : Subs(c2, l2, d) = Subs(c1, l1, d)
  PROVE  Below(c2, l2, top) = Below(c1, l1, top) /\ F!Tree(c2, l2, top) = TreeOn(c2, l2, Below(c1, l1, top))
<1> DEFINE D == Below(c1, l1, top)
<1>1. top \in D /\ ClosedUnder(c1, l1, D) /\ (\A R : top \in R /\ ClosedUnder(c1, l1, R) => D \subseteq R)
      /\ \A d \in D : Subs(c2, l2, d) = Subs(c1, l1, d)
  BY BelowIs
<1> HIDE DEF D
<1>2. ClosedUnder(c2, l2, D)
  BY <1>1 DEF ClosedUnder, Subs
<1>3. ASSUME NEW R, top \in R, ClosedUnder(c2, l2, R) PROVE D \subseteq R
  <2>1. ClosedUnder(c1, l1, R \cap D)
    BY <1>1, <1>3 DEF ClosedUnder, Subs
  <2>2. D \subseteq R \cap D
    BY <2>1, <1>1, <1>3
  <2> QED BY <2>2
<1>4. Least(c2, l2, top, D)
  BY <1>1, <1>3 DEF Least
<1> QED BY <1>2, <1>4, BelowFrom DEF D

LEMMA TreeSame ==
  ASSUME F!DirectoryAssumption, program \in FatPrograms, NEW c1, NEW c2, Sectored(c1), Sectored(c2), NEW l1, NEW l2,
         NEW top \in F!Cluster \cup {0},
         \A d \in Below(c1, l1, top) : F!Slots(c2, l2, d) = F!Slots(c1, l1, d)
  PROVE  F!Tree(c2, l2, top) = F!Tree(c1, l1, top) /\ Below(c2, l2, top) = Below(c1, l1, top)
<1>1. \A d \in Below(c1, l1, top) : Subs(c2, l2, d) = Subs(c1, l1, d)
  BY DEF Subs
<1>2. Below(c2, l2, top) = Below(c1, l1, top) /\ F!Tree(c2, l2, top) = TreeOn(c2, l2, Below(c1, l1, top))
  BY <1>1, TreeKept
<1>3. TreeOn(c2, l2, Below(c1, l1, top)) = TreeOn(c1, l1, Below(c1, l1, top))
  BY DEF TreeOn
<1> QED BY <1>2, <1>3, BelowIs

(* A new directory without subdirectories. *)
LEMMA TreeAdd ==
  ASSUME F!DirectoryAssumption, program \in FatPrograms, NEW c1, NEW c2, Sectored(c1), Sectored(c2), NEW l1, NEW l2,
         NEW top \in F!Cluster \cup {0}, NEW x, NEW e \in Below(c1, l1, top), x \in Subs(c2, l2, e),
         Subs(c2, l2, x) = {},
         \A d \in Below(c1, l1, top) : Subs(c1, l1, d) \subseteq Subs(c2, l2, d)
                                       /\ Subs(c2, l2, d) \subseteq Plus(Below(c1, l1, top), x)
  PROVE  /\ Below(c2, l2, top) = Plus(Below(c1, l1, top), x)
         /\ F!Tree(c2, l2, top) = TreeOn(c2, l2, Plus(Below(c1, l1, top), x))
<1> DEFINE D == Below(c1, l1, top)
<1>1. top \in D /\ ClosedUnder(c1, l1, D) /\ (\A R : top \in R /\ ClosedUnder(c1, l1, R) => D \subseteq R)
      /\ e \in D /\ \A d \in D : Subs(c1, l1, d) \subseteq Subs(c2, l2, d) /\ Subs(c2, l2, d) \subseteq Plus(D, x)
  BY BelowIs
<1> HIDE DEF D
<1>2. ClosedUnder(c2, l2, Plus(D, x))
  BY <1>1 DEF ClosedUnder, Subs, Plus
<1>3. ASSUME NEW R, top \in R, ClosedUnder(c2, l2, R) PROVE Plus(D, x) \subseteq R
  <2>1. ClosedUnder(c1, l1, R \cap D)
    BY <1>1, <1>3 DEF ClosedUnder, Subs
  <2>2. D \subseteq R \cap D
    BY <2>1, <1>1, <1>3
  <2>3. x \in R
    BY <2>2, <1>1, <1>3 DEF ClosedUnder, Subs
  <2> QED BY <2>2, <2>3 DEF Plus
<1>4. Least(c2, l2, top, Plus(D, x))
  BY <1>1, <1>3 DEF Least, Plus
<1> QED BY <1>2, <1>4, BelowFrom DEF D

(* A directory without subdirectories that no entry names any more. *)
LEMMA TreeDrop ==
  ASSUME F!DirectoryAssumption, program \in FatPrograms, NEW c1, NEW c2, Sectored(c1), Sectored(c2), NEW l1, NEW l2,
         NEW top \in F!Cluster \cup {0}, NEW x, x # top, Subs(c1, l1, x) = {},
         \A d \in Below(c1, l1, top) : Subs(c1, l1, d) \ {x} \subseteq Subs(c2, l2, d)
                                       /\ (d # x => Subs(c2, l2, d) \subseteq Below(c1, l1, top) \ {x})
  PROVE  /\ Below(c2, l2, top) = Below(c1, l1, top) \ {x}
         /\ F!Tree(c2, l2, top) = TreeOn(c2, l2, Below(c1, l1, top) \ {x})
<1> DEFINE D == Below(c1, l1, top)
<1>1. top \in D /\ ClosedUnder(c1, l1, D) /\ (\A R : top \in R /\ ClosedUnder(c1, l1, R) => D \subseteq R)
      /\ \A d \in D : Subs(c1, l1, d) \ {x} \subseteq Subs(c2, l2, d) /\ (d # x => Subs(c2, l2, d) \subseteq D \ {x})
  BY BelowIs
<1> HIDE DEF D
<1>2. ClosedUnder(c2, l2, D \ {x})
  BY <1>1 DEF ClosedUnder, Subs
<1>3. ASSUME NEW R, top \in R, ClosedUnder(c2, l2, R) PROVE D \ {x} \subseteq R
  <2> DEFINE Q == (R \cap D) \cup {x}
  <2>1. ClosedUnder(c1, l1, Q)
    BY <1>1, <1>3 DEF ClosedUnder, Subs
  <2>2. top \in Q
    BY <1>1, <1>3
  <2>3. D \subseteq Q
    <3> HIDE DEF Q
    <3> QED BY <2>1, <2>2, <1>1
  <2> QED BY <2>3
<1>4. Least(c2, l2, top, D \ {x})
  BY <1>1, <1>3 DEF Least
<1>5. Below(c2, l2, top) = D \ {x} /\ F!Tree(c2, l2, top) = TreeOn(c2, l2, D \ {x})
  <2> DEFINE Dx == D \ {x}
  <2> HIDE DEF Dx
  <2>1. Least(c2, l2, top, Dx) /\ ClosedUnder(c2, l2, Dx)
    BY <1>2, <1>4 DEF Dx
  <2> QED BY <2>1, BelowFrom DEF Dx
<1> QED BY <1>5 DEF D

(* Every directory but the top is named by an entry of another. *)
LEMMA BelowParent ==
  ASSUME F!DirectoryAssumption, program \in FatPrograms, NEW c, Sectored(c), NEW l, NEW top \in F!Cluster \cup {0},
         NEW d \in Below(c, l, top), d # top
  PROVE  \E e \in Below(c, l, top) : d \in Subs(c, l, e)
<1> SUFFICES ASSUME \A e \in Below(c, l, top) : d \notin Subs(c, l, e) PROVE FALSE
  OBVIOUS
<1> DEFINE D == Below(c, l, top)  R == D \ {d}
<1>1. top \in D /\ ClosedUnder(c, l, D) /\ (\A Q : top \in Q /\ ClosedUnder(c, l, Q) => D \subseteq Q)
      /\ d \in D /\ \A e \in D : d \notin Subs(c, l, e)
  BY BelowIs
<1> HIDE DEF D
<1>2. ClosedUnder(c, l, R) /\ top \in R
  BY <1>1 DEF ClosedUnder, Subs
<1>3. D \subseteq R
  <2> HIDE DEF R
  <2> QED BY <1>1, <1>2
<1> QED BY <1>1, <1>3

(* What is below a directory of a tree is in the tree. *)
LEMMA BelowWithin ==
  ASSUME F!DirectoryAssumption, program \in FatPrograms, NEW c, Sectored(c), NEW l, NEW top \in F!Cluster \cup {0},
         NEW d \in Below(c, l, top)
  PROVE  Below(c, l, d) \subseteq Below(c, l, top)
<1>1. ClosedUnder(c, l, Below(c, l, top)) /\ d \in F!Cluster \cup {0}
  BY BelowIs
<1> QED BY <1>1, BelowIs

-----------------------------------------------------------------------------
(* Entries of a directory with one of them replaced. *)
LEMMA WithIs ==
  ASSUME NEW s, Indexed(s), NEW i \in DOMAIN s, NEW slot
  PROVE  /\ DOMAIN With(s, i, slot) = DOMAIN s /\ LenOf(With(s, i, slot)) = LenOf(s) /\ Indexed(With(s, i, slot))
         /\ \A j \in DOMAIN s : With(s, i, slot)[j] = IF j = i THEN slot ELSE s[j]
BY DEF With, Indexed, LenOf

LEMMA WithTyped ==
  ASSUME NEW s, DirSlots(s), NEW i \in DOMAIN s, NEW slot \in SlotType
  PROVE  DirSlots(With(s, i, slot)) /\ Indexed(s)
<1>1. Indexed(s)
  BY DEF DirSlots, Indexed
<1>2. LenOf(With(s, i, slot)) = LenOf(s)
  BY <1>1, WithIs
<1>3. With(s, i, slot) \in [0 .. LenOf(s) - 1 -> SlotType]
  BY DEF With, DirSlots
<1> QED BY <1>1, <1>2, <1>3 DEF DirSlots

LEMMA UsedWith ==
  ASSUME NEW s, Indexed(s), NEW i \in DOMAIN s, NEW slot
  PROVE  /\ F!isFatFileOrSubdir(slot) => UsedOf(With(s, i, slot)) = UsedOf(s) \cup {i}
         /\ ~F!isFatFileOrSubdir(slot) => UsedOf(With(s, i, slot)) = UsedOf(s) \ {i}
BY WithIs DEF UsedOf, InUse

(* The directories that a directory names, when entry i names x no more and y. *)
LEMMA SubdirsWith ==
  ASSUME NEW s, Indexed(s), NEW i \in DOMAIN s, NEW slot
  PROVE  /\ SubdirsOf(With(s, i, slot)) \subseteq SubdirsOf(s) \cup (IF slot.kind = "subdir" THEN {slot.first} ELSE {})
         /\ s[i].kind # "subdir" => SubdirsOf(s) \subseteq SubdirsOf(With(s, i, slot))
         /\ s[i].kind = "subdir" => SubdirsOf(s) \ {s[i].first} \subseteq SubdirsOf(With(s, i, slot))
         /\ slot.kind = "subdir" => slot.first \in SubdirsOf(With(s, i, slot))
         /\ s[i].kind # "subdir" /\ slot.kind # "subdir" => SubdirsOf(With(s, i, slot)) = SubdirsOf(s)
<1> DEFINE w == With(s, i, slot)
           Named(t) == {j \in DOMAIN t : t[j].kind = "subdir"}
<1>1. \A t : SubdirsOf(t) = {t[j].first : j \in Named(t)}
  BY DEF SubdirsOf, UsedOf, InUse, F!isFatFileOrSubdir
<1>2. DOMAIN w = DOMAIN s /\ \A j \in DOMAIN s : w[j] = IF j = i THEN slot ELSE s[j]
  BY WithIs
<1> HIDE DEF w
<1>3. SubdirsOf(w) = {w[j].first : j \in Named(w)} /\ SubdirsOf(s) = {s[j].first : j \in Named(s)}
  BY <1>1
<1>4. SubdirsOf(w) \subseteq SubdirsOf(s) \cup (IF slot.kind = "subdir" THEN {slot.first} ELSE {})
  <2> SUFFICES ASSUME NEW j \in Named(w)
               PROVE  w[j].first \in SubdirsOf(s) \cup (IF slot.kind = "subdir" THEN {slot.first} ELSE {})
    BY <1>3
  <2>1. CASE j = i
    BY <2>1, <1>2
  <2>2. CASE j # i
    <3>1. j \in Named(s) /\ w[j] = s[j]
      BY <2>2, <1>2
    <3> QED BY <3>1, <1>3
  <2> QED BY <2>1, <2>2
<1>5. ASSUME NEW j \in Named(s), j # i PROVE s[j].first \in SubdirsOf(w)
  <2>1. j \in Named(w) /\ w[j] = s[j]
    BY <1>5, <1>2
  <2> QED BY <2>1, <1>3
<1>6. s[i].kind # "subdir" => SubdirsOf(s) \subseteq SubdirsOf(w)
  BY <1>3, <1>5
<1>7. s[i].kind = "subdir" => SubdirsOf(s) \ {s[i].first} \subseteq SubdirsOf(w)
  BY <1>3, <1>5
<1>8. slot.kind = "subdir" => slot.first \in SubdirsOf(w)
  <2> SUFFICES ASSUME slot.kind = "subdir" PROVE slot.first \in SubdirsOf(w)
    OBVIOUS
  <2>1. i \in Named(w) /\ w[i] = slot
    BY <1>2
  <2> QED BY <2>1, <1>3
<1>9. s[i].kind # "subdir" /\ slot.kind # "subdir" => SubdirsOf(w) = SubdirsOf(s)
  BY <1>4, <1>6
<1> QED BY <1>4, <1>6, <1>7, <1>8, <1>9 DEF w

ClearBefore(s, i) == \A j \in DOMAIN s : j < i => s[j].kind # "free"

LEMMA NoneBehindWith ==
  ASSUME NEW s, Indexed(s), NEW i \in DOMAIN s, NEW slot, NoneBehind(s), slot.kind # "free",
         slot.kind = "lfn" \/ ClearBefore(s, i)
  PROVE  NoneBehind(With(s, i, slot))
<1> DEFINE w == With(s, i, slot)
<1>1. DOMAIN w = DOMAIN s /\ \A j \in DOMAIN s : w[j] = IF j = i THEN slot ELSE s[j]
  BY WithIs
<1> HIDE DEF w
<1>2. ASSUME NEW j \in DOMAIN w, NEW k \in DOMAIN w, j < k, w[j].kind = "free" PROVE w[k].kind \in {"free", "lfn"}
  <2>1. j # i /\ w[j] = s[j]
    BY <1>1, <1>2
  <2>2. CASE k = i
    BY <2>1, <2>2, <1>1, <1>2 DEF ClearBefore
  <2>3. CASE k # i
    BY <2>1, <2>3, <1>1, <1>2 DEF NoneBehind
  <2> QED BY <2>2, <2>3
<1> QED BY <1>2 DEF NoneBehind, w

(* In front of an entry that is used there are no free ones. *)
LEMMA UsedClear ==
  ASSUME NEW s, Indexed(s), NEW i \in DOMAIN s, NoneBehind(s), s[i].kind \notin {"free", "lfn"}
  PROVE  ClearBefore(s, i)
BY DEF NoneBehind, ClearBefore

-----------------------------------------------------------------------------
TreeTyped(T) ==
  /\ 0 \in DOMAIN T
  /\ \A d \in DOMAIN T : /\ d \in F!Cluster \cup {0} /\ d # rootDirStart
                         /\ DirSlots(T[d]) /\ Indexed(T[d]) /\ NoneBehind(T[d])

LEMMA ViewTree ==
  ASSUME F!DirectoryAssumption, program \in FatPrograms, NEW c, Sectored(c), NEW l, View(c, l)
  PROVE  TreeTyped(F!Tree(c, l, 0))
<1> DEFINE T == F!Tree(c, l, 0)
<1>1. 0 \in DOMAIN T /\ \A d \in DOMAIN T : T[d] = F!Slots(c, l, d) /\ d \in F!Cluster \cup {0} /\ (d # 0 => d # rootDirStart)
  BY BelowIs
<1>2. \A d \in DOMAIN T : NoneData(F!ChainSet(l, d), c) /\ NoneBehind(F!Slots(c, l, d))
  BY DEF View, Below
<1>3. rootDirStart # 0
  BY Setting
<1> HIDE DEF T
<1>4. ASSUME NEW d \in DOMAIN T
      PROVE  d \in F!Cluster \cup {0} /\ d # rootDirStart /\ DirSlots(T[d]) /\ Indexed(T[d]) /\ NoneBehind(T[d])
  BY <1>1, <1>2, <1>3, SlotsTyped, SlotsIndexed
<1> QED BY <1>1, <1>4 DEF TreeTyped, T

LEMMA SubsIs ==
  ASSUME F!DirectoryAssumption, program \in FatPrograms, NEW c, NEW l, NEW d \in F!Cluster \cup {0},
         NoneBehind(F!Slots(c, l, d))
  PROVE  Subs(c, l, d) = SubdirsOf(F!Slots(c, l, d))
BY SlotsIndexed, SubdirsIs DEF Subs

LEMMA TreeClosed ==
  ASSUME F!DirectoryAssumption, program \in FatPrograms, NEW c, Sectored(c), NEW l, View(c, l), NEW T, T = F!Tree(c, l, 0)
  PROVE  /\ DOMAIN T = Below(c, l, 0)
         /\ \A d \in DOMAIN T : /\ T[d] = F!Slots(c, l, d) /\ Subs(c, l, d) = SubdirsOf(T[d])
                                /\ SubdirsOf(T[d]) \subseteq DOMAIN T /\ NoneData(F!ChainSet(l, d), c)
<1>1. DOMAIN T = Below(c, l, 0)
      /\ \A d \in DOMAIN T : T[d] = F!Slots(c, l, d) /\ d \in F!Cluster \cup {0} /\ Subs(c, l, d) \subseteq DOMAIN T
  BY BelowIs
<1>2. \A d \in DOMAIN T : NoneData(F!ChainSet(l, d), c) /\ NoneBehind(F!Slots(c, l, d))
  BY <1>1 DEF View
<1> QED BY <1>1, <1>2, SubsIs

(* The entries in use. *)
LEMMA EnteredIs ==
  ASSUME NEW T, NEW k
  PROVE  k \in Entered(T) <=> k = <<k[1], k[2]>> /\ k[1] \in DOMAIN T /\ k[2] \in UsedOf(T[k[1]])
<1> DEFINE P(d) == {d} \X {i \in DOMAIN T[d] : InUse(T[d], i)}
<1>1. Entered(T) = UNION {P(d) : d \in DOMAIN T}
  BY DEF Entered
<1>2. \A d : k \in P(d) <=> k = <<k[1], k[2]>> /\ k[1] = d /\ k[2] \in UsedOf(T[d])
  BY DEF UsedOf
<1> QED BY <1>1, <1>2

LEMMA EntriesOfIs ==
  ASSUME NEW T, \A d \in DOMAIN T : Indexed(T[d]) /\ NoneBehind(T[d])
  PROVE  F!EntriesOf(T) = Entered(T)
<1> DEFINE P(d) == {d} \X F!Live(T[d])
           Q(d) == {d} \X {i \in DOMAIN T[d] : InUse(T[d], i)}
<1>1. \A d \in DOMAIN T : P(d) = Q(d)
  BY LiveIs DEF UsedOf
<1>2. {P(d) : d \in DOMAIN T} = {Q(d) : d \in DOMAIN T}
  BY <1>1
<1> QED BY <1>2 DEF Entered, F!EntriesOf

(* A tree with one entry replaced. *)
TreeWith(T, d, i, slot) == [T EXCEPT ![d] = With(T[d], i, slot)]

LEMMA TreeWithIs ==
  ASSUME NEW T, NEW d \in DOMAIN T, Indexed(T[d]), NEW i \in DOMAIN T[d], NEW slot
  PROVE  LET U == TreeWith(T, d, i, slot) IN
         /\ DOMAIN U = DOMAIN T /\ U[d] = With(T[d], i, slot) /\ \A e \in DOMAIN T : e # d => U[e] = T[e]
         /\ \A e \in DOMAIN T : DOMAIN U[e] = DOMAIN T[e]
         /\ \A e \in DOMAIN T : \A j \in DOMAIN T[e] : U[e][j] = IF e = d /\ j = i THEN slot ELSE T[e][j]
<1> DEFINE U == TreeWith(T, d, i, slot)
<1>1. DOMAIN U = DOMAIN T /\ (\A e \in DOMAIN T : e # d => U[e] = T[e])
  BY DEF TreeWith
<1>2. U[d] = With(T[d], i, slot)
  BY DEF TreeWith
<1>3. DOMAIN With(T[d], i, slot) = DOMAIN T[d] /\ \A j \in DOMAIN T[d] : With(T[d], i, slot)[j] = IF j = i THEN slot ELSE T[d][j]
  BY WithIs
<1> HIDE DEF U
<1> QED BY <1>1, <1>2, <1>3 DEF U

Minus(S, x) == S \ {x}
SameBut(T, U, x) == \A k \in Entered(T) : k # x => F!At(U, k) = F!At(T, k)

LEMMA EnteredWith ==
  ASSUME NEW T, NEW d \in DOMAIN T, Indexed(T[d]), NEW i \in DOMAIN T[d], NEW slot, NEW U,
         U = TreeWith(T, d, i, slot)
  PROVE  /\ F!isFatFileOrSubdir(slot) => Entered(U) = Plus(Entered(T), <<d, i>>)
         /\ ~F!isFatFileOrSubdir(slot) => Entered(U) = Minus(Entered(T), <<d, i>>)
         /\ F!At(U, <<d, i>>) = slot /\ SameBut(T, U, <<d, i>>)
<1>1. DOMAIN U = DOMAIN T /\ U[d] = With(T[d], i, slot) /\ (\A e \in DOMAIN T : e # d => U[e] = T[e])
      /\ U[d][i] = slot /\ \A j \in DOMAIN T[d] : j # i => U[d][j] = T[d][j]
  BY TreeWithIs
<1>2. (F!isFatFileOrSubdir(slot) => UsedOf(U[d]) = UsedOf(T[d]) \cup {i})
      /\ (~F!isFatFileOrSubdir(slot) => UsedOf(U[d]) = UsedOf(T[d]) \ {i})
  BY <1>1, UsedWith
<1>3. \A k : k \in Entered(T) <=> k = <<k[1], k[2]>> /\ k[1] \in DOMAIN T /\ k[2] \in UsedOf(T[k[1]])
  BY EnteredIs
<1>4. \A k : k \in Entered(U) <=> k = <<k[1], k[2]>> /\ k[1] \in DOMAIN T /\ k[2] \in UsedOf(U[k[1]])
  BY EnteredIs, <1>1
<1>5. ASSUME F!isFatFileOrSubdir(slot), NEW k PROVE k \in Entered(U) <=> k \in Plus(Entered(T), <<d, i>>)
  <2>1. CASE k[1] # d
    BY <2>1, <1>1, <1>3, <1>4 DEF Plus
  <2>2. CASE k[1] = d
    BY <2>2, <1>1, <1>2, <1>3, <1>4, <1>5 DEF Plus
  <2> QED BY <2>1, <2>2
<1>6. ASSUME ~F!isFatFileOrSubdir(slot), NEW k PROVE k \in Entered(U) <=> k \in Minus(Entered(T), <<d, i>>)
  <2>1. CASE k[1] # d
    BY <2>1, <1>1, <1>3, <1>4 DEF Minus
  <2>2. CASE k[1] = d
    BY <2>2, <1>1, <1>2, <1>3, <1>4, <1>6 DEF Minus
  <2> QED BY <2>1, <2>2
<1>7. F!At(U, <<d, i>>) = slot
  BY <1>1 DEF F!At
<1>8. ASSUME NEW k \in Entered(T), k # <<d, i>> PROVE F!At(U, k) = F!At(T, k)
  <2>1. k = <<k[1], k[2]>> /\ k[1] \in DOMAIN T /\ k[2] \in UsedOf(T[k[1]])
    BY <1>3
  <2>2. k[2] \in DOMAIN T[k[1]]
    BY <2>1 DEF UsedOf
  <2>3. k[1] # d \/ k[2] # i
    BY <2>1, <1>8
  <2> QED BY <2>1, <2>2, <2>3, <1>1 DEF F!At
<1>9. ~F!isFatFileOrSubdir(slot) => Entered(U) = Minus(Entered(T), <<d, i>>)
  <2> SUFFICES ASSUME ~F!isFatFileOrSubdir(slot) PROVE Entered(U) = Minus(Entered(T), <<d, i>>)
    OBVIOUS
  <2>1. \A k : k \in Entered(U) <=> k \in Minus(Entered(T), <<d, i>>)
    BY <1>6
  <2> QED BY <2>1
<1>10. SameBut(T, U, <<d, i>>)
  BY <1>8 DEF SameBut
<1> QED BY <1>5, <1>7, <1>9, <1>10

-----------------------------------------------------------------------------
(* Who holds what. *)
EntryFirst(T, o, k) == IF o.open /\ k = <<o.dir, o.index>> THEN o.first ELSE F!At(T, k).first

LEMMA EnteredKey ==
  ASSUME NEW T, TreeTyped(T), NEW k \in Entered(T)
  PROVE  /\ k # RootKey /\ k # NewKey /\ k = <<k[1], k[2]>> /\ k[1] \in DOMAIN T /\ k[2] \in DOMAIN T[k[1]]
         /\ InUse(T[k[1]], k[2]) /\ k[2] \in Nat /\ F!At(T, k) \in SlotType /\ F!At(T, k).kind \in {"file", "subdir"}
<1>1. k = <<k[1], k[2]>> /\ k[1] \in DOMAIN T /\ k[2] \in DOMAIN T[k[1]] /\ InUse(T[k[1]], k[2])
  BY EnteredIs DEF UsedOf
<1>2. k[2] \in Nat /\ T[k[1]][k[2]] \in SlotType
  BY <1>1 DEF TreeTyped, DirSlots
<1>3. k # RootKey /\ k # NewKey
  BY <1>1, <1>2 DEF RootKey, NewKey
<1> QED BY <1>1, <1>2, <1>3 DEF F!At, InUse, F!isFatFileOrSubdir

LEMMA HoldingIs ==
  ASSUME NEW T, TreeTyped(T), NEW o, NEW gone, NEW new, NEW H, H = Holding(T, o, gone, new)
  PROVE  /\ RootKey \in DOMAIN H /\ H[RootKey] = rootDirStart
         /\ new # 0 => NewKey \in DOMAIN H /\ H[NewKey] = new
         /\ new = 0 => NewKey \notin DOMAIN H
         /\ \A k \in DOMAIN H : k = RootKey \/ (k = NewKey /\ new # 0) \/ (k \in Entered(T) /\ k \notin gone)
         /\ \A k \in Entered(T) : k \notin gone => k \in DOMAIN H /\ H[k] = EntryFirst(T, o, k)
         /\ \A k \in DOMAIN H : k \in Singles(T, H) <=> k # RootKey /\ k # NewKey /\ F!At(T, k).kind = "file"
<1>1. \A k \in Entered(T) : k # RootKey /\ k # NewKey
  BY EnteredKey
<1>2. DOMAIN H = HolderKeys(T, gone, new) /\ \A k \in DOMAIN H : H[k] = Holder(T, o, new, k)
  BY DEF Holding
<1>3. RootKey # NewKey
  BY DEF RootKey, NewKey
<1>4. \A k \in DOMAIN H : k \in Singles(T, H) <=> k # RootKey /\ k # NewKey /\ F!At(T, k).kind = "file"
  BY DEF Singles
<1>5. \A k : k \in DOMAIN H <=> (k \in Entered(T) /\ k \notin gone) \/ k = RootKey \/ (k = NewKey /\ new # 0)
  BY <1>2 DEF HolderKeys
<1>6. H[RootKey] = rootDirStart /\ (new # 0 => H[NewKey] = new)
  BY <1>2, <1>3, <1>5 DEF Holder
<1>7. \A k \in Entered(T) : k \notin gone => k \in DOMAIN H /\ H[k] = EntryFirst(T, o, k)
  BY <1>1, <1>2, <1>5 DEF Holder, EntryFirst
<1>8. new = 0 => NewKey \notin DOMAIN H
  BY <1>1, <1>3, <1>5
<1> QED BY <1>3, <1>4, <1>5, <1>6, <1>7, <1>8

(* The holders that have something are the same. *)
LEMMA HeldSame ==
  ASSUME NEW l, NEW H, NEW single, Held(l, H, single), NEW H2, NEW single2,
         \A j \in DOMAIN H2 : H2[j] # 0 => j \in DOMAIN H /\ H[j] = H2[j] /\ (j \in single2 => j \in single),
         \A k \in DOMAIN H : H[k] # 0 => k \in DOMAIN H2 /\ H2[k] = H[k]
  PROVE  Held(l, H2, single2)
<1>1. \A i, j \in DOMAIN H2 : H2[i] = H2[j] /\ H2[i] # 0 => i = j
  BY DEF Held
<1> QED BY <1>1, HeldMoved

-----------------------------------------------------------------------------
(* The state, when the invariant holds. *)
T0 == F!InProgram
LEMMA ContentsIs == F!Contents = ContentsOf(device, m_sector, m_buffer) /\ F!Contents' = ContentsOf(device', m_sector', m_buffer')
BY DEF F!Contents, ContentsOf

LEMMA ContentsSectored ==
  ASSUME F!DirectoryAssumption, program \in FatPrograms, NEW dev, NEW sector, NEW buffer,
         Sectored(dev), CacheTyped(sector, buffer)
  PROVE  /\ Sectored(ContentsOf(dev, sector, buffer))
         /\ sector # 0 => sector \in F!Cluster /\ ContentsOf(dev, sector, buffer)[sector] = buffer /\ buffer \in DirSector /\ buffer # F!Data
         /\ \A x \in F!Cluster : x # sector => ContentsOf(dev, sector, buffer)[x] = dev[x]
<1>1. 0 \notin F!Cluster
  BY Setting
<1>2. CASE sector = 0
  BY <1>1, <1>2 DEF ContentsOf
<1>3. CASE sector # 0
  <2>1. sector \in F!Cluster /\ buffer \in DirSector
    BY <1>3 DEF CacheTyped
  <2>2. ContentsOf(dev, sector, buffer) = [dev EXCEPT ![sector] = buffer]
    BY <1>3 DEF ContentsOf
  <2> QED BY <2>1, <2>2, SectorNotData DEF Sectored
<1> QED BY <1>2, <1>3

LEMMA Now ==
  ASSUME F!DirectoryAssumption, IInv
  PROVE  /\ program \in FatPrograms /\ Sectored(device) /\ CacheTyped(m_sector, m_buffer) /\ Sectored(F!Contents)
         /\ file \in Objects /\ call \in Calls /\ (\A k \in DOMAIN at : at[k] \in F!Index) /\ kept \subseteq F!Cluster
         /\ Good(fat) /\ Good(fatOnDevice) /\ Later(fatOnDevice, fat, SettlingAt(pc))
         /\ HeldP(T0, fat, file, pc, call)
         /\ T0 = F!Tree(F!Contents, fat, 0) /\ View(F!Contents, fat) /\ TreeTyped(T0)
         /\ SetsP(T0, pc, call) /\ FileIs(T0, file)
         /\ PhaseOK(pc, T0, Inside, file, call, F!Contents, fatOnDevice, fat, m_sector)
         /\ DeviceP(device, fatOnDevice, T0, pc, call)
<1>1. program \in FatPrograms /\ IInvP(device, fatOnDevice, fat, m_sector, m_buffer, file, pc, call, at, kept)
  BY DEF IInv
<1>2. F!Contents = ContentsOf(device, m_sector, m_buffer) /\ T0 = F!Tree(F!Contents, fat, 0) /\ Inside = Below(F!Contents, fat, file.first)
  BY ContentsIs DEF T0, F!InProgram, Inside
<1>3. /\ TypedP(device, m_sector, m_buffer, file, call, at, kept) /\ LinksP(fatOnDevice, fat, pc)
      /\ HeldP(T0, fat, file, pc, call) /\ View(F!Contents, fat)
      /\ SetsP(T0, pc, call) /\ FileIs(T0, file)
      /\ PhaseOK(pc, T0, Inside, file, call, F!Contents, fatOnDevice, fat, m_sector)
      /\ DeviceP(device, fatOnDevice, T0, pc, call)
  BY <1>1, <1>2 DEF IInvP
<1>4. Sectored(device) /\ CacheTyped(m_sector, m_buffer)
  BY <1>3 DEF TypedP
<1>5. Sectored(F!Contents)
  BY <1>1, <1>2, <1>4, ContentsSectored
<1>6. TreeTyped(T0)
  BY <1>1, <1>2, <1>3, <1>5, ViewTree
<1> QED BY <1>1, <1>2, <1>3, <1>4, <1>5, <1>6 DEF TypedP, LinksP

(* The call that removes a directory has freed its clusters. *)
RemovedNow(d) == pc = "del" /\ call.op = "remove" /\ call.old.isDir /\ d = call.old.first

LEMMA PhaseDel ==
  ASSUME NEW T, NEW B, NEW o, NEW c, NEW contents, NEW onDevice, NEW links, NEW sector, NEW step,
         PhaseOK(step, T, B, o, c, contents, onDevice, links, sector)
  PROVE  /\ step = "dotdot" => DotdotOK(T, B, o, c, contents) /\ sector = SectorAt(links, c.dir, c.index)
         /\ step = "del" => DelOK(T, B, o, c, contents, onDevice, links)
BY DEF PhaseOK

LEMMA DirHeld ==
  ASSUME F!DirectoryAssumption, IInv, NEW d \in DOMAIN T0, NEW H, H = HoldsP(T0, file, pc, call)
  PROVE  /\ FirstOf(d) \notin Targets(fat)
         /\ ~RemovedNow(d) => /\ fat[FirstOf(d)] # 0
                              /\ \E k \in DOMAIN H : k \notin Singles(T0, H) /\ H[k] = FirstOf(d)
<1>0. TreeTyped(T0) /\ T0 = F!Tree(F!Contents, fat, 0) /\ Sectored(F!Contents) /\ program \in FatPrograms /\ Good(fat)
      /\ View(F!Contents, fat) /\ HeldP(T0, fat, file, pc, call) /\ FileIs(T0, file)
      /\ PhaseOK(pc, T0, Inside, file, call, F!Contents, fatOnDevice, fat, m_sector)
  BY Now
<1>1. H = Holding(T0, file, GoneAt(pc, call), PendingAt(pc, call)) /\ Held(fat, H, Singles(T0, H))
  BY <1>0 DEF HoldsP, HeldP
<1>2. CASE d = 0
  <2>1. FirstOf(d) = rootDirStart
    BY <1>2 DEF FirstOf
  <2>2. RootKey \in DOMAIN H /\ H[RootKey] = rootDirStart /\ RootKey \notin Singles(T0, H)
    BY <1>0, <1>1, HoldingIs
  <2> QED BY <2>1, <2>2, <1>0 DEF Good
<1>3. CASE d # 0
  <2>1. FirstOf(d) = d
    BY <1>3 DEF FirstOf
  <2>2. PICK e \in DOMAIN T0 : d \in SubdirsOf(T0[e])
    <3>1. \E e \in Below(F!Contents, fat, 0) : d \in Subs(F!Contents, fat, e)
      BY <1>0, <1>3, BelowParent, TreeClosed
    <3> QED BY <3>1, <1>0, TreeClosed
  <2>3. PICK i \in UsedOf(T0[e]) : T0[e][i].kind = "subdir" /\ T0[e][i].first = d
    BY <2>2 DEF SubdirsOf
  <2> DEFINE k == <<e, i>>
  <2>4. k \in Entered(T0) /\ F!At(T0, k).kind = "subdir" /\ F!At(T0, k).first = d
    BY <2>3, EnteredIs DEF F!At
  <2> HIDE DEF k
  <2>5. ASSUME NEW x \in Entered(T0), F!At(T0, x).kind = "subdir", F!At(T0, x).first = d, x \notin GoneAt(pc, call)
        PROVE  x \in DOMAIN H /\ H[x] = d /\ x \notin Singles(T0, H) /\ fat[d] # 0 /\ d \notin Targets(fat)
    <3>1. x \in DOMAIN H /\ H[x] = EntryFirst(T0, file, x) /\ x \notin Singles(T0, H)
      <4>1. x # RootKey /\ x # NewKey
        BY <1>0, EnteredKey
      <4> QED BY <1>0, <1>1, <2>5, <4>1, HoldingIs
    <3>2. EntryFirst(T0, file, x) = d
      <4>1. CASE file.open /\ x = <<file.dir, file.index>>
        <5>1. Object(T0, file)
          BY <1>0, <4>1 DEF FileIs, F!Closed
        <5>2. T0[file.dir][file.index].kind = "subdir" /\ T0[file.dir][file.index].first = d
          BY <2>5, <4>1 DEF F!At
        <5>3. file.isDir /\ file.first = d
          BY <5>1, <5>2 DEF Object, EntryIs
        <5> QED BY <4>1, <5>3 DEF EntryFirst
      <4>2. CASE ~(file.open /\ x = <<file.dir, file.index>>)
        BY <4>2, <2>5 DEF EntryFirst
      <4> QED BY <4>1, <4>2
    <3> QED BY <3>1, <3>2, <1>1, <1>3, HeldHead
  <2>6. CASE k \notin GoneAt(pc, call)
    BY <2>1, <2>4, <2>5, <2>6
  <2>7. CASE k \in GoneAt(pc, call)
    <3>1. pc \in {"dotdot", "del"} /\ k = <<call.old.dir, call.old.index>>
      BY <2>7 DEF GoneAt
    <3>2. T0[call.old.dir][call.old.index].kind = "subdir" /\ T0[call.old.dir][call.old.index].first = d
      BY <3>1, <2>4 DEF F!At
    <3>3. (pc = "dotdot" => MovedOK(T0, Inside, file, call))
          /\ (pc = "del" => DelOK(T0, Inside, file, call, F!Contents, fatOnDevice, fat))
      BY <1>0, PhaseDel DEF DotdotOK
    <3>4. CASE MovedOK(T0, Inside, file, call)
      <4>1. file.open /\ ~file.dirty /\ OldIs(T0, call) /\ call.old.isDir = file.isDir /\ call.old.first = file.first
            /\ T0[call.old.dir][call.old.index].first = call.old.first
            /\ <<call.old.dir, call.old.index>> # <<file.dir, file.index>> /\ call.op = "rename"
        BY <3>4 DEF MovedOK
      <4>2. call.old.isDir
        BY <4>1, <3>2 DEF OldIs, EntryIs
      <4>3. Object(T0, file)
        BY <1>0, <4>1 DEF FileIs, F!Closed
      <4> DEFINE x == <<file.dir, file.index>>
      <4>4. F!At(T0, x).kind = "subdir" /\ F!At(T0, x).first = d /\ file.dir \in DOMAIN T0 /\ file.index \in DOMAIN T0[file.dir]
        BY <4>1, <4>2, <4>3, <3>2 DEF Object, EntryIs, F!At
      <4>5. x \in Entered(T0)
        BY <4>4, EnteredIs DEF UsedOf, InUse, F!isFatFileOrSubdir, F!At
      <4>6. x \notin GoneAt(pc, call)
        BY <4>1 DEF GoneAt
      <4> HIDE DEF x
      <4> QED BY <4>4, <4>5, <4>6, <2>5, <2>1
    <3>5. CASE ~MovedOK(T0, Inside, file, call)
      <4>1. pc = "del" /\ call.op = "remove" /\ OldIs(T0, call)
            /\ (call.old.isDir => T0[call.old.dir][call.old.index].first = call.old.first
                                  /\ Emptied(T0, F!Contents, fatOnDevice, fat, call))
        BY <3>1, <3>3, <3>5 DEF DelOK
      <4>2. call.old.isDir
        BY <4>1, <3>2 DEF OldIs, EntryIs
      <4>3. d = call.old.first /\ d \notin Targets(fat)
        BY <4>1, <4>2, <3>2 DEF Emptied
      <4> QED BY <4>1, <4>2, <4>3, <2>1 DEF RemovedNow
    <3> QED BY <3>4, <3>5
  <2> QED BY <2>6, <2>7
<1> QED BY <1>2, <1>3

-----------------------------------------------------------------------------
(* The contents of the program with the FAT of the device: a directory has *)
(* there the first of its entries.                                         *)
LEMMA MixedDir ==
  ASSUME F!DirectoryAssumption, IInv, NEW d \in DOMAIN T0
  PROVE  /\ Subs(F!Contents, fatOnDevice, d) \subseteq DOMAIN T0
         /\ NoneData(F!ChainSet(fatOnDevice, d), F!Contents) /\ NoneBehind(F!Slots(F!Contents, fatOnDevice, d))
         /\ \A x \in F!ChainSet(fatOnDevice, d) : fat[x] # 0 \/ RemovedNow(d)
         /\ ~RemovedNow(d) => F!ChainSet(fatOnDevice, d) \subseteq F!ChainSet(fat, d)
<1>0. TreeTyped(T0) /\ T0 = F!Tree(F!Contents, fat, 0) /\ Sectored(F!Contents) /\ program \in FatPrograms /\ Good(fat)
      /\ View(F!Contents, fat) /\ Later(fatOnDevice, fat, SettlingAt(pc))
      /\ PhaseOK(pc, T0, Inside, file, call, F!Contents, fatOnDevice, fat, m_sector)
  BY Now
<1>1. d \in F!Cluster \cup {0} /\ T0[d] = F!Slots(F!Contents, fat, d) /\ Subs(F!Contents, fat, d) \subseteq DOMAIN T0
      /\ NoneData(F!ChainSet(fat, d), F!Contents) /\ NoneBehind(T0[d])
  BY <1>0, TreeClosed DEF TreeTyped
<1>2. CASE ~RemovedNow(d)
  <2>1. fat[FirstOf(d)] # 0 /\ FirstOf(d) \notin Targets(fat)
    BY <1>2, DirHeld
  <2>2. Begins(F!Chain(fat, d), F!Chain(fatOnDevice, d))
    BY <2>1, <1>0, <1>1, LaterBegins
  <2>3. PrefixOf(F!Slots(F!Contents, fatOnDevice, d), T0[d]) /\ F!ChainSet(fatOnDevice, d) \subseteq F!ChainSet(fat, d)
    BY <2>2, <1>0, <1>1, SlotsPrefix
  <2>4. Subs(F!Contents, fatOnDevice, d) \subseteq Subs(F!Contents, fat, d) /\ NoneBehind(F!Slots(F!Contents, fatOnDevice, d))
    BY <2>3, <1>1, LivePrefix DEF Subs
  <2>5. \A x \in F!ChainSet(fat, d) : fat[x] # 0
    BY <2>1, <1>0, <1>1, ChainFacts
  <2> QED BY <2>3, <2>4, <2>5, <1>1 DEF NoneData
<1>3. CASE RemovedNow(d)
  <2>1. Emptied(T0, F!Contents, fatOnDevice, fat, call)
    BY <1>0, <1>3, PhaseDel DEF DelOK, RemovedNow, MovedOK
  <2>2. NoneData(F!ChainSet(fatOnDevice, d), F!Contents) /\ NoneBehind(F!Slots(F!Contents, fatOnDevice, d))
        /\ \A i \in DOMAIN F!Slots(F!Contents, fatOnDevice, d) : ~InUse(F!Slots(F!Contents, fatOnDevice, d), i)
    BY <2>1, <1>3 DEF Emptied, RemovedNow
  <2>3. Subs(F!Contents, fatOnDevice, d) = {}
    <3>1. Subs(F!Contents, fatOnDevice, d) = SubdirsOf(F!Slots(F!Contents, fatOnDevice, d))
      BY <2>2, <1>0, <1>1, SubsIs
    <3> QED BY <3>1, <2>2 DEF SubdirsOf, UsedOf
  <2> QED BY <2>2, <2>3, <1>3
<1> QED BY <1>2, <1>3

LEMMA Mixed ==
  ASSUME F!DirectoryAssumption, IInv
  PROVE  View(F!Contents, fatOnDevice) /\ Below(F!Contents, fatOnDevice, 0) \subseteq DOMAIN T0
<1>1. program \in FatPrograms /\ Sectored(F!Contents) /\ TreeTyped(T0)
  BY Now
<1>2. 0 \in DOMAIN T0 /\ ClosedUnder(F!Contents, fatOnDevice, DOMAIN T0)
  BY <1>1, MixedDir DEF TreeTyped, ClosedUnder, Subs
<1>3. Below(F!Contents, fatOnDevice, 0) \subseteq DOMAIN T0
  BY <1>1, <1>2, BelowIs
<1> QED BY <1>3, MixedDir DEF View

LEMMA DeviceKept ==
  ASSUME F!DirectoryAssumption, IInv, fatOnDevice' = fatOnDevice, NEW S, DOMAIN T0 \subseteq S,
         device' = F!Contents \/ (device' = device /\ DevXAt(pc, call) \subseteq S)
  PROVE  View(device', fatOnDevice') /\ Below(device', fatOnDevice', 0) \subseteq S
<1>1. CASE device' = F!Contents
  BY <1>1, Mixed
<1>2. CASE device' = device /\ DevXAt(pc, call) \subseteq S
  <2>1. DeviceP(device, fatOnDevice, T0, pc, call)
    BY Now
  <2> QED BY <1>2, <2>1 DEF DeviceP
<1> QED BY <1>1, <1>2

-----------------------------------------------------------------------------
(* What is left in the data cache. *)
VolumeNext ==
  /\ Sectored(device') /\ CacheTyped(m_sector', m_buffer') /\ Sectored(F!Contents')

LEMMA VolumeFrom ==
  ASSUME F!DirectoryAssumption, program \in FatPrograms, Sectored(device'), CacheTyped(m_sector', m_buffer')
  PROVE  VolumeNext
BY ContentsSectored, ContentsIs DEF VolumeNext

LEMMA StoreIs ==
  ASSUME F!DirectoryAssumption, IInv, NEW sector \in F!Cluster, NEW content \in DirSector, F!Store(sector, content)
  PROVE  /\ VolumeNext /\ F!Contents' = [F!Contents EXCEPT ![sector] = content]
         /\ (device' = F!Contents \/ (device' = device /\ m_sector = sector)) /\ m_sector' = sector
<1>1. program \in FatPrograms /\ Sectored(device) /\ CacheTyped(m_sector, m_buffer) /\ Sectored(F!Contents)
  BY Now
<1>2. 0 \notin F!Cluster
  BY <1>1, Setting
<1>3. device' = (IF sector = m_sector THEN device ELSE F!Contents) /\ m_sector' = sector /\ m_buffer' = content
  BY DEF F!Store
<1>4. VolumeNext
  BY <1>1, <1>3, VolumeFrom DEF CacheTyped
<1>5. F!Contents' = [device' EXCEPT ![sector] = content]
  BY <1>2, <1>3 DEF F!Contents
<1>6. CASE sector = m_sector
  <2>1. F!Contents = [device EXCEPT ![sector] = m_buffer]
    BY <1>2, <1>6 DEF F!Contents
  <2>2. [device EXCEPT ![sector] = content] = [F!Contents EXCEPT ![sector] = content]
    BY <2>1, <1>1 DEF Sectored
  <2> QED BY <2>2, <1>3, <1>4, <1>5, <1>6
<1>7. CASE sector # m_sector
  BY <1>3, <1>4, <1>5, <1>7
<1> QED BY <1>6, <1>7

LEMMA CleanIs ==
  ASSUME F!DirectoryAssumption, IInv, device' = F!Contents, F!Clean
  PROVE  VolumeNext /\ F!Contents' = F!Contents
<1>1. program \in FatPrograms /\ Sectored(F!Contents)
  BY Now
<1>2. VolumeNext
  BY <1>1, VolumeFrom DEF F!Clean, CacheTyped
<1> QED BY <1>2 DEF F!Clean, F!Contents

LEMMA ReadIs ==
  ASSUME F!DirectoryAssumption, IInv, NEW d, NEW last, F!ReadUpTo(d, last)
  PROVE  VolumeNext /\ F!Contents' = F!Contents /\ (device' = device \/ device' = F!Contents)
<1>1. program \in FatPrograms /\ Sectored(device) /\ CacheTyped(m_sector, m_buffer)
  BY Now
<1>2. CASE UNCHANGED <<device, F!cache>>
  BY <1>1, <1>2, VolumeFrom DEF F!cache, F!Contents
<1>3. CASE device' = F!Contents /\ F!Clean
  BY <1>3, CleanIs
<1> QED BY <1>2, <1>3 DEF F!ReadUpTo

LEMMA FirstOfDistinct ==
  ASSUME NEW d, NEW e, d # e, d # rootDirStart, e # rootDirStart
  PROVE  FirstOf(d) # FirstOf(e)
BY DEF FirstOf

(* Directories of the tree share no cluster. *)
LEMMA DirsApart ==
  ASSUME F!DirectoryAssumption, IInv, NEW d \in DOMAIN T0, NEW e \in DOMAIN T0, d # e
  PROVE  F!ChainSet(fat, d) \cap F!ChainSet(fat, e) = {}
<1>1. program \in FatPrograms /\ Good(fat) /\ TreeTyped(T0)
  BY Now
<1>2. FirstOf(d) \notin Targets(fat) /\ FirstOf(e) \notin Targets(fat)
  BY DirHeld
<1>3. d \in F!Cluster \cup {0} /\ e \in F!Cluster \cup {0} /\ FirstOf(d) # FirstOf(e)
  BY <1>1, FirstOfDistinct DEF TreeTyped
<1> QED BY <1>1, <1>2, <1>3, ChainsDisjoint

(* What storing one entry does. *)
LEMMA EntryStored ==
  ASSUME F!DirectoryAssumption, IInv, NEW d \in DOMAIN T0, NEW i \in DOMAIN T0[d], NEW slot \in SlotType,
         F!StoreEntry(d, i, slot)
  PROVE  /\ VolumeNext /\ m_sector' = SectorAt(fat, d, i)
         /\ device' = F!Contents \/ (device' = device /\ m_sector = SectorAt(fat, d, i))
         /\ \A e \in DOMAIN T0 : F!Slots(F!Contents', fat, e) = IF e = d THEN With(T0[d], i, slot) ELSE T0[e]
         /\ \A x \in F!Cluster : x \notin F!ChainSet(fat, d) => F!Contents'[x] = F!Contents[x]
         /\ \A x \in F!Cluster : F!Contents[x] # F!Data => F!Contents'[x] # F!Data
         /\ \A e \in DOMAIN T0 : NoneData(F!ChainSet(fat, e), F!Contents')
         /\ SectorAt(fat, d, i) \in F!ChainSet(fat, d)
<1>0. /\ TreeTyped(T0) /\ T0 = F!Tree(F!Contents, fat, 0) /\ Sectored(F!Contents) /\ program \in FatPrograms /\ Good(fat)
      /\ View(F!Contents, fat)
  BY Now
<1>1. \A e \in DOMAIN T0 : e \in F!Cluster \cup {0} /\ T0[e] = F!Slots(F!Contents, fat, e) /\ NoneData(F!ChainSet(fat, e), F!Contents)
  BY <1>0, TreeClosed DEF TreeTyped
<1>2. i \in 0 .. SizeOf(fat, d) - 1 /\ FirstOf(d) \notin Targets(fat)
  <2>1. DOMAIN F!Slots(F!Contents, fat, d) = 0 .. SizeOf(fat, d) - 1
    BY <1>0, <1>1, SlotsDomain
  <2>2. FirstOf(d) \notin Targets(fat)
    BY DirHeld
  <2> QED BY <1>1, <2>1, <2>2
<1> DEFINE s == SectorAt(fat, d, i)
           new == [F!Contents[s] EXCEPT ![i % F!EntriesPerSector] = slot]
<1>3. s \in F!Cluster /\ s \in F!ChainSet(fat, d) /\ i % F!EntriesPerSector \in 0 .. F!EntriesPerSector - 1
  BY <1>0, <1>1, <1>2, IndexPlace
<1>4. F!Contents[s] \in DirSector
  BY <1>0, <1>1, <1>3 DEF Sectored, NoneData
<1>5. new \in DirSector
  BY <1>3, <1>4 DEF DirSector
<1>6. F!SectorOf(d, i) = s
  BY DEF F!SectorOf, F!Sectors, SectorAt
<1>7. F!Store(s, new)
  BY <1>6 DEF F!StoreEntry
<1> HIDE DEF s, new
<1>8. /\ VolumeNext /\ F!Contents' = [F!Contents EXCEPT ![s] = new] /\ m_sector' = s
      /\ device' = F!Contents \/ (device' = device /\ m_sector = s)
  BY <1>3, <1>5, <1>7, StoreIs
<1>9. F!Contents' = Stored(F!Contents, fat, d, i, slot)
  BY <1>8 DEF Stored, s, new
<1>10. /\ F!Slots(F!Contents', fat, d) = With(T0[d], i, slot)
       /\ (\A x \in F!Cluster : x # s => F!Contents'[x] = F!Contents[x]) /\ F!Contents'[s] # F!Data
  BY <1>0, <1>1, <1>2, <1>9, SlotsStored DEF s
<1>11. ASSUME NEW e \in DOMAIN T0, e # d PROVE F!Slots(F!Contents', fat, e) = T0[e]
  <2>1. F!ChainSet(fat, d) \cap F!ChainSet(fat, e) = {} /\ F!ChainSet(fat, e) \subseteq F!Cluster
    BY <1>0, <1>1, <1>11, DirsApart, ChainSetIs
  <2>2. AgreeOn(F!ChainSet(fat, e), F!Contents, F!Contents')
    BY <2>1, <1>3, <1>10 DEF AgreeOn
  <2> QED BY <2>2, <1>0, <1>1, SlotsAgree
<1>12. \A x \in F!Cluster : F!Contents[x] # F!Data => F!Contents'[x] # F!Data
  BY <1>10
<1>13. \A e \in DOMAIN T0 : NoneData(F!ChainSet(fat, e), F!Contents')
  BY <1>0, <1>1, <1>12, ChainSetIs DEF NoneData
<1> QED BY <1>3, <1>8, <1>10, <1>11, <1>12, <1>13 DEF s

(* The file object that is a directory is in the tree. *)
LEMMA InsideWithin ==
  ASSUME F!DirectoryAssumption, IInv, file.open, file.isDir
  PROVE  /\ file.first \in DOMAIN T0 /\ Inside \subseteq DOMAIN T0 /\ file.first \in Inside
         /\ \A e \in Inside : T0[e] = F!Slots(F!Contents, fat, e)
<1>0. /\ TreeTyped(T0) /\ T0 = F!Tree(F!Contents, fat, 0) /\ Sectored(F!Contents) /\ program \in FatPrograms
      /\ View(F!Contents, fat) /\ FileIs(T0, file)
  BY Now
<1>1. Object(T0, file)
  BY <1>0 DEF FileIs, F!Closed
<1>2. T0[file.dir][file.index].kind = "subdir" /\ T0[file.dir][file.index].first = file.first
      /\ file.dir \in DOMAIN T0 /\ file.index \in DOMAIN T0[file.dir]
  BY <1>1 DEF Object, EntryIs
<1>3. file.first \in SubdirsOf(T0[file.dir])
  BY <1>2 DEF SubdirsOf, UsedOf, InUse, F!isFatFileOrSubdir
<1>4. file.first \in DOMAIN T0 /\ \A e \in DOMAIN T0 : T0[e] = F!Slots(F!Contents, fat, e)
  BY <1>0, <1>2, <1>3, TreeClosed
<1>5. Inside \subseteq DOMAIN T0
  BY <1>0, <1>4, BelowIs, BelowWithin DEF Inside
<1>6. file.first \in Inside
  BY <1>0, <1>4, BelowIs DEF Inside, TreeTyped
<1> QED BY <1>4, <1>5, <1>6

-----------------------------------------------------------------------------
(* The invariant of the next state, in its parts. *)
LEMMA PrimedSetting ==
  ASSUME program' = program
  PROVE  F!Cluster' = F!Cluster /\ F!MaxDirSectors' = F!MaxDirSectors /\ F!EntriesPerSector' = F!EntriesPerSector /\ SlotType' = SlotType /\ DirSector' = DirSector /\ F!Zeroed' = F!Zeroed /\ F!Index' = F!Index /\ F!Names' = F!Names
BY DEF F!Cluster, F!MaxDirSectors, F!EntriesPerSector, SlotType, DirSector, F!Zeroed, F!Index, SlotType, F!Names
HNow == HoldsP(T0, file, pc, call)
SNow == Singles(T0, HNow)
LEMMA PrimedHeld ==
  ASSUME program' = program
  PROVE  Held(fat, HNow, SNow)' = Held(fat', HNow', SNow')
BY PrimedSetting DEF Held, F!Chain, F!ChainSet, F!Cluster, F!MaxDirSectors, Targets
LEMMA PrimedHolds ==
  HNow' = HoldsP(T0', file', pc', call')
BY DEF HNow, HoldsP, Holding, HolderKeys, Holder, GoneAt, PendingAt, F!At, Entered, InUse
LEMMA PrimedSingles ==
  SNow' = Singles(T0', HNow')
BY DEF SNow, Singles, F!At
LEMMA PrimedLater ==
  ASSUME program' = program
  PROVE  Later(fatOnDevice, fat, SettlingAt(pc))' = Later(fatOnDevice', fat', SettlingAt(pc'))
BY PrimedSetting DEF Later, SettlingAt
LEMMA PrimedSets ==
  SetsP(T0, pc, call)' = SetsP(T0', pc', call')
BY DEF SetsP, FreeTail, Building, DotKinds, RawAt, PhaseOf, Written
LEMMA PrimedFile ==
  FileIs(T0, file)' = FileIs(T0', file')
BY DEF FileIs, Object, EntryIs, LfnOrdOK
LEMMA PrimedInside ==
  ASSUME program' = program
  PROVE  Inside' = Below(F!Contents', fat', file'.first)
BY DEF Inside, Below, F!Tree, F!Slots, F!Chain, F!Cluster, F!MaxDirSectors, F!EntriesPerSector, F!SlotIn
LEMMA PrimedDevice ==
  ASSUME program' = program
  PROVE  DeviceP(device, fatOnDevice, T0, pc, call)' = DeviceP(device', fatOnDevice', T0', pc', call')
BY DEF DeviceP, DevXAt, View, Below, F!Tree, F!Slots, F!Chain, F!Cluster, F!MaxDirSectors, F!EntriesPerSector, F!SlotIn, F!ChainSet
LEMMA PrimedSlots ==
  ASSUME program' = program
  PROVE  F!Slots(F!Contents, fatOnDevice, call.old.first)' = F!Slots(F!Contents', fatOnDevice', call'.old.first)
BY DEF F!Slots, F!Chain, F!Cluster, F!MaxDirSectors, F!EntriesPerSector, F!SlotIn
LEMMA PrimedChain ==
  ASSUME program' = program
  PROVE  F!ChainSet(fatOnDevice, call.old.first)' = F!ChainSet(fatOnDevice', call'.old.first)
BY PrimedSetting DEF F!ChainSet, F!Chain, F!Cluster, F!MaxDirSectors
LEMMA PrimedEmptied ==
  ASSUME program' = program
  PROVE  Emptied(T0, F!Contents, fatOnDevice, fat, call)' = Emptied(T0', F!Contents', fatOnDevice', fat', call')
<1>1. EmptyDir(T0, call.old.first)' = EmptyDir(T0', call'.old.first)
  BY DEF EmptyDir, InUse
<1>2. NoneData(F!ChainSet(fatOnDevice, call.old.first), F!Contents)' = NoneData(F!ChainSet(fatOnDevice', call'.old.first), F!Contents')
  BY PrimedChain DEF NoneData
<1>3. NoneBehind(F!Slots(F!Contents, fatOnDevice, call.old.first))' = NoneBehind(F!Slots(F!Contents', fatOnDevice', call'.old.first))
  BY PrimedSlots DEF NoneBehind
<1>4. \A i : InUse(F!Slots(F!Contents, fatOnDevice, call.old.first), i)' <=> InUse(F!Slots(F!Contents', fatOnDevice', call'.old.first), i)
  BY PrimedSlots DEF InUse
<1>5. Targets(fat)' = Targets(fat')
  BY PrimedSetting DEF Targets
<1> QED BY <1>1, <1>2, <1>3, <1>4, <1>5, PrimedSlots, PrimedChain DEF Emptied
LEMMA PrimedPhase ==
  ASSUME program' = program
  PROVE  
    PhaseOK(pc, T0, Inside, file, call, F!Contents, fatOnDevice, fat, m_sector)'
    = PhaseOK(pc', T0', Inside', file', call', F!Contents', fatOnDevice', fat', m_sector')
BY PrimedSetting, PrimedEmptied, PrimedFile DEF PhaseOK, SyncOK, RenameOK, DotsOK, CopyOK, Unwritten, SearchOK, GrowOK, NewOK, CreateOK, Run, LfnOK, SfnOK, Written, NewdirOK, CreatesDir, MadeIs, NewentryOK, EmptyDir, DotdotOK, MovedOK, OldIs, EntryIs, LfnOrdOK, DelOK, SectorAt, F!Chain
LEMMA PrimedGood ==
  ASSUME program' = program
  PROVE  Good(fat)' = Good(fat') /\ Good(fatOnDevice)' = Good(fatOnDevice')
BY PrimedSetting DEF Good, Link, Targets
LEMMA PrimedTyped ==
  ASSUME program' = program
  PROVE  TypedP(device, m_sector, m_buffer, file, call, at, kept)' = TypedP(device', m_sector', m_buffer', file', call', at', kept')
<1>1. Objects' = Objects /\ Calls' = Calls
  BY PrimedSetting DEF Objects, Calls
<1> QED BY PrimedSetting, <1>1 DEF TypedP, Sectored, CacheTyped
LEMMA PrimedTree ==
  ASSUME program' = program
  PROVE  T0' = F!Tree(F!Contents', fat', 0)
BY DEF T0, F!InProgram, F!Tree, F!Slots, F!Chain, F!Cluster, F!MaxDirSectors, F!EntriesPerSector, F!SlotIn
LEMMA PrimedView ==
  ASSUME program' = program
  PROVE  View(F!Contents, fat)' = View(F!Contents', fat')
BY DEF View, Below, F!Tree, F!Slots, F!Chain, F!Cluster, F!MaxDirSectors, F!EntriesPerSector, F!SlotIn, F!ChainSet

(* The state in its parts. *)
Parts ==
  /\ program \in FatPrograms
  /\ TypedP(device, m_sector, m_buffer, file, call, at, kept)
  /\ Good(fat) /\ Good(fatOnDevice) /\ Later(fatOnDevice, fat, SettlingAt(pc))
  /\ Held(fat, HNow, SNow)
  /\ View(F!Contents, fat)
  /\ SetsP(T0, pc, call)
  /\ FileIs(T0, file)
  /\ PhaseOK(pc, T0, Inside, file, call, F!Contents, fatOnDevice, fat, m_sector)
  /\ DeviceP(device, fatOnDevice, T0, pc, call)

LEMMA PartsIs == IInv <=> Parts
<1>1. F!Contents = ContentsOf(device, m_sector, m_buffer) /\ T0 = F!Tree(F!Contents, fat, 0) /\ Inside = Below(F!Contents, fat, file.first)
  BY ContentsIs DEF T0, F!InProgram, Inside
<1>2. HeldP(T0, fat, file, pc, call) <=> Held(fat, HNow, SNow)
  BY DEF HeldP, HNow, SNow
<1>3. LinksP(fatOnDevice, fat, pc) <=> Good(fat) /\ Good(fatOnDevice) /\ Later(fatOnDevice, fat, SettlingAt(pc))
  BY DEF LinksP
<1> QED BY <1>1, <1>2, <1>3 DEF IInv, IInvP, Parts

LEMMA IInvNext ==
  ASSUME F!DirectoryAssumption, program \in FatPrograms, program' = program, VolumeNext,
         file' \in Objects, call' \in Calls, \A k \in DOMAIN at' : at'[k] \in F!Index, kept' \subseteq F!Cluster,
         Good(fat'), Good(fatOnDevice'), Later(fatOnDevice', fat', SettlingAt(pc')),
         HeldP(T0', fat', file', pc', call'),
         View(F!Contents', fat'), SetsP(T0', pc', call'), FileIs(T0', file'),
         PhaseOK(pc', T0', Inside', file', call', F!Contents', fatOnDevice', fat', m_sector'),
         View(device', fatOnDevice'), Below(device', fatOnDevice', 0) \subseteq DOMAIN T0' \cup DevXAt(pc', call')
  PROVE  IInv'
<1>1. program' \in FatPrograms
  OBVIOUS
<1>2. TypedP(device, m_sector, m_buffer, file, call, at, kept)'
  BY PrimedTyped DEF TypedP, VolumeNext
<1>3. Good(fat)' /\ Good(fatOnDevice)' /\ Later(fatOnDevice, fat, SettlingAt(pc))'
  BY PrimedGood, PrimedLater
<1>4. Held(fat, HNow, SNow)'
  BY PrimedHeld, PrimedHolds, PrimedSingles DEF HeldP
<1>5. View(F!Contents, fat)'
  BY PrimedView
<1>6. SetsP(T0, pc, call)' /\ FileIs(T0, file)'
  BY PrimedSets, PrimedFile
<1>7. PhaseOK(pc, T0, Inside, file, call, F!Contents, fatOnDevice, fat, m_sector)'
  BY PrimedPhase
<1>8. DeviceP(device, fatOnDevice, T0, pc, call)'
  BY PrimedDevice DEF DeviceP
<1>9. Parts'
  BY <1>1, <1>2, <1>3, <1>4, <1>5, <1>6, <1>7, <1>8 DEF Parts
<1>10. (IInv <=> Parts)'
  BY PartsIs, PTL
<1> QED BY <1>9, <1>10

-----------------------------------------------------------------------------
(* Types of what a call begins with. *)
LEMMA TypedConstants ==
  ASSUME F!DirectoryAssumption, program \in FatPrograms
  PROVE  /\ F!Free \in SlotType /\ F!Deleted \in SlotType /\ F!Closed \in Objects /\ F!NoCall \in Calls /\ F!Zeroed \in DirSector
         /\ Basis \in Name /\ F!Names \subseteq Name /\ F!Garbage \notin SlotType
<1>1. Basis \in Name /\ F!Names \subseteq Name /\ 0 \in 0 .. LfnEntries
  BY Setting DEF Name
<1>2. F!Free \in SlotType /\ F!Deleted \in SlotType
  BY <1>1 DEF F!Free, F!Deleted, F!Slot, SlotType, F!isFatFileOrSubdir, Kinds
<1>3. F!Closed \in Objects
  BY <1>1 DEF F!Closed, Objects
<1>4. F!NoCall \in Calls
  BY <1>1, <1>2, <1>3 DEF F!NoCall, Calls, Steps, F!LongSfns
<1>5. F!Zeroed \in DirSector
  BY <1>2 DEF F!Zeroed, DirSector
<1>6. F!Garbage \notin SlotType
  BY DEF F!Garbage, F!Slot, SlotType, Kinds
<1> QED BY <1>1, <1>2, <1>3, <1>4, <1>5, <1>6

LEMMA PhaseIs ==
  ASSUME NEW T, NEW B, NEW o, NEW c, NEW contents, NEW onDevice, NEW links, NEW sector, NEW step
  PROVE  LET P == PhaseOK(step, T, B, o, c, contents, onDevice, links, sector) IN
         /\ step = "idle" => (P <=> c = F!NoCall)
         /\ step = "entry" => (P <=> SyncOK(T, B, o, c) /\ o.dirty)
         /\ step = "search" => (P <=> SearchOK(T, B, o, c))
         /\ step = "grow" => (P <=> GrowOK(T, B, o, c))
         /\ step = "lfn" => (P <=> LfnOK(T, B, o, c))
         /\ step = "sfn" => (P <=> SfnOK(T, B, o, c))
         /\ step = "newdir" => (P <=> NewdirOK(T, B, o, c))
         /\ step = "newentry" => (P <=> NewentryOK(T, B, o, c, contents) /\ links[c.first] = EOC)
         /\ step = "dots" => (P <=> DotsOK(T, B, o, c))
         /\ step = "copy" => (P <=> CopyOK(T, B, o, c))
         /\ step = "dotdot" => (P <=> DotdotOK(T, B, o, c, contents) /\ sector = SectorAt(links, c.dir, c.index))
         /\ step = "del" => (P <=> DelOK(T, B, o, c, contents, onDevice, links))
         /\ step = "unlfn" => (P <=> Unwritten(T, c))
<1> DEFINE P == PhaseOK(step, T, B, o, c, contents, onDevice, links, sector)
<1>1. step = "idle" => (P <=> c = F!NoCall)
  BY DEF PhaseOK
<1>2. step = "entry" => (P <=> SyncOK(T, B, o, c) /\ o.dirty)
  BY DEF PhaseOK
<1>3. step = "search" => (P <=> SearchOK(T, B, o, c))
  BY DEF PhaseOK
<1>4. step = "grow" => (P <=> GrowOK(T, B, o, c))
  BY DEF PhaseOK
<1>5. step = "lfn" => (P <=> LfnOK(T, B, o, c))
  BY DEF PhaseOK
<1>6. step = "sfn" => (P <=> SfnOK(T, B, o, c))
  BY DEF PhaseOK
<1>7. step = "newdir" => (P <=> NewdirOK(T, B, o, c))
  BY DEF PhaseOK
<1>8. step = "newentry" => (P <=> NewentryOK(T, B, o, c, contents) /\ links[c.first] = EOC)
  BY DEF PhaseOK
<1>9. step = "dots" => (P <=> DotsOK(T, B, o, c))
  BY DEF PhaseOK
<1>10. step = "copy" => (P <=> CopyOK(T, B, o, c))
  BY DEF PhaseOK
<1>11. step = "dotdot" => (P <=> DotdotOK(T, B, o, c, contents) /\ sector = SectorAt(links, c.dir, c.index))
  BY DEF PhaseOK
<1>12. step = "del" => (P <=> DelOK(T, B, o, c, contents, onDevice, links))
  BY DEF PhaseOK
<1>13. step = "unlfn" => (P <=> Unwritten(T, c))
  BY DEF PhaseOK
<1> QED BY <1>1, <1>2, <1>3, <1>4, <1>5, <1>6, <1>7, <1>8, <1>9, <1>10, <1>11, <1>12, <1>13

(* While cacheSync() runs. *)
SyncGoal(T, B, o, c) ==
  \/ SyncOK(T, B, o, c) /\ ~o.dirty
  \/ c.then = "idle" /\ c.op \in {"mkdir", "remove", "rename"}
  \/ c.then = "dots" /\ DotsOK(T, B, o, c)
  \/ c.then = "copy" /\ CopyOK(T, B, o, c)
  \/ c.then = "unlfn" /\ Unwritten(T, c)
LEMMA PhaseSync ==
  ASSUME NEW T, NEW B, NEW o, NEW c, NEW contents, NEW onDevice, NEW links, NEW sector, NEW step
  PROVE  LET P == PhaseOK(step, T, B, o, c, contents, onDevice, links, sector) IN
         /\ step = "data" => (P <=> SyncGoal(T, B, o, c))
         /\ step = "fat" => (P <=> SyncGoal(T, B, o, c) /\ sector = 0)
BY DEF PhaseOK, SyncGoal

-----------------------------------------------------------------------------
(* A step that changes nothing of what the program has of the volume. *)
LEMMA Quiet ==
  ASSUME F!DirectoryAssumption, IInv, program' = program, VolumeNext, F!Contents' = F!Contents, fat' = fat, file' = file,
         fatOnDevice' = fatOnDevice, call' \in Calls, at' = at, kept' = kept,
         device' = F!Contents \/ (device' = device /\ DevXAt(pc, call) \subseteq DOMAIN T0 \cup DevXAt(pc', call')),
         SettlingAt(pc) => SettlingAt(pc'),
         GoneAt(pc', call') = GoneAt(pc, call), PendingAt(pc', call') = PendingAt(pc, call),
         SetsP(T0, pc', call'),
         PhaseOK(pc', T0, Inside, file, call', F!Contents, fatOnDevice, fat, m_sector')
  PROVE  IInv'
<1>0. /\ program \in FatPrograms /\ file \in Objects /\ (\A k \in DOMAIN at : at[k] \in F!Index) /\ kept \subseteq F!Cluster
      /\ Good(fat) /\ Good(fatOnDevice) /\ Later(fatOnDevice, fat, SettlingAt(pc)) /\ HeldP(T0, fat, file, pc, call)
      /\ T0 = F!Tree(F!Contents, fat, 0) /\ View(F!Contents, fat) /\ FileIs(T0, file)
  BY Now
<1>1. T0' = T0 /\ Inside' = Inside
  BY <1>0, PrimedTree, PrimedInside DEF Inside
<1>2. HeldP(T0, fat, file, pc', call')
  BY <1>0 DEF HeldP, HoldsP
<1>3. Later(fatOnDevice, fat, SettlingAt(pc'))
  BY <1>0, LaterSettling
<1>4. View(device', fatOnDevice') /\ Below(device', fatOnDevice', 0) \subseteq DOMAIN T0 \cup DevXAt(pc', call')
  BY DeviceKept
<1> QED BY <1>0, <1>1, <1>2, <1>3, <1>4, IInvNext

LEMMA SameCache ==
  ASSUME F!DirectoryAssumption, IInv, UNCHANGED F!volume, UNCHANGED F!cache
  PROVE  VolumeNext /\ F!Contents' = F!Contents /\ device' = device /\ fat' = fat /\ fatOnDevice' = fatOnDevice
         /\ m_sector' = m_sector
<1>1. program \in FatPrograms /\ Sectored(device) /\ CacheTyped(m_sector, m_buffer)
  BY Now
<1>2. UNCHANGED <<device, fat, fatOnDevice, m_sector, m_buffer>>
  BY DEF F!volume, F!cache
<1>3. VolumeNext
  BY <1>1, <1>2, VolumeFrom
<1> QED BY <1>2, <1>3 DEF F!Contents

-----------------------------------------------------------------------------
LEMMA BuildingNone ==
  ASSUME NEW step, NEW c, step \notin {"lfn", "sfn"} \/ ~F!Lost(c.name) \/ (step = "lfn" /\ c.order = 1)
  PROVE  Building(step, c) = {}
<1>1. Written(step, c) = 0
  BY DEF Written
<1> QED BY <1>1 DEF Building

LEMMA SetsSame ==
  ASSUME NEW T, NEW step, NEW c, SetsP(T, step, c), NEW step2, NEW c2,
         Building(step, c) \subseteq Building(step2, c2), RawAt(step, c) \subseteq RawAt(step2, c2)
  PROVE  SetsP(T, step2, c2)
BY DEF SetsP, FreeTail, DotKinds

LEMMA IdleNow ==
  ASSUME F!DirectoryAssumption, IInv, pc = "idle"
  PROVE  /\ call = F!NoCall /\ GoneAt(pc, call) = {} /\ PendingAt(pc, call) = 0 /\ Building(pc, call) = {} /\ RawAt(pc, call) = {}
         /\ DevXAt(pc, call) = {} /\ SettlingAt(pc) = FALSE
         /\ FreeTail(T0, {}) /\ DotKinds(T0, {})
<1>1. call = F!NoCall
  BY Now, PhaseIs
<1>2. Building(pc, call) = {}
  BY BuildingNone
<1>3. RawAt(pc, call) = {}
  BY DEF RawAt, PhaseOf
<1>4. GoneAt(pc, call) = {} /\ PendingAt(pc, call) = 0 /\ DevXAt(pc, call) = {} /\ SettlingAt(pc) = FALSE
  BY DEF GoneAt, PendingAt, DevXAt, SettlingAt
<1>5. SetsP(T0, pc, call)
  BY Now
<1> QED BY <1>1, <1>2, <1>3, <1>4, <1>5 DEF SetsP

(* A call begins. *)
LEMMA CallBegins ==
  ASSUME F!DirectoryAssumption, IInv, pc = "idle", UNCHANGED <<program, F!volume, F!cache, file, F!history>>,
         call' \in Calls, pc' \in {"search", "entry", "data"}, call'.then \in {"search", "idle"},
         PhaseOK(pc', T0, Inside, file, call', F!Contents, fatOnDevice, fat, m_sector)
  PROVE  IInv'
<1>1. VolumeNext /\ F!Contents' = F!Contents /\ device' = device /\ fat' = fat /\ fatOnDevice' = fatOnDevice /\ m_sector' = m_sector
  BY SameCache
<1>2. program' = program /\ file' = file /\ at' = at /\ kept' = kept
  BY DEF F!history
<1>3. GoneAt(pc', call') = {} /\ PendingAt(pc', call') = 0 /\ RawAt(pc', call') = {}
  BY DEF GoneAt, PendingAt, RawAt, PhaseOf
<1>4. Building(pc', call') = {}
  BY BuildingNone
<1>5. SetsP(T0, pc', call')
  BY <1>3, <1>4, IdleNow DEF SetsP
<1> QED BY <1>1, <1>2, <1>3, <1>4, <1>5, IdleNow, Quiet

LEMMA SearchBegins ==
  ASSUME F!DirectoryAssumption, IInv, NEW d \in F!Directories, NEW name \in F!Names, NEW op \in F!Modes \cup {"mkdir"},
         op \in F!Modes => ~file.open, F!BeginSearch(d, op, name)
  PROVE  IInv'
<1>1. program \in FatPrograms /\ TreeTyped(T0) /\ T0 = F!Tree(F!Contents, fat, 0)
  BY Now
<1>2. d \in DOMAIN T0 /\ d \in F!Cluster \cup {0}
  BY <1>1 DEF F!Directories, TreeTyped
<1>3. pc' = "search" /\ call' = [F!NoCall EXCEPT !.op = op, !.dir = d, !.name = name]
  BY DEF F!BeginSearch, F!Goes
<1>4. F!NoCall \in Calls /\ name \in Name
  BY <1>1, TypedConstants
<1>5. call' \in Calls /\ call'.op = op /\ call'.dir = d /\ call'.name = name /\ call'.then = "idle"
  BY <1>2, <1>3, <1>4 DEF Calls, F!NoCall
<1>6. SearchOK(T0, Inside, file, call')
  BY <1>2, <1>5 DEF SearchOK, F!Modes
<1>7. PhaseOK(pc', T0, Inside, file, call', F!Contents, fatOnDevice, fat, m_sector)
  BY <1>3, <1>6, PhaseIs
<1> QED BY <1>3, <1>5, <1>7, CallBegins DEF F!BeginSearch

LEMMA OpenKeeps ==
  ASSUME F!DirectoryAssumption, IInv, NEW d \in F!Directories, NEW name \in F!Names, NEW mode \in program.modes,
         F!open(d, name, mode)
  PROVE  IInv'
<1>1. mode \in F!Modes
  BY Now, Setting
<1> QED BY <1>1, SearchBegins DEF F!open

LEMMA MkdirKeeps ==
  ASSUME F!DirectoryAssumption, IInv, NEW d \in F!Directories, NEW name \in F!Names, F!mkdir(d, name)
  PROVE  IInv'
BY SearchBegins DEF F!mkdir, F!Modes

LEMMA SyncBegins ==
  ASSUME F!DirectoryAssumption, IInv, pc = "idle", UNCHANGED <<program, F!volume, F!cache, file, F!history>>,
         NEW c \in Calls, SyncOK(T0, Inside, file, c), F!BeginSync(c)
  PROVE  IInv'
<1>1. pc' = (IF file.dirty THEN "entry" ELSE "data") /\ call' = c
  BY DEF F!BeginSync, F!Goes
<1>2. c.then \in {"search", "idle"}
  BY DEF SyncOK
<1>3. PhaseOK(pc', T0, Inside, file, call', F!Contents, fatOnDevice, fat, m_sector)
  BY <1>1, PhaseIs, PhaseSync DEF SyncGoal
<1> QED BY <1>1, <1>2, <1>3, CallBegins

LEMMA CloseKeeps ==
  ASSUME F!DirectoryAssumption, IInv, F!close
  PROVE  IInv'
<1> DEFINE c == [F!NoCall EXCEPT !.op = "close"]
<1>1. F!NoCall \in Calls
  BY Now, TypedConstants
<1>2. c \in Calls /\ c.op = "close" /\ c.then = "idle"
  BY <1>1 DEF Calls, F!NoCall
<1>3. SyncOK(T0, Inside, file, c)
  BY <1>2 DEF SyncOK, F!close
<1> QED BY <1>2, <1>3, SyncBegins DEF F!close

LEMMA RenameKeeps ==
  ASSUME F!DirectoryAssumption, IInv, NEW d \in F!Directories, NEW name \in F!Names, F!rename(d, name)
  PROVE  IInv'
<1> DEFINE c == [F!NoCall EXCEPT !.op = "rename", !.dir = d, !.name = name, !.then = "search"]
<1>1. program \in FatPrograms /\ TreeTyped(T0) /\ T0 = F!Tree(F!Contents, fat, 0)
  BY Now
<1>2. d \in DOMAIN T0 /\ d \in F!Cluster \cup {0}
  BY <1>1 DEF F!Directories, TreeTyped
<1>3. F!NoCall \in Calls /\ name \in Name
  BY <1>1, TypedConstants
<1>4. c \in Calls /\ c.op = "rename" /\ c.dir = d /\ c.name = name /\ c.then = "search"
  BY ZenonT(60), <1>2, <1>3 DEF Calls, F!NoCall, Steps
<1>5. file.open /\ (file.isDir => d \notin Inside)
  BY DEF F!rename, Inside, Below
<1>6. SyncOK(T0, Inside, file, c)
  BY <1>2, <1>4, <1>5 DEF SyncOK, RenameOK
<1> QED BY <1>4, <1>6, SyncBegins DEF F!rename

-----------------------------------------------------------------------------
LEMMA SyncDataKeeps ==
  ASSUME F!DirectoryAssumption, IInv, F!syncData
  PROVE  IInv'
<1>1. /\ program' = program /\ fat' = fat /\ fatOnDevice' = fatOnDevice /\ file' = file /\ call' = call /\ at' = at /\ kept' = kept
      /\ pc = "data" /\ pc' = "fat" /\ device' = F!Contents /\ m_sector' = 0 /\ F!Clean
  BY DEF F!syncData, F!history, F!Clean
<1>2. VolumeNext /\ F!Contents' = F!Contents
  BY <1>1, CleanIs
<1>3. call \in Calls /\ SetsP(T0, pc, call) /\ PhaseOK(pc, T0, Inside, file, call, F!Contents, fatOnDevice, fat, m_sector)
  BY Now
<1>4. GoneAt(pc', call') = GoneAt(pc, call) /\ PendingAt(pc', call') = PendingAt(pc, call) /\ RawAt(pc', call') = RawAt(pc, call)
      /\ SettlingAt(pc')
  BY <1>1 DEF GoneAt, PendingAt, RawAt, PhaseOf, SettlingAt
<1>5. Building(pc, call) = {}
  BY <1>1, BuildingNone
<1>6. SetsP(T0, pc', call')
  BY <1>1, <1>3, <1>4, <1>5, SetsSame
<1>7. PhaseOK(pc', T0, Inside, file, call', F!Contents, fatOnDevice, fat, m_sector')
  BY <1>1, <1>3, PhaseSync
<1> QED BY <1>1, <1>2, <1>3, <1>4, <1>6, <1>7, Quiet

LEMMA SizeNow ==
  ASSUME F!DirectoryAssumption, IInv, NEW d \in DOMAIN T0
  PROVE  /\ DOMAIN T0[d] = 0 .. SizeOf(fat, d) - 1 /\ LenOf(T0[d]) = SizeOf(fat, d) /\ F!Size(d) = SizeOf(fat, d)
         /\ T0[d] = F!Slots(F!Contents, fat, d) /\ F!Entries(d) = T0[d] /\ d \in F!Cluster \cup {0}
         /\ SizeOf(fat, d) \in Nat \ {0, 1}
         /\ \A i \in DOMAIN T0[d] : F!Entry(d, i) = T0[d][i] /\ T0[d][i] \in SlotType /\ i \in F!Index
<1>1. program \in FatPrograms /\ TreeTyped(T0) /\ T0 = F!Tree(F!Contents, fat, 0) /\ Sectored(F!Contents) /\ View(F!Contents, fat)
  BY Now
<1>2. T0[d] = F!Slots(F!Contents, fat, d) /\ d \in F!Cluster \cup {0} /\ DirSlots(T0[d])
  BY <1>1, TreeClosed DEF TreeTyped
<1>3. DOMAIN T0[d] = 0 .. SizeOf(fat, d) - 1 /\ LenOf(T0[d]) = SizeOf(fat, d)
  BY <1>1, <1>2, SlotsDomain
<1>4. SizeOf(fat, d) \in Nat \ {0, 1} /\ SizeOf(fat, d) <= F!MaxDirSectors * F!EntriesPerSector
  BY <1>1, <1>2, SizeIs
<1>5. F!Size(d) = SizeOf(fat, d) /\ F!Entries(d) = T0[d]
  BY <1>2 DEF F!Size, SizeOf, F!Sectors, F!Entries
<1>6. F!MaxDirSectors * F!EntriesPerSector \in Nat
  BY <1>1, Setting, Times
<1>7. ASSUME NEW i \in DOMAIN T0[d] PROVE F!Entry(d, i) = T0[d][i] /\ T0[d][i] \in SlotType /\ i \in F!Index
  <2>1. T0[d][i] = F!SlotIn(F!Contents[SectorAt(fat, d, i)], i)
    <3>1. i \in 0 .. SizeOf(fat, d) - 1
      BY <1>3
    <3>2. F!Slots(F!Contents, fat, d)[i] = F!SlotIn(F!Contents[SectorAt(fat, d, i)], i)
      BY <1>1, <1>2, <3>1, SlotIs
    <3> QED BY <1>2, <3>2
  <2>2. F!SectorOf(d, i) = SectorAt(fat, d, i)
    BY DEF F!SectorOf, F!Sectors, SectorAt
  <2>3. T0[d][i] \in SlotType
    BY <1>2 DEF DirSlots
  <2>4. i \in F!Index
    <3> DEFINE m == F!MaxDirSectors * F!EntriesPerSector
    <3>1. F!Index = 0 .. m - 1
      BY DEF F!Index
    <3> HIDE DEF m
    <3>2. m \in Nat /\ SizeOf(fat, d) <= m
      BY <1>4, <1>6 DEF m
    <3> QED BY <3>1, <3>2, <1>3, <1>4
  <2> QED BY <2>1, <2>2, <2>3, <2>4 DEF F!Entry
<1> QED BY <1>2, <1>3, <1>4, <1>5, <1>7

-----------------------------------------------------------------------------
LEMMA CreateSame ==
  ASSUME NEW T, NEW B, NEW o, NEW c, CreateOK(T, B, o, c), NEW c2,
         c2.dir = c.dir, c2.name = c.name, c2.op = c.op, c2.saved = c.saved
  PROVE  CreateOK(T, B, o, c2)
BY DEF CreateOK, RenameOK

LEMMA RunSame ==
  ASSUME NEW slots, NEW c, NEW written, Run(slots, c, written), NEW c2, c2.index = c.index, c2.name = c.name
  PROVE  Run(slots, c2, written)
BY DEF Run

(* A step that ends the call and leaves the volume and the file. *)
LEMMA QuietEnds ==
  ASSUME F!DirectoryAssumption, IInv, program' = program, VolumeNext, F!Contents' = F!Contents, fat' = fat, file' = file,
         fatOnDevice' = fatOnDevice, at' = at, kept' = kept, F!Ends,
         device' = F!Contents \/ (device' = device /\ DevXAt(pc, call) = {}),
         SettlingAt(pc) = FALSE, GoneAt(pc, call) = {}, PendingAt(pc, call) = 0,
         FreeTail(T0, {}), DotKinds(T0, {})
  PROVE  IInv'
<1>1. pc' = "idle" /\ call' = F!NoCall
  BY DEF F!Ends
<1>2. F!NoCall \in Calls
  BY Now, TypedConstants
<1>3. GoneAt(pc', call') = {} /\ PendingAt(pc', call') = 0 /\ RawAt(pc', call') = {}
  BY <1>1 DEF GoneAt, PendingAt, RawAt, PhaseOf
<1>4. Building(pc', call') = {}
  BY <1>1, BuildingNone
<1>5. SetsP(T0, pc', call')
  BY <1>3, <1>4 DEF SetsP
<1>6. PhaseOK(pc', T0, Inside, file, call', F!Contents, fatOnDevice, fat, m_sector')
  BY <1>1, PhaseIs
<1> QED BY <1>1, <1>2, <1>3, <1>5, <1>6, Quiet

(* What does not depend on the call while it searches or creates. *)
PlainSteps == {"idle", "search", "grow", "lfn", "sfn", "newdir", "copy", "entry", "unlfn"}
PairSteps == {"lfn", "sfn"}
LEMMA PlainStep ==
  ASSUME NEW step, NEW c, step \in PlainSteps
  PROVE  /\ GoneAt(step, c) = {} /\ PendingAt(step, c) = 0 /\ RawAt(step, c) = {} /\ DevXAt(step, c) = {}
         /\ SettlingAt(step) = FALSE
         /\ step \notin PairSteps => Building(step, c) = {}
BY BuildingNone DEF PlainSteps, PairSteps, GoneAt, PendingAt, RawAt, DevXAt, SettlingAt, PhaseOf

LEMMA CallTyped ==
  ASSUME F!DirectoryAssumption, program \in FatPrograms, NEW c \in Calls, NEW sfn \in ShortNames \cup F!LongSfns
  PROVE  [c EXCEPT !.sfn = sfn] \in Calls
BY DEF Calls

LEMMA MakeUniqueKeeps ==
  ASSUME F!DirectoryAssumption, IInv, F!makeUniqueSfn
  PROVE  IInv'
<1>0. program \in FatPrograms /\ call \in Calls /\ SetsP(T0, pc, call)
      /\ PhaseOK(pc, T0, Inside, file, call, F!Contents, fatOnDevice, fat, m_sector)
  BY Now
<1>1. /\ program' = program /\ fat' = fat /\ fatOnDevice' = fatOnDevice /\ file' = file /\ at' = at /\ kept' = kept
      /\ pc = "grow" /\ call.index < F!Size(call.dir)
  BY DEF F!makeUniqueSfn, F!history
<1>2. GrowOK(T0, Inside, file, call)
  BY <1>0, <1>1, PhaseIs
<1>3. VolumeNext /\ F!Contents' = F!Contents /\ (device' = device \/ device' = F!Contents)
  <2>1. CASE call.alias
    <3>1. PICK last : F!ReadUpTo(call.dir, last)
      BY <2>1 DEF F!makeUniqueSfn
    <3> QED BY <3>1, ReadIs
  <2>2. CASE ~call.alias
    <3>1. UNCHANGED <<device, F!cache>>
      BY <2>2 DEF F!makeUniqueSfn
    <3>2. UNCHANGED F!volume /\ UNCHANGED F!cache
      BY <3>1, <1>1 DEF F!volume
    <3> QED BY <3>2, SameCache
  <2> QED BY <2>1, <2>2
<1>9. pc \in PlainSteps /\ pc \notin PairSteps
  BY <1>1 DEF PlainSteps, PairSteps
<1>10. /\ GoneAt(pc, call) = {} /\ PendingAt(pc, call) = 0 /\ RawAt(pc, call) = {} /\ DevXAt(pc, call) = {}
      /\ SettlingAt(pc) = FALSE /\ Building(pc, call) = {}
  BY <1>9, PlainStep
<1>4. FreeTail(T0, {}) /\ DotKinds(T0, {})
  BY <1>0, <1>10 DEF SetsP
<1>5. CASE F!Ends
  BY <1>1, <1>3, <1>4, <1>5, <1>10, QuietEnds
<1> DEFINE next == IF F!Lost(call.name) THEN "lfn" ELSE "sfn"
<1>6. ASSUME NEW c \in Calls, F!Goes(next, c), c.dir = call.dir, c.name = call.name, c.op = call.op, c.saved = call.saved,
             c.index = call.index, c.order = call.order, F!Lost(call.name) => c.sfn \in F!LongSfns
      PROVE  IInv'
  <2>1. pc' = next /\ call' = c
    BY <1>6 DEF F!Goes
  <2>2. NewOK(T0, Inside, file, call, 0) /\ call.order = 1
    BY <1>2 DEF GrowOK
  <2>3. CreateOK(T0, Inside, file, c) /\ Run(T0[c.dir], c, 0)
    BY <2>2, <1>6, CreateSame, RunSame DEF NewOK
  <2>4. c.index \in DOMAIN T0[c.dir]
    <3>1. call.dir \in DOMAIN T0 /\ call.index \in Nat
      BY <1>0, <2>2 DEF NewOK, CreateOK, Calls
    <3>2. DOMAIN T0[call.dir] = 0 .. SizeOf(fat, call.dir) - 1 /\ F!Size(call.dir) = SizeOf(fat, call.dir)
          /\ SizeOf(fat, call.dir) \in Nat
      BY <3>1, SizeNow
    <3> QED BY <1>1, <1>6, <3>1, <3>2
  <2>5. NewOK(T0, Inside, file, c, 0) /\ c.order = 1
    BY <2>2, <2>3, <1>6 DEF NewOK
  <2>6. PhaseOK(pc', T0, Inside, file, call', F!Contents, fatOnDevice, fat, m_sector')
    <3>1. CASE F!Lost(call.name)
      <4>1. LfnOK(T0, Inside, file, c)
        <5>1. c.order \in 1 .. LfnEntries /\ c.order - 1 = 0
          BY <2>5, <1>0, Setting
        <5> QED BY <5>1, <2>4, <2>5, <3>1, <1>6 DEF LfnOK
      <4> QED BY <2>1, <3>1, <4>1, PhaseIs
    <3>2. CASE ~F!Lost(call.name)
      <4>1. SfnOK(T0, Inside, file, c)
        BY <2>4, <2>5, <3>2, <1>6 DEF SfnOK, Written
      <4> QED BY <2>1, <3>2, <4>1, PhaseIs
    <3> QED BY <3>1, <3>2
  <2>7. Building(pc', call') = {}
    BY <2>1, <2>5, <1>6, BuildingNone
  <2>8. GoneAt(pc', call') = {} /\ PendingAt(pc', call') = 0 /\ RawAt(pc', call') = {}
    <3>1. pc' \in PlainSteps
      BY <2>1 DEF PlainSteps
    <3> QED BY <3>1, PlainStep
  <2>9. SetsP(T0, pc', call')
    BY <1>4, <2>7, <2>8 DEF SetsP
  <2> HIDE DEF next
  <2> QED BY <1>1, <1>3, <1>6, <2>1, <2>6, <2>8, <2>9, <1>10, Quiet
<1>7. CASE call.alias
  <2>1. CASE \E sfn \in Hashes : F!Goes(next, [call EXCEPT !.sfn = sfn])
    <3>1. PICK sfn \in Hashes : F!Goes(next, [call EXCEPT !.sfn = sfn])
      BY <2>1
    <3>2. [call EXCEPT !.sfn = sfn] \in Calls /\ sfn \in F!LongSfns
      BY <1>0, CallTyped DEF F!LongSfns
    <3> QED BY <3>1, <3>2, <1>0, <1>6 DEF Calls
  <2>2. CASE F!Ends
    BY <2>2, <1>5
  <2> QED BY <1>7, <2>1, <2>2 DEF F!makeUniqueSfn
<1>8. CASE ~call.alias
  <2>1. F!Goes(next, call)
    BY <1>8 DEF F!makeUniqueSfn
  <2>2. F!Lost(call.name) => call.sfn \in F!LongSfns
    BY <1>2 DEF GrowOK
  <2> QED BY <2>1, <2>2, <1>0, <1>6
<1> QED BY <1>7, <1>8

-----------------------------------------------------------------------------
(* An object that is not dirty holds what its entry names. *)
LEMMA CleanHolds ==
  ASSUME NEW T, NEW o1, FileIs(T, o1), ~o1.dirty, NEW o2, FileIs(T, o2), ~o2.dirty, NEW gone, NEW new
  PROVE  Holding(T, o1, gone, new) = Holding(T, o2, gone, new)
<1> DEFINE Plain(k) == IF k = RootKey THEN rootDirStart ELSE IF k = NewKey THEN new ELSE F!At(T, k).first
<1>1. ASSUME NEW o, FileIs(T, o), ~o.dirty, NEW k PROVE Holder(T, o, new, k) = Plain(k)
  <2>1. CASE o.open /\ k = <<o.dir, o.index>>
    <3>1. Object(T, o)
      BY <1>1, <2>1 DEF FileIs, F!Closed
    <3>2. F!At(T, k).first = o.first
      BY <3>1, <1>1, <2>1 DEF Object, F!At
    <3> QED BY <3>2, <2>1 DEF Holder
  <2>2. CASE ~(o.open /\ k = <<o.dir, o.index>>)
    BY <2>2 DEF Holder
  <2> QED BY <2>1, <2>2
<1>2. \A k : Holder(T, o1, new, k) = Holder(T, o2, new, k)
  BY <1>1
<1> QED BY <1>2 DEF Holding

LEMMA SyncFatKeeps ==
  ASSUME F!DirectoryAssumption, IInv, F!syncFat
  PROVE  IInv'
<1>0. /\ program \in FatPrograms /\ call \in Calls /\ file \in Objects /\ SetsP(T0, pc, call) /\ FileIs(T0, file)
      /\ PhaseOK(pc, T0, Inside, file, call, F!Contents, fatOnDevice, fat, m_sector)
      /\ (\A k \in DOMAIN at : at[k] \in F!Index) /\ kept \subseteq F!Cluster /\ Good(fat) /\ HeldP(T0, fat, file, pc, call)
      /\ T0 = F!Tree(F!Contents, fat, 0) /\ View(F!Contents, fat) /\ Sectored(device) /\ CacheTyped(m_sector, m_buffer)
      /\ Sectored(F!Contents)
  BY Now
<1>1. /\ program' = program /\ device' = device /\ fat' = fat /\ m_sector' = m_sector /\ m_buffer' = m_buffer /\ at' = at
      /\ pc = "fat" /\ fatOnDevice' = fat
  BY DEF F!syncFat, F!cache
<1>2. SyncGoal(T0, Inside, file, call) /\ m_sector = 0
  BY <1>0, <1>1, PhaseSync
<1>3. VolumeNext
  BY <1>0, <1>1, VolumeFrom
<1>4. F!Contents' = F!Contents /\ F!Contents = device
  BY <1>1, <1>2 DEF F!Contents
<1>5. T0' = T0
  BY <1>1, <1>4, <1>0, PrimedTree
<1>6. View(device', fatOnDevice') /\ Below(device', fatOnDevice', 0) \subseteq DOMAIN T0
  <2>1. DOMAIN T0 = Below(F!Contents, fat, 0)
    BY <1>0, TreeClosed
  <2> QED BY <2>1, <1>0, <1>1, <1>4
<1>7. Later(fatOnDevice', fat', SettlingAt(pc'))
  BY <1>1, LaterSynced
<1>8. GoneAt(pc, call) = {} /\ PendingAt(pc, call) = 0 /\ Building(pc, call) = {} /\ RawAt(pc, call) = RawAt(call.then, call)
  <2>1. call.then \notin {"data", "fat"}
    BY <1>2 DEF SyncGoal, SyncOK
  <2> QED BY <1>1, <2>1, BuildingNone DEF GoneAt, PendingAt, RawAt, PhaseOf
<1>9. HeldP(T0, fat, file, "idle", F!NoCall)
  <2>1. GoneAt("idle", F!NoCall) = {} /\ PendingAt("idle", F!NoCall) = 0
    BY DEF GoneAt, PendingAt
  <2> QED BY <2>1, <1>8, <1>0 DEF HeldP, HoldsP
<1>10. CASE call.then = "idle"
  <2>1. pc' = "idle" /\ call' = F!NoCall /\ kept' = kept \cup (F!Synced \ {0}) /\ file' = IF call.op = "close" THEN F!Closed ELSE file
    BY <1>10 DEF F!syncFat, F!Ends
  <2>2. kept' \subseteq F!Cluster
    <3>1. F!Synced \subseteq F!Cluster \cup {0}
      BY <1>0 DEF F!Synced, Calls, Objects
    <3> QED BY <3>1, <2>1, <1>0
  <2>3. file' \in Objects /\ FileIs(T0, file') /\ F!NoCall \in Calls
    BY <1>0, <2>1, TypedConstants DEF FileIs
  <2>4. HeldP(T0, fat, file', "idle", F!NoCall)
    <3>1. CASE call.op = "close"
      <4>1. SyncOK(T0, Inside, file, call) /\ ~file.dirty
        BY <1>2, <1>10, <3>1 DEF SyncGoal
      <4>2. file' = F!Closed /\ ~F!Closed.dirty /\ FileIs(T0, F!Closed)
        BY <2>1, <3>1 DEF F!Closed, FileIs
      <4>3. HoldsP(T0, file', "idle", F!NoCall) = HoldsP(T0, file, "idle", F!NoCall)
        BY <4>1, <4>2, <1>0, CleanHolds DEF HoldsP
      <4> QED BY <4>3, <1>9 DEF HeldP
    <3>2. CASE call.op # "close"
      BY <3>2, <2>1, <1>9
    <3> QED BY <3>1, <3>2
  <2>5. SetsP(T0, "idle", F!NoCall)
    <3>1. Building("idle", F!NoCall) = {} /\ RawAt("idle", F!NoCall) = {} /\ RawAt("idle", call) = {}
      BY BuildingNone DEF RawAt, PhaseOf
    <3> QED BY <3>1, <1>0, <1>8, <1>10 DEF SetsP
  <2>6. PhaseOK(pc', T0', Inside', file', call', F!Contents', fatOnDevice', fat', m_sector')
    BY <2>1, PhaseIs
  <2> QED BY <1>0, <1>1, <1>3, <1>4, <1>5, <1>6, <1>7, <2>1, <2>2, <2>3, <2>4, <2>5, <2>6, IInvNext
<1>11. CASE call.then # "idle"
  <2>1. pc' = call.then /\ call' = call /\ file' = file /\ kept' = kept
    BY <1>11 DEF F!syncFat, F!Goes
  <2>2. Inside' = Inside
    BY <1>1, <1>4, <2>1, PrimedInside DEF Inside
  <2>3. GoneAt(pc', call') = {} /\ PendingAt(pc', call') = 0
    BY <1>2, <2>1 DEF SyncGoal, SyncOK, GoneAt, PendingAt
  <2>4. HeldP(T0, fat, file, pc', call')
    BY <2>3, <1>8, <1>0 DEF HeldP, HoldsP
  <2>5. SetsP(T0, pc', call')
    <3>1. RawAt(pc', call') = RawAt(pc, call)
      BY <1>8, <2>1
    <3> QED BY <3>1, <1>0, <1>8, SetsSame
  <2>6. PhaseOK(pc', T0, Inside, file, call, F!Contents, fatOnDevice', fat, m_sector')
    <3>1. CASE SyncOK(T0, Inside, file, call) /\ ~file.dirty
      <4>1. call.then = "search" /\ SearchOK(T0, Inside, file, call)
        BY <3>1, <1>11 DEF SyncOK, SearchOK, F!Modes
      <4> QED BY <4>1, <2>1, PhaseIs
    <3>2. CASE call.then = "dots" /\ DotsOK(T0, Inside, file, call)
      BY <3>2, <2>1, PhaseIs
    <3>3. CASE call.then = "copy" /\ CopyOK(T0, Inside, file, call)
      BY <3>3, <2>1, PhaseIs
    <3>4. CASE call.then = "unlfn" /\ Unwritten(T0, call)
      BY <3>4, <2>1, PhaseIs
    <3> QED BY <1>2, <1>11, <3>1, <3>2, <3>3, <3>4 DEF SyncGoal
  <2> QED BY <1>0, <1>1, <1>3, <1>4, <1>5, <1>6, <1>7, <2>1, <2>2, <2>4, <2>5, <2>6, IInvNext
<1> QED BY <1>10, <1>11

-----------------------------------------------------------------------------
(* One entry of the tree is replaced, and no directory is named anew or no more. *)
LEMMA TreeStored ==
  ASSUME F!DirectoryAssumption, IInv, program' = program, fat' = fat, NEW d \in DOMAIN T0, NEW i \in DOMAIN T0[d],
         NEW slot \in SlotType, F!StoreEntry(d, i, slot), NoneBehind(With(T0[d], i, slot)),
         T0[d][i].kind # "subdir", slot.kind # "subdir"
  PROVE  /\ T0' = TreeWith(T0, d, i, slot) /\ View(F!Contents', fat') /\ TreeTyped(TreeWith(T0, d, i, slot))
         /\ \A x \in DOMAIN T0 : Below(F!Contents', fat', x) = Below(F!Contents, fat, x)
<1>0. /\ TreeTyped(T0) /\ T0 = F!Tree(F!Contents, fat, 0) /\ Sectored(F!Contents) /\ program \in FatPrograms /\ View(F!Contents, fat)
  BY Now
<1>1. /\ VolumeNext /\ (\A e \in DOMAIN T0 : NoneData(F!ChainSet(fat, e), F!Contents'))
      /\ \A e \in DOMAIN T0 : F!Slots(F!Contents', fat, e) = IF e = d THEN With(T0[d], i, slot) ELSE T0[e]
  BY EntryStored
<1>2. DOMAIN T0 = Below(F!Contents, fat, 0)
      /\ \A e \in DOMAIN T0 : e \in F!Cluster \cup {0} /\ T0[e] = F!Slots(F!Contents, fat, e) /\ Indexed(T0[e]) /\ NoneBehind(T0[e])
                              /\ Subs(F!Contents, fat, e) = SubdirsOf(T0[e])
  BY <1>0, TreeClosed DEF TreeTyped
<1>3. Sectored(F!Contents')
  BY <1>1 DEF VolumeNext
<1>4. SubdirsOf(With(T0[d], i, slot)) = SubdirsOf(T0[d])
  BY <1>2, SubdirsWith
<1>5. ASSUME NEW e \in DOMAIN T0 PROVE Subs(F!Contents', fat, e) = Subs(F!Contents, fat, e) /\ NoneBehind(F!Slots(F!Contents', fat, e))
  <2>1. CASE e = d
    <3>1. F!Slots(F!Contents', fat, e) = With(T0[d], i, slot) /\ NoneBehind(F!Slots(F!Contents', fat, e))
      BY <2>1, <1>1
    <3>2. Subs(F!Contents', fat, e) = SubdirsOf(F!Slots(F!Contents', fat, e))
      BY <1>0, <1>2, <3>1, SubsIs
    <3> QED BY <2>1, <3>1, <3>2, <1>2, <1>4
  <2>2. CASE e # d
    BY <2>2, <1>1, <1>2 DEF Subs
  <2> QED BY <2>1, <2>2
<1>6. ASSUME NEW x \in DOMAIN T0
      PROVE  /\ Below(F!Contents', fat, x) = Below(F!Contents, fat, x)
             /\ F!Tree(F!Contents', fat, x) = TreeOn(F!Contents', fat, Below(F!Contents, fat, x))
  <2>1. \A e \in Below(F!Contents, fat, x) : Subs(F!Contents', fat, e) = Subs(F!Contents, fat, e)
    <3>1. Below(F!Contents, fat, x) \subseteq DOMAIN T0
      BY <1>0, <1>2, BelowIs, BelowWithin
    <3> QED BY <3>1, <1>5
  <2> QED BY <2>1, <1>0, <1>2, <1>3, TreeKept
<1>7. T0' = TreeOn(F!Contents', fat, DOMAIN T0)
  <2>1. 0 \in DOMAIN T0
    BY <1>0 DEF TreeTyped
  <2> QED BY <2>1, <1>2, <1>6, PrimedTree
<1>8. T0' = TreeWith(T0, d, i, slot)
  <2>1. T0 = TreeOn(F!Contents, fat, DOMAIN T0)
    BY <1>0, <1>2, BelowIs
  <2>2. \A e \in DOMAIN T0 : F!Slots(F!Contents', fat, e) = TreeWith(T0, d, i, slot)[e]
    BY <1>1, <1>2, TreeWithIs
  <2>3. TreeWith(T0, d, i, slot) = [e \in DOMAIN T0 |-> TreeWith(T0, d, i, slot)[e]]
    BY <2>1 DEF TreeWith, TreeOn
  <2> QED BY <1>7, <2>2, <2>3 DEF TreeOn
<1>9. View(F!Contents', fat')
  <2>1. 0 \in DOMAIN T0 /\ Below(F!Contents', fat, 0) = DOMAIN T0
    BY <1>0, <1>2, <1>6 DEF TreeTyped
  <2> QED BY <2>1, <1>1, <1>5 DEF View
<1>10. TreeTyped(T0')
  <2>1. T0' = F!Tree(F!Contents', fat', 0)
    BY PrimedTree
  <2> QED BY <2>1, <1>0, <1>3, <1>9, ViewTree
<1> QED BY <1>6, <1>8, <1>9, <1>10

LEMMA StoredKeeps ==
  ASSUME F!DirectoryAssumption, IInv, program' = program, fat' = fat, fatOnDevice' = fatOnDevice,
         NEW d \in DOMAIN T0, NEW i \in DOMAIN T0[d],
         NEW slot \in SlotType, F!StoreEntry(d, i, slot), NoneBehind(With(T0[d], i, slot)),
         T0[d][i].kind # "subdir", slot.kind # "subdir", NEW U, U = TreeWith(T0, d, i, slot),
         DevXAt(pc, call) \subseteq DOMAIN T0 \cup DevXAt(pc', call'), SettlingAt(pc) => SettlingAt(pc'),
         file' \in Objects, call' \in Calls, \A k \in DOMAIN at' : at'[k] \in F!Index, kept' \subseteq F!Cluster,
         HeldP(U, fat, file', pc', call'), SetsP(U, pc', call'), FileIs(U, file'),
         PhaseOK(pc', U, Inside', file', call', F!Contents', fatOnDevice, fat, SectorAt(fat, d, i))
  PROVE  IInv'
<1>0. program \in FatPrograms /\ Good(fat) /\ Good(fatOnDevice) /\ Later(fatOnDevice, fat, SettlingAt(pc))
  BY Now
<1>1. T0' = U /\ View(F!Contents', fat')
  BY TreeStored
<1>2. VolumeNext /\ (device' = F!Contents \/ device' = device) /\ m_sector' = SectorAt(fat, d, i)
  BY EntryStored
<1>3. Later(fatOnDevice, fat, SettlingAt(pc'))
  BY <1>0, LaterSettling
<1>4. DOMAIN U = DOMAIN T0
  BY DEF TreeWith
<1>5. View(device', fatOnDevice') /\ Below(device', fatOnDevice', 0) \subseteq DOMAIN U \cup DevXAt(pc', call')
  <2> DEFINE S == DOMAIN T0 \cup DevXAt(pc', call')
  <2>1. DOMAIN T0 \subseteq S
    OBVIOUS
  <2> HIDE DEF S
  <2>2. device' = F!Contents \/ (device' = device /\ DevXAt(pc, call) \subseteq S)
    BY <1>2 DEF S
  <2>3. View(device', fatOnDevice') /\ Below(device', fatOnDevice', 0) \subseteq S
    BY <2>1, <2>2, DeviceKept
  <2> QED BY <2>3, <1>4 DEF S
<1> QED BY <1>0, <1>1, <1>2, <1>3, <1>5, IInvNext

-----------------------------------------------------------------------------
(* The parts of the invariant with one entry replaced. *)
LEMMA FreeTailLfn ==
  ASSUME NEW T, NEW d \in DOMAIN T, Indexed(T[d]), NEW i \in DOMAIN T[d], NEW slot, slot.kind = "lfn",
         NEW building, FreeTail(T, building)
  PROVE  FreeTail(TreeWith(T, d, i, slot), Plus(building, <<d, i>>))
<1> DEFINE U == TreeWith(T, d, i, slot)
<1>1. DOMAIN U = DOMAIN T /\ (\A e \in DOMAIN T : DOMAIN U[e] = DOMAIN T[e])
      /\ \A e \in DOMAIN T : \A j \in DOMAIN T[e] : U[e][j] = IF e = d /\ j = i THEN slot ELSE T[e][j]
  BY TreeWithIs
<1> HIDE DEF U
<1>2. ASSUME NEW e \in DOMAIN U, NEW j \in DOMAIN U[e], NEW k \in DOMAIN U[e], j < k, U[e][j].kind = "free"
      PROVE  U[e][k].kind = "free" \/ (<<e, k>> \in Plus(building, <<d, i>>) /\ U[e][k].kind = "lfn")
  <2>1. U[e][j] = T[e][j]
    BY <1>1, <1>2
  <2>2. CASE e = d /\ k = i
    BY <2>2, <1>1 DEF Plus
  <2>3. CASE ~(e = d /\ k = i)
    BY <2>1, <2>3, <1>1, <1>2 DEF FreeTail, Plus
  <2> QED BY <2>2, <2>3
<1> QED BY <1>2 DEF FreeTail, U

LEMMA FreeTailUsed ==
  ASSUME NEW T, NEW d \in DOMAIN T, Indexed(T[d]), NEW i \in DOMAIN T[d], NEW slot, slot.kind # "free",
         ClearBefore(T[d], i), NEW building, FreeTail(T, building), \A k \in building : k[1] = d /\ k[2] < i
  PROVE  FreeTail(TreeWith(T, d, i, slot), {})
<1> DEFINE U == TreeWith(T, d, i, slot)
<1>1. DOMAIN U = DOMAIN T /\ (\A e \in DOMAIN T : DOMAIN U[e] = DOMAIN T[e])
      /\ \A e \in DOMAIN T : \A j \in DOMAIN T[e] : U[e][j] = IF e = d /\ j = i THEN slot ELSE T[e][j]
  BY TreeWithIs
<1> HIDE DEF U
<1>2. ASSUME NEW e \in DOMAIN U, NEW j \in DOMAIN U[e], NEW k \in DOMAIN U[e], j < k, U[e][j].kind = "free"
      PROVE  U[e][k].kind = "free"
  <2>1. U[e][j] = T[e][j] /\ ~(e = d /\ j = i)
    BY <1>1, <1>2
  <2>2. T[e][k].kind = "free" \/ <<e, k>> \in building
    BY <2>1, <1>1, <1>2 DEF FreeTail
  <2>3. CASE e # d
    BY <2>2, <2>3, <1>1, <1>2
  <2>4. CASE e = d
    <3>0. i \in Nat /\ j \in Nat /\ k \in Nat
      BY <2>4, <1>1 DEF Indexed
    <3>1. ~(j < i) /\ j # i
      BY <2>1, <2>4, <1>1, <1>2 DEF ClearBefore
    <3>2. i < k
      BY <3>0, <3>1, <1>2
    <3>3. <<e, k>> \notin building
      BY <3>0, <3>2
    <3> QED BY <2>2, <3>0, <3>2, <3>3, <2>4, <1>1
  <2> QED BY <2>3, <2>4
<1> QED BY <1>2 DEF FreeTail, U

LEMMA DotKindsWith ==
  ASSUME NEW T, TreeTyped(T), NEW d \in DOMAIN T, NEW i \in DOMAIN T[d], NEW slot, T[d][i].kind \notin {"dot", "dotdot"},
         NEW raw, DotKinds(T, raw), NEW raw2, raw \subseteq raw2
  PROVE  DotKinds(TreeWith(T, d, i, slot), raw2)
<1> DEFINE U == TreeWith(T, d, i, slot)
<1>0. \A e \in DOMAIN T : Indexed(T[e]) /\ 0 \in DOMAIN T[e] /\ 1 \in DOMAIN T[e]
  BY DEF TreeTyped, DirSlots, Indexed
<1>1. DOMAIN U = DOMAIN T
      /\ \A e \in DOMAIN T : \A j \in DOMAIN T[e] : U[e][j] = IF e = d /\ j = i THEN slot ELSE T[e][j]
  BY <1>0, TreeWithIs
<1> HIDE DEF U
<1>2. ASSUME NEW e \in DOMAIN U, e # 0, e \notin raw2 PROVE U[e][0].kind = "dot" /\ U[e][1].kind = "dotdot"
  <2>1. T[e][0].kind = "dot" /\ T[e][1].kind = "dotdot"
    BY <1>1, <1>2 DEF DotKinds
  <2>2. U[e][0] = T[e][0] /\ U[e][1] = T[e][1]
    BY <1>0, <1>1, <1>2, <2>1
  <2> QED BY <2>1, <2>2
<1> QED BY <1>2 DEF DotKinds, U

LEMMA EntryIsWith ==
  ASSUME NEW T, NEW d \in DOMAIN T, Indexed(T[d]), NEW i \in DOMAIN T[d], NEW slot, NEW o, EntryIs(T, o),
         <<o.dir, o.index>> # <<d, i>>
  PROVE  EntryIs(TreeWith(T, d, i, slot), o) /\ TreeWith(T, d, i, slot)[o.dir][o.index] = T[o.dir][o.index]
BY TreeWithIs DEF EntryIs

LEMMA FileWith ==
  ASSUME NEW T, NEW d \in DOMAIN T, Indexed(T[d]), NEW i \in DOMAIN T[d], NEW slot, NEW o, FileIs(T, o),
         o.open => <<o.dir, o.index>> # <<d, i>>
  PROVE  FileIs(TreeWith(T, d, i, slot), o)
<1>1. CASE o = F!Closed
  BY <1>1 DEF FileIs
<1>2. CASE Object(T, o)
  BY <1>2, EntryIsWith DEF FileIs, Object, EntryIs
<1> QED BY <1>1, <1>2 DEF FileIs

LEMMA CreateWith ==
  ASSUME NEW T, NEW d \in DOMAIN T, Indexed(T[d]), NEW i \in DOMAIN T[d], NEW slot, NEW o, FileIs(T, o),
         o.open => <<o.dir, o.index>> # <<d, i>>, NEW c, NEW B, CreateOK(T, B, o, c), NEW B2, o.open /\ o.isDir => B2 = B
  PROVE  CreateOK(TreeWith(T, d, i, slot), B2, o, c)
<1> DEFINE U == TreeWith(T, d, i, slot)
<1>1. DOMAIN U = DOMAIN T
  BY DEF TreeWith
<1>2. ASSUME c.op = "rename" PROVE U[o.dir][o.index] = T[o.dir][o.index] /\ RenameOK(B2, o, c)
  <2>1. o.open /\ RenameOK(B, o, c)
    BY <1>2 DEF CreateOK, RenameOK
  <2>2. EntryIs(T, o)
    BY <2>1 DEF FileIs, Object, F!Closed
  <2> QED BY <2>1, <2>2, EntryIsWith DEF RenameOK
<1> HIDE DEF U
<1> QED BY <1>1, <1>2 DEF CreateOK, U

(* The holders of two trees that have something. *)
HoldersKept(T, o, gone, U, o2, gone2) ==
  \A k \in Entered(T) \ gone : EntryFirst(T, o, k) # 0 =>
    /\ k \in Entered(U) \ gone2 /\ EntryFirst(U, o2, k) = EntryFirst(T, o, k) /\ F!At(U, k).kind = F!At(T, k).kind

LEMMA HeldTrees ==
  ASSUME NEW l, NEW T, TreeTyped(T), NEW U, TreeTyped(U), NEW o, NEW o2, NEW gone, NEW gone2, NEW new,
         Held(l, Holding(T, o, gone, new), Singles(T, Holding(T, o, gone, new))),
         HoldersKept(T, o, gone, U, o2, gone2), HoldersKept(U, o2, gone2, T, o, gone)
  PROVE  Held(l, Holding(U, o2, gone2, new), Singles(U, Holding(U, o2, gone2, new)))
<1>1. PICK H : H = Holding(T, o, gone, new)
  OBVIOUS
<1>2. PICK H2 : H2 = Holding(U, o2, gone2, new)
  OBVIOUS
<1>3. PICK S : S = Singles(T, H)
  OBVIOUS
<1>4. PICK S2 : S2 = Singles(U, H2)
  OBVIOUS
<1>5. Held(l, H, S)
  BY <1>1, <1>3
<1>6. /\ RootKey \in DOMAIN H /\ H[RootKey] = rootDirStart /\ (new # 0 => NewKey \in DOMAIN H /\ H[NewKey] = new) /\ (new = 0 => NewKey \notin DOMAIN H)
      /\ \A k \in DOMAIN H : k = RootKey \/ (k = NewKey /\ new # 0) \/ (k \in Entered(T) /\ k \notin gone)
      /\ \A k \in Entered(T) : k \notin gone => k \in DOMAIN H /\ H[k] = EntryFirst(T, o, k)
      /\ \A k \in DOMAIN H : k \in S <=> k # RootKey /\ k # NewKey /\ F!At(T, k).kind = "file"
  BY <1>1, <1>3, HoldingIs
<1>7. /\ RootKey \in DOMAIN H2 /\ H2[RootKey] = rootDirStart /\ (new # 0 => NewKey \in DOMAIN H2 /\ H2[NewKey] = new) /\ (new = 0 => NewKey \notin DOMAIN H2)
      /\ \A k \in DOMAIN H2 : k = RootKey \/ (k = NewKey /\ new # 0) \/ (k \in Entered(U) /\ k \notin gone2)
      /\ \A k \in Entered(U) : k \notin gone2 => k \in DOMAIN H2 /\ H2[k] = EntryFirst(U, o2, k)
      /\ \A k \in DOMAIN H2 : k \in S2 <=> k # RootKey /\ k # NewKey /\ F!At(U, k).kind = "file"
  BY <1>2, <1>4, HoldingIs
<1>8. ASSUME NEW j \in DOMAIN H2, H2[j] # 0 PROVE j \in DOMAIN H /\ H[j] = H2[j] /\ (j \in S2 => j \in S)
  <2>1. CASE j = RootKey \/ j = NewKey
    BY <2>1, <1>6, <1>7
  <2>2. CASE j # RootKey /\ j # NewKey
    <3>1. j \in Entered(U) /\ j \notin gone2 /\ H2[j] = EntryFirst(U, o2, j)
      BY <2>2, <1>7
    <3>2. j \in Entered(T) /\ j \notin gone /\ EntryFirst(T, o, j) = EntryFirst(U, o2, j) /\ F!At(T, j).kind = F!At(U, j).kind
      BY <3>1, <1>8 DEF HoldersKept
    <3> QED BY <2>2, <3>1, <3>2, <1>6, <1>7
  <2> QED BY <2>1, <2>2
<1>9. ASSUME NEW k \in DOMAIN H, H[k] # 0 PROVE k \in DOMAIN H2 /\ H2[k] = H[k]
  <2>1. CASE k = RootKey \/ k = NewKey
    BY <2>1, <1>6, <1>7
  <2>2. CASE k # RootKey /\ k # NewKey
    <3>1. k \in Entered(T) /\ k \notin gone /\ H[k] = EntryFirst(T, o, k)
      BY <2>2, <1>6
    <3>2. k \in Entered(U) /\ k \notin gone2 /\ EntryFirst(U, o2, k) = EntryFirst(T, o, k)
      BY <3>1, <1>9 DEF HoldersKept
    <3> QED BY <3>1, <3>2, <1>7
  <2> QED BY <2>1, <2>2
<1>10. Held(l, H2, S2)
  BY <1>5, <1>8, <1>9, HeldSame
<1> QED BY <1>2, <1>4, <1>10

-----------------------------------------------------------------------------
LEMMA FileAway ==
  ASSUME NEW T, NEW o, FileIs(T, o), o.open, NEW d, NEW i, ~F!isFatFileOrSubdir(T[d][i])
  PROVE  <<o.dir, o.index>> # <<d, i>>
BY DEF FileIs, F!Closed, Object, EntryIs, F!isFatFileOrSubdir

LEMMA EnteredDrop ==
  ASSUME NEW T, NEW d \in DOMAIN T, Indexed(T[d]), NEW i \in DOMAIN T[d], NEW slot, ~F!isFatFileOrSubdir(slot)
  PROVE  /\ Entered(TreeWith(T, d, i, slot)) = Minus(Entered(T), <<d, i>>)
         /\ SameBut(T, TreeWith(T, d, i, slot), <<d, i>>)
BY EnteredWith

LEMMA EnteredAdd ==
  ASSUME NEW T, NEW d \in DOMAIN T, Indexed(T[d]), NEW i \in DOMAIN T[d], NEW slot, F!isFatFileOrSubdir(slot)
  PROVE  /\ Entered(TreeWith(T, d, i, slot)) = Plus(Entered(T), <<d, i>>)
         /\ SameBut(T, TreeWith(T, d, i, slot), <<d, i>>) /\ F!At(TreeWith(T, d, i, slot), <<d, i>>) = slot
BY EnteredWith

LEMMA HoldsUnused ==
  ASSUME NEW T, TreeTyped(T), NEW d \in DOMAIN T, NEW i \in DOMAIN T[d], NEW slot, NEW U, U = TreeWith(T, d, i, slot),
         TreeTyped(U), ~F!isFatFileOrSubdir(slot), ~F!isFatFileOrSubdir(T[d][i]), NEW o, NEW gone, NEW new, NEW l,
         Held(l, Holding(T, o, gone, new), Singles(T, Holding(T, o, gone, new)))
  PROVE  Held(l, Holding(U, o, gone, new), Singles(U, Holding(U, o, gone, new)))
<1>1. Indexed(T[d])
  BY DEF TreeTyped
<1>2. Entered(U) = Minus(Entered(T), <<d, i>>) /\ SameBut(T, U, <<d, i>>)
  BY <1>1, EnteredDrop
<1>3. <<d, i>> \notin Entered(T)
  BY EnteredIs DEF UsedOf, InUse
<1>4. HoldersKept(T, o, gone, U, o, gone) /\ HoldersKept(U, o, gone, T, o, gone)
  BY <1>2, <1>3 DEF HoldersKept, EntryFirst, Minus, SameBut
<1> QED BY <1>4, HeldTrees

LEMMA HeldUnused ==
  ASSUME NEW T, TreeTyped(T), NEW d \in DOMAIN T, NEW i \in DOMAIN T[d], NEW slot, NEW U, U = TreeWith(T, d, i, slot),
         TreeTyped(U), ~F!isFatFileOrSubdir(slot), ~F!isFatFileOrSubdir(T[d][i]), NEW o, NEW l, NEW step, NEW c,
         HeldP(T, l, o, step, c), NEW step2, NEW c2, GoneAt(step2, c2) = GoneAt(step, c), PendingAt(step2, c2) = PendingAt(step, c)
  PROVE  HeldP(U, l, o, step2, c2)
BY HoldsUnused DEF HeldP, HoldsP

(* What the directory that is open has below it. *)
LEMMA InsideStored ==
  ASSUME F!DirectoryAssumption, IInv, program' = program, fat' = fat, NEW d \in DOMAIN T0, NEW i \in DOMAIN T0[d],
         NEW slot \in SlotType, F!StoreEntry(d, i, slot), NoneBehind(With(T0[d], i, slot)),
         T0[d][i].kind # "subdir", slot.kind # "subdir", file'.first = file.first, file.open, file.isDir
  PROVE  Inside' = Inside
<1>1. file.first \in DOMAIN T0
  BY InsideWithin
<1>2. Below(F!Contents', fat', file.first) = Inside
  BY <1>1, TreeStored DEF Inside
<1> QED BY <1>2, PrimedInside

LEMMA FreeTailMore ==
  ASSUME NEW T, NEW B, FreeTail(T, B), NEW C, B \subseteq C
  PROVE  FreeTail(T, C)
BY DEF FreeTail

LEMMA LongTyped ==
  ASSUME F!DirectoryAssumption, program \in FatPrograms, NEW c \in Calls, F!Lost(c.name), c.sfn \in F!LongSfns, NEW order \in 1 .. LfnEntries
  PROVE  F!LongEntry(c.name, order, c.sfn) \in SlotType
<1>1. c.name \in LongNames /\ c.name \in Name /\ c.sfn \in Name /\ c.sfn \in F!LongSfns
  BY DEF F!Lost, Calls, Name
<1> QED BY <1>1, Setting DEF F!LongEntry, F!Slot, SlotType, Kinds, F!isFatFileOrSubdir

LEMMA RunLonger ==
  ASSUME NEW s, Indexed(s), NEW c, F!Lost(c.name), LfnEntries \in Nat, c.index \in Nat, NEW order \in 1 .. LfnEntries,
         Run(s, c, order - 1), c.index \in DOMAIN s, NEW slot, slot.kind = "lfn"
  PROVE  /\ c.index - order \in DOMAIN s /\ s[c.index - order].kind \in {"free", "deleted"}
         /\ Run(With(s, c.index - order, slot), c, order)
<1> DEFINE i == c.index - order
           w == With(s, i, slot)
<1>1. F!freeNeed(c.name) = 1 + LfnEntries
  BY DEF F!freeNeed
<1>2. c.index >= LfnEntries
  BY <1>1 DEF Run
<1>3. i \in DOMAIN s
  BY <1>2 DEF Indexed
<1>4. s[i].kind \in {"free", "deleted"}
  BY <1>1, <1>2, <1>3 DEF Run
<1>5. DOMAIN w = DOMAIN s /\ \A j \in DOMAIN s : w[j] = IF j = i THEN slot ELSE s[j]
  BY <1>3, WithIs
<1>6. \A j \in DOMAIN s : j \in Nat
  BY DEF Indexed
<1> HIDE DEF w
<1>7. ASSUME NEW j \in DOMAIN w
      PROVE  /\ j < c.index - LfnEntries => w[j].kind # "free"
             /\ j >= c.index - LfnEntries /\ j < c.index - order => w[j].kind \in {"free", "deleted"}
             /\ j >= c.index - order /\ j < c.index => w[j].kind = "lfn"
             /\ j = c.index => w[j].kind \in {"free", "deleted"}
  <2>1. j \in DOMAIN s /\ j \in Nat
    BY <1>5, <1>6
  <2>2. /\ j < c.index - LfnEntries => s[j].kind # "free"
        /\ j >= c.index - LfnEntries /\ j < c.index - (order - 1) => s[j].kind \in {"free", "deleted"}
        /\ j >= c.index - (order - 1) /\ j < c.index => s[j].kind = "lfn"
        /\ j = c.index => s[j].kind \in {"free", "deleted"}
    BY <1>1, <2>1 DEF Run
  <2>3. CASE j = i
    BY <2>1, <2>3, <1>5
  <2>4. CASE j # i
    BY <2>1, <2>2, <2>4, <1>5
  <2> QED BY <2>3, <2>4
<1>8. Run(w, c, order)
  BY <1>1, <1>2, <1>7 DEF Run
<1> QED BY <1>3, <1>4, <1>8 DEF w

LEMMA CreateLfnKeeps ==
  ASSUME F!DirectoryAssumption, IInv, F!createLFN
  PROVE  IInv'
<1>0. /\ program \in FatPrograms /\ call \in Calls /\ file \in Objects /\ SetsP(T0, pc, call) /\ FileIs(T0, file)
      /\ PhaseOK(pc, T0, Inside, file, call, F!Contents, fatOnDevice, fat, m_sector)
      /\ (\A k \in DOMAIN at : at[k] \in F!Index) /\ kept \subseteq F!Cluster /\ HeldP(T0, fat, file, pc, call)
      /\ TreeTyped(T0)
  BY Now
<1>s. LfnEntries \in Nat \ {0}
  BY <1>0, Setting
<1> DEFINE d == call.dir
           i == call.index - call.order
           slot == F!LongEntry(call.name, call.order, call.sfn)
           U == TreeWith(T0, d, i, slot)
           call2 == IF call.order = LfnEntries THEN call ELSE [call EXCEPT !.order = @ + 1]
           pc2 == IF call.order = LfnEntries THEN "sfn" ELSE "lfn"
<1>1. /\ program' = program /\ fat' = fat /\ fatOnDevice' = fatOnDevice /\ file' = file /\ at' = at /\ kept' = kept
      /\ pc = "lfn" /\ F!StoreEntry(d, i, slot) /\ pc' = pc2 /\ call' = call2
  BY DEF F!createLFN, F!history, F!Goes
<1>2. /\ CreateOK(T0, Inside, file, call) /\ Run(T0[d], call, call.order - 1) /\ call.index \in DOMAIN T0[d]
      /\ F!Lost(call.name) /\ call.sfn \in F!LongSfns /\ call.order \in 1 .. LfnEntries
  BY <1>0, <1>1, PhaseIs DEF LfnOK, NewOK
<1>3. d \in DOMAIN T0 /\ Indexed(T0[d]) /\ NoneBehind(T0[d]) /\ call.index \in Nat
  BY <1>0, <1>2 DEF CreateOK, TreeTyped, Calls
<1>4. slot \in SlotType /\ slot.kind = "lfn"
  BY <1>0, <1>2, LongTyped DEF F!LongEntry, F!Slot
<1>5. i \in DOMAIN T0[d] /\ T0[d][i].kind \in {"free", "deleted"} /\ Run(With(T0[d], i, slot), call, call.order)
  BY <1>2, <1>3, <1>4, <1>s, RunLonger
<1> HIDE DEF d, i, slot, U, call2, pc2
<1>6. NoneBehind(With(T0[d], i, slot))
  BY <1>3, <1>4, <1>5, NoneBehindWith
<1>7. /\ T0[d][i].kind # "subdir" /\ slot.kind # "subdir" /\ ~F!isFatFileOrSubdir(T0[d][i]) /\ ~F!isFatFileOrSubdir(slot)
      /\ T0[d][i].kind \notin {"dot", "dotdot"}
  BY <1>4, <1>5 DEF F!isFatFileOrSubdir
<1>8. TreeTyped(U) /\ U[d] = With(T0[d], i, slot) /\ DOMAIN U[d] = DOMAIN T0[d]
  BY <1>1, <1>3, <1>4, <1>5, <1>6, <1>7, TreeStored, TreeWithIs DEF U
<1>9. pc \in PlainSteps /\ pc' \in PlainSteps
  BY <1>1 DEF PlainSteps, pc2
<1>10. call' \in Calls /\ call'.dir = call.dir /\ call'.name = call.name /\ call'.op = call.op /\ call'.saved = call.saved
       /\ call'.index = call.index /\ call'.sfn = call.sfn
  BY <1>0, <1>1 DEF call2, Calls
<1>11. HeldP(U, fat, file', pc', call')
  <2>1. GoneAt(pc', call') = GoneAt(pc, call) /\ PendingAt(pc', call') = PendingAt(pc, call)
    BY <1>9, PlainStep
  <2> QED BY <2>1, <1>0, <1>1, <1>3, <1>5, <1>7, <1>8, HeldUnused DEF U
<1>12. file.open => <<file.dir, file.index>> # <<d, i>>
  BY <1>0, <1>7, FileAway
<1>13. FileIs(U, file')
  BY <1>0, <1>1, <1>3, <1>5, <1>12, FileWith DEF U
<1>14. SetsP(U, pc', call')
  <2>1. FreeTail(T0, Building(pc, call)) /\ DotKinds(T0, {})
    BY <1>0, <1>9, PlainStep DEF SetsP
  <2>2. FreeTail(U, Plus(Building(pc, call), <<d, i>>))
    BY <2>1, <1>3, <1>4, <1>5, FreeTailLfn DEF U
  <2>3. Plus(Building(pc, call), <<d, i>>) \subseteq Building(pc', call')
    <3>1. Written(pc, call) = call.order - 1
      BY <1>1, <1>2 DEF Written
    <3>2. Written(pc', call') = call.order
      BY <1>1, <1>2, <1>0 DEF Written, pc2, call2, Calls
    <3>3. Building(pc, call) = {<<d, call.index - k>> : k \in 1 .. call.order - 1}
      BY <3>1 DEF Building, d
    <3>4. Building(pc', call') = {<<d, call.index - k>> : k \in 1 .. call.order}
      BY <3>2, <1>10 DEF Building, d
    <3>5. <<d, i>> \in Building(pc', call')
      BY <3>4, <1>2, <1>s DEF i
    <3>6. Building(pc, call) \subseteq Building(pc', call')
      BY <3>3, <3>4, <1>2, <1>s
    <3> QED BY <3>5, <3>6 DEF Plus
  <2>4. FreeTail(U, Building(pc', call'))
    BY <2>2, <2>3, FreeTailMore
  <2>5. DotKinds(U, RawAt(pc', call'))
    BY <2>1, <1>0, <1>3, <1>5, <1>7, DotKindsWith DEF U
  <2> QED BY <2>4, <2>5 DEF SetsP
<1>15. CreateOK(U, Inside', file', call')
  <2>1. file.open /\ file.isDir => Inside' = Inside
    BY <1>1, <1>3, <1>4, <1>5, <1>6, <1>7, InsideStored
  <2>2. CreateOK(U, Inside', file, call)
    BY <2>1, <1>0, <1>2, <1>3, <1>5, <1>12, CreateWith DEF U
  <2> QED BY <2>2, <1>1, <1>10, CreateSame
<1>16. PhaseOK(pc', U, Inside', file', call', F!Contents', fatOnDevice, fat, SectorAt(fat, d, i))
  <2>1. Run(U[call'.dir], call', call.order) /\ call'.index \in DOMAIN U[call'.dir] /\ F!Lost(call'.name)
    BY <1>2, <1>5, <1>8, <1>10, RunSame DEF d
  <2>2. CASE call.order = LfnEntries
    <3>1. pc' = "sfn" /\ call' = call /\ Written("sfn", call') = call.order
      BY <2>1, <2>2, <1>1 DEF pc2, call2, Written
    <3>2. SfnOK(U, Inside', file', call')
      BY <3>1, <2>1, <1>15 DEF SfnOK, NewOK
    <3> QED BY <3>1, <3>2, PhaseIs
  <2>3. CASE call.order # LfnEntries
    <3>1. pc' = "lfn" /\ call'.order = call.order + 1
      BY <2>3, <1>1, <1>0 DEF pc2, call2, Calls
    <3>2. call'.order \in 1 .. LfnEntries /\ call'.order - 1 = call.order
      BY <3>1, <2>3, <1>2, <1>s
    <3>3. LfnOK(U, Inside', file', call')
      BY <3>2, <2>1, <1>2, <1>10, <1>15 DEF LfnOK, NewOK
    <3> QED BY <3>1, <3>3, PhaseIs
  <2> QED BY <2>2, <2>3
<1>17. DevXAt(pc, call) \subseteq DOMAIN T0 \cup DevXAt(pc', call') /\ (SettlingAt(pc) => SettlingAt(pc'))
  BY <1>9, PlainStep
<1> QED BY <1>0, <1>1, <1>3, <1>4, <1>5, <1>6, <1>7, <1>10, <1>11, <1>13, <1>14, <1>16, <1>17, StoredKeeps DEF U

-----------------------------------------------------------------------------
(* An entry that holds nothing is added. *)
FreshHolds(T, o, U, o2, x) ==
  EntryFirst(U, o2, x) = 0 /\ \A k \in Entered(T) : EntryFirst(U, o2, k) = EntryFirst(T, o, k)
LEMMA HeldFresh ==
  ASSUME NEW T, TreeTyped(T), NEW d \in DOMAIN T, NEW i \in DOMAIN T[d], NEW slot, NEW U, U = TreeWith(T, d, i, slot),
         TreeTyped(U), F!isFatFileOrSubdir(slot), ~F!isFatFileOrSubdir(T[d][i]), NEW o, NEW o2, FreshHolds(T, o, U, o2, <<d, i>>),
         NEW l, NEW step, NEW c,
         HeldP(T, l, o, step, c), NEW step2, NEW c2, GoneAt(step, c) = {}, GoneAt(step2, c2) = {},
         PendingAt(step2, c2) = PendingAt(step, c)
  PROVE  HeldP(U, l, o2, step2, c2)
<1>1. Indexed(T[d])
  BY DEF TreeTyped
<1>2. Entered(U) = Plus(Entered(T), <<d, i>>) /\ SameBut(T, U, <<d, i>>)
  BY <1>1, EnteredAdd
<1>3. <<d, i>> \notin Entered(T)
  BY EnteredIs DEF UsedOf, InUse
<1>4. HoldersKept(T, o, {}, U, o2, {}) /\ HoldersKept(U, o2, {}, T, o, {})
  BY <1>2, <1>3 DEF HoldersKept, FreshHolds, Plus, SameBut
<1> QED BY <1>4, HeldTrees DEF HeldP, HoldsP

LEMMA RunDone ==
  ASSUME F!DirectoryAssumption, program \in FatPrograms, NEW s, Indexed(s), NEW c, c.index \in DOMAIN s,
         Run(s, c, Written("sfn", c))
  PROVE  ClearBefore(s, c.index) /\ s[c.index].kind \in {"free", "deleted"} /\ c.index >= F!freeNeed(c.name) - 1
<1>0. LfnEntries \in Nat \ {0}
  BY Setting
<1>1. Written("sfn", c) = F!freeNeed(c.name) - 1 /\ Written("sfn", c) \in Nat
  BY <1>0 DEF Written, F!freeNeed
<1>2. \A j \in DOMAIN s : j \in Nat
  BY DEF Indexed
<1>3. ASSUME NEW j \in DOMAIN s, j < c.index PROVE s[j].kind # "free"
  <2>1. c.index \in Nat /\ j \in Nat
    BY <1>2
  <2>2. CASE j < c.index - (F!freeNeed(c.name) - 1)
    BY <2>2 DEF Run
  <2>3. CASE ~(j < c.index - (F!freeNeed(c.name) - 1))
    <3>1. j >= c.index - Written("sfn", c)
      BY <2>1, <2>3, <1>1
    <3>2. s[j].kind = "lfn"
      BY <3>1, <1>3 DEF Run
    <3> QED BY <3>2
  <2> QED BY <2>2, <2>3
<1>4. s[c.index].kind \in {"free", "deleted"} /\ c.index >= F!freeNeed(c.name) - 1
  BY DEF Run
<1> QED BY <1>3, <1>4 DEF ClearBefore

(* openCachedEntry() of a new file. *)
LEMMA OpenNew ==
  ASSUME F!DirectoryAssumption, program \in FatPrograms, NEW d \in F!Cluster \cup {0}, NEW i \in Nat, NEW ord \in Nat,
         NEW name \in Name, NEW mode \in {"write", "trunc"}, NEW slot, slot.kind = "file", slot.first = 0,
         F!openCachedEntry(d, i, ord, name, mode, slot)
  PROVE  /\ fat' = fat /\ kept' \subseteq kept /\ file' \in Objects
         /\ file'.open /\ ~file'.isDir /\ file'.dir = d /\ file'.index = i /\ file'.lfnOrd = ord /\ file'.first = 0
<1>1. F!FreeChain(0) = fat
  BY DEF F!FreeChain
<1>2. file' = [open |-> TRUE, isDir |-> FALSE, write |-> TRUE, dirty |-> mode = "trunc", name |-> name, dir |-> d, index |-> i,
               lfnOrd |-> ord, first |-> 0]
  BY DEF F!openCachedEntry
<1>3. file' \in Objects
  BY <1>2 DEF Objects
<1>4. fat' = fat /\ kept' \subseteq kept
  BY <1>1 DEF F!openCachedEntry
<1> QED BY <1>2, <1>3, <1>4

LEMMA CreateSfnKeeps ==
  ASSUME F!DirectoryAssumption, IInv, F!createSFN
  PROVE  IInv'
<1>0. /\ program \in FatPrograms /\ call \in Calls /\ file \in Objects /\ SetsP(T0, pc, call) /\ FileIs(T0, file)
      /\ PhaseOK(pc, T0, Inside, file, call, F!Contents, fatOnDevice, fat, m_sector)
      /\ (\A k \in DOMAIN at : at[k] \in F!Index) /\ kept \subseteq F!Cluster /\ HeldP(T0, fat, file, pc, call)
      /\ TreeTyped(T0)
  BY Now
<1>s. LfnEntries \in Nat \ {0}
  BY <1>0, Setting
<1> DEFINE d == call.dir
           i == call.index
           slot == F!ShortEntry("file", call.sfn, 0)
           U == TreeWith(T0, d, i, slot)
<1>1. /\ program' = program /\ fatOnDevice' = fatOnDevice
      /\ pc = "sfn" /\ F!StoreEntry(d, i, slot) /\ at' = F!WithName(d, call.name, i)
  BY DEF F!createSFN
<1>2. /\ CreateOK(T0, Inside, file, call) /\ Run(T0[d], call, Written("sfn", call)) /\ i \in DOMAIN T0[d]
  BY <1>0, <1>1, PhaseIs DEF SfnOK, NewOK
<1>3. d \in DOMAIN T0 /\ Indexed(T0[d]) /\ NoneBehind(T0[d]) /\ i \in Nat /\ d \in F!Cluster \cup {0}
  BY <1>0, <1>2 DEF CreateOK, TreeTyped, Calls
<1>4. slot \in SlotType /\ slot.kind = "file" /\ slot.first = 0
  <2>1. call.sfn \in ShortNames \cup F!LongSfns /\ call.sfn \in Name /\ Basis \in Name /\ 0 \in 0 .. LfnEntries
    BY <1>0, Setting DEF Calls, Name
  <2> QED BY <2>1 DEF F!ShortEntry, F!Slot, SlotType, Kinds, F!isFatFileOrSubdir
<1>5. ClearBefore(T0[d], i) /\ T0[d][i].kind \in {"free", "deleted"} /\ i >= F!freeNeed(call.name) - 1
  BY <1>0, <1>2, <1>3, RunDone
<1> HIDE DEF d, i, slot, U
<1>6. NoneBehind(With(T0[d], i, slot))
  BY <1>2, <1>3, <1>4, <1>5, NoneBehindWith
<1>7. /\ T0[d][i].kind # "subdir" /\ slot.kind # "subdir" /\ ~F!isFatFileOrSubdir(T0[d][i]) /\ F!isFatFileOrSubdir(slot)
      /\ T0[d][i].kind \notin {"dot", "dotdot"} /\ slot.kind # "free"
  BY <1>4, <1>5 DEF F!isFatFileOrSubdir
<1>8. CASE fat' = fat
  <2>1. TreeTyped(U) /\ U[d] = With(T0[d], i, slot) /\ DOMAIN U[d] = DOMAIN T0[d] /\ DOMAIN U = DOMAIN T0 /\ U[d][i] = slot
    BY <1>1, <1>2, <1>3, <1>4, <1>6, <1>7, <1>8, TreeStored, TreeWithIs DEF U
  <2>2. \A k \in DOMAIN at' : at'[k] \in F!Index
    <3>1. i \in F!Index
      BY <1>2, <1>3, SizeNow
    <3> QED BY <3>1, <1>0, <1>1 DEF F!WithName
  <2>3. file.open => <<file.dir, file.index>> # <<d, i>>
    BY <1>0, <1>7, FileAway
  <2>4. FreeTail(U, {}) /\ DotKinds(U, {})
    <3>1. FreeTail(T0, Building(pc, call)) /\ DotKinds(T0, {})
      <4>1. pc \in PlainSteps
        BY <1>1 DEF PlainSteps
      <4> QED BY <4>1, <1>0, PlainStep DEF SetsP
    <3>2. \A k \in Building(pc, call) : k[1] = d /\ k[2] < i
      <4>1. Written(pc, call) \in Nat
        BY <1>1, <1>s DEF Written
      <4> QED BY <4>1, <1>3 DEF Building, d, i
    <3> QED BY <3>1, <3>2, <1>0, <1>2, <1>3, <1>5, <1>7, FreeTailUsed, DotKindsWith DEF U
  <2>5. DevXAt(pc, call) = {} /\ ~SettlingAt(pc) /\ GoneAt(pc, call) = {} /\ PendingAt(pc, call) = 0
    <3>1. pc \in PlainSteps
      BY <1>1 DEF PlainSteps
    <3> QED BY <3>1, PlainStep
  <2>6. ASSUME NEW o \in Objects, file' = o, kept' \subseteq F!Cluster, NEW step \in PlainSteps, step \notin PairSteps, NEW c \in Calls,
               pc' = step, call' = c, FileIs(U, o), FreshHolds(T0, file, U, o, <<d, i>>),
               PhaseOK(step, U, Inside', o, c, F!Contents', fatOnDevice, fat, SectorAt(fat, d, i))
        PROVE  IInv'
    <3>1. GoneAt(step, c) = {} /\ PendingAt(step, c) = 0 /\ RawAt(step, c) = {} /\ Building(step, c) = {}
      BY <2>6, PlainStep
    <3>2. HeldP(U, fat, o, step, c)
      BY <3>1, <2>1, <2>5, <2>6, <1>0, <1>2, <1>3, <1>7, HeldFresh DEF U
    <3>3. SetsP(U, step, c)
      BY <3>1, <2>4 DEF SetsP
    <3> QED BY <3>2, <3>3, <1>1, <1>2, <1>3, <1>4, <1>6, <1>7, <1>8, <2>2, <2>5, <2>6, StoredKeeps DEF U
  <2>7. CASE F!Goes("newdir", call) \/ F!Goes("copy", call)
    <3>1. ~(call.op \in F!Modes) /\ file' = file /\ kept' = kept /\ call' = call
          /\ \/ pc' = "newdir" /\ CreatesDir(file, call)
             \/ pc' = "copy" /\ call.op = "rename" /\ ~file.isDir
      <4>1. CASE call.op = "mkdir" \/ (call.op = "rename" /\ file.isDir)
        <5>1. F!Goes("newdir", call) /\ UNCHANGED <<file, fat, kept>>
          BY <4>1 DEF F!createSFN
        <5> QED BY <4>1, <5>1 DEF F!Goes, F!Modes, CreatesDir
      <4>2. CASE call.op = "rename" /\ ~file.isDir
        <5>1. F!Goes("copy", call) /\ UNCHANGED <<file, fat, kept>>
          BY <4>2 DEF F!createSFN
        <5> QED BY <4>2, <5>1 DEF F!Goes, F!Modes
      <4>3. CASE ~(call.op = "mkdir" \/ call.op = "rename")
        <5>1. F!Ends
          BY <4>3 DEF F!createSFN
        <5> QED BY <5>1, <2>7 DEF F!Ends, F!Goes
      <4> QED BY <4>1, <4>2, <4>3
    <3>2. file.open /\ file.isDir => Inside' = Inside
      BY <3>1, <1>1, <1>2, <1>3, <1>4, <1>6, <1>7, <1>8, InsideStored
    <3>3. CreateOK(U, Inside', file, call)
      BY <3>2, <1>0, <1>2, <1>3, <2>3, CreateWith DEF U
    <3>4. MadeIs(U, file, call, "file", 0)
      BY <2>3, <2>1, <1>2, <1>4, <1>5 DEF MadeIs, d, i
    <3>5. PhaseOK(pc', U, Inside', file, call, F!Contents', fatOnDevice, fat, SectorAt(fat, d, i))
      <4>1. CASE pc' = "newdir" /\ CreatesDir(file, call)
        BY <4>1, <3>3, <3>4, PhaseIs DEF NewdirOK
      <4>2. CASE pc' = "copy" /\ call.op = "rename" /\ ~file.isDir
        BY <4>2, <3>3, <3>4, PhaseIs DEF CopyOK
      <4> QED BY <3>1, <4>1, <4>2
    <3>6. FreshHolds(T0, file, U, file, <<d, i>>)
      <4>1. F!At(U, <<d, i>>).first = 0
        BY <2>1, <1>4 DEF F!At
      <4>2. SameBut(T0, U, <<d, i>>) /\ <<d, i>> \notin Entered(T0)
        BY <1>2, <1>3, <1>7, EnteredAdd, EnteredIs DEF U, UsedOf, InUse
      <4> QED BY <4>1, <4>2, <2>3 DEF FreshHolds, EntryFirst, SameBut
    <3>7. FileIs(U, file)
      BY <1>0, <1>2, <1>3, <2>3, FileWith DEF U
    <3>8. pc' \in PlainSteps /\ pc' \notin PairSteps
      BY <3>1 DEF PlainSteps, PairSteps
    <3> QED BY <3>1, <3>5, <3>6, <3>7, <3>8, <1>0, <2>6
  <2>8. CASE call.op \in {"write", "trunc"}
    <3>1. F!openCachedEntry(d, i, F!freeNeed(call.name) - 1, call.name, call.op, slot) /\ pc' = "idle" /\ call' = F!NoCall
      BY <2>8 DEF F!createSFN, F!Ends, d, i, slot
    <3>2. F!freeNeed(call.name) - 1 \in Nat /\ F!freeNeed(call.name) - 1 \in {0, LfnEntries} /\ call.name \in Name
      BY <1>s, <1>0 DEF F!freeNeed, Calls
    <3>3. /\ kept' \subseteq kept /\ file' \in Objects
          /\ file'.open /\ ~file'.isDir /\ file'.dir = d /\ file'.index = i /\ file'.lfnOrd = F!freeNeed(call.name) - 1 /\ file'.first = 0
      <4>1. PICK ord \in Nat : ord = F!freeNeed(call.name) - 1
        BY <3>2
      <4>2. F!openCachedEntry(d, i, ord, call.name, call.op, slot)
        BY <3>1, <4>1
      <4>3. /\ kept' \subseteq kept /\ file' \in Objects
            /\ file'.open /\ ~file'.isDir /\ file'.dir = d /\ file'.index = i /\ file'.lfnOrd = ord /\ file'.first = 0
        BY <3>2, <4>2, <2>8, <1>0, <1>3, <1>4, OpenNew
      <4> QED BY <4>1, <4>3
    <3>4. ~file.open
      BY <1>2, <2>8 DEF CreateOK, F!Modes
    <3>5. FileIs(U, file')
      <4>1. EntryIs(U, file') /\ U[file'.dir][file'.index].first = file'.first
        BY <3>3, <2>1, <1>2, <1>3, <1>4 DEF EntryIs
      <4>2. LfnOrdOK(file')
        BY <3>3, <3>2, <1>5 DEF LfnOrdOK
      <4> QED BY <4>1, <4>2, <3>3 DEF FileIs, Object
    <3>6. FreshHolds(T0, file, U, file', <<d, i>>)
      <4>1. EntryFirst(U, file', <<d, i>>) = 0
        BY <3>3 DEF EntryFirst
      <4>2. SameBut(T0, U, <<d, i>>) /\ <<d, i>> \notin Entered(T0)
        BY <1>2, <1>3, <1>7, EnteredAdd, EnteredIs DEF U, UsedOf, InUse
      <4> QED BY <4>1, <4>2, <3>3, <3>4 DEF FreshHolds, EntryFirst, SameBut
    <3>7. PhaseOK(pc', U, Inside', file', call', F!Contents', fatOnDevice, fat, SectorAt(fat, d, i))
      BY <3>1, PhaseIs
    <3>8. pc' \in PlainSteps /\ pc' \notin PairSteps /\ F!NoCall \in Calls
      BY <3>1, <1>0, TypedConstants DEF PlainSteps, PairSteps
    <3> QED BY <3>1, <3>3, <3>5, <3>6, <3>7, <3>8, <1>0, <2>6
  <2>9. call.op \in {"write", "trunc"} \/ F!Goes("newdir", call) \/ F!Goes("copy", call)
    <3>1. call.op \in {"write", "trunc", "mkdir", "rename"}
      BY <1>2 DEF CreateOK
    <3>2. call.op = "mkdir" \/ (call.op = "rename" /\ file.isDir) => F!Goes("newdir", call)
      BY DEF F!createSFN
    <3>3. call.op = "rename" /\ ~file.isDir => F!Goes("copy", call)
      BY DEF F!createSFN
    <3> QED BY <3>1, <3>2, <3>3
  <2> QED BY <2>7, <2>8, <2>9
<1>9. fat' = fat
  <2>1. CASE call.op \in {"write", "trunc"}
    <3>1. F!openCachedEntry(d, i, F!freeNeed(call.name) - 1, call.name, call.op, slot)
      BY <2>1 DEF F!createSFN, d, i, slot
    <3>2. F!freeNeed(call.name) - 1 \in Nat /\ call.name \in Name
      BY <1>s, <1>0 DEF F!freeNeed, Calls
    <3> QED BY <3>1, <3>2, <2>1, <1>0, <1>3, <1>4, OpenNew
  <2>2. CASE call.op \notin {"write", "trunc"}
    <3>1. call.op \in {"write", "trunc", "mkdir", "rename"}
      BY <1>2 DEF CreateOK
    <3>2. call.op = "mkdir" \/ (call.op = "rename" /\ file.isDir) => UNCHANGED <<file, fat, kept>>
      BY DEF F!createSFN
    <3>3. call.op = "rename" /\ ~file.isDir => UNCHANGED <<file, fat, kept>>
      BY DEF F!createSFN
    <3> QED BY <2>2, <3>1, <3>2, <3>3
  <2> QED BY <2>1, <2>2
<1> QED BY <1>8, <1>9

-----------------------------------------------------------------------------
LEMMA SyncEntryKeeps ==
  ASSUME F!DirectoryAssumption, IInv, F!syncEntry
  PROVE  IInv'
<1>0. /\ program \in FatPrograms /\ call \in Calls /\ file \in Objects /\ SetsP(T0, pc, call) /\ FileIs(T0, file)
      /\ PhaseOK(pc, T0, Inside, file, call, F!Contents, fatOnDevice, fat, m_sector)
      /\ (\A k \in DOMAIN at : at[k] \in F!Index) /\ kept \subseteq F!Cluster /\ HeldP(T0, fat, file, pc, call)
      /\ TreeTyped(T0)
  BY Now
<1> DEFINE d == file.dir
           i == file.index
           slot == [F!Entry(d, i) EXCEPT !.first = file.first]
           U == TreeWith(T0, d, i, slot)
<1>1. /\ program' = program /\ fatOnDevice' = fatOnDevice /\ fat' = fat /\ call' = call /\ at' = at /\ kept' = kept
      /\ pc = "entry" /\ F!StoreEntry(d, i, slot) /\ file' = [file EXCEPT !.dirty = FALSE] /\ pc' = "data"
  BY DEF F!syncEntry, F!history
<1>2. SyncOK(T0, Inside, file, call) /\ file.dirty /\ file.open
  BY <1>0, <1>1, PhaseIs DEF SyncOK
<1>3. Object(T0, file) /\ ~file.isDir
  BY <1>0, <1>2 DEF FileIs, F!Closed, Object
<1>4. d \in DOMAIN T0 /\ i \in DOMAIN T0[d] /\ T0[d][i].kind = "file" /\ Indexed(T0[d]) /\ NoneBehind(T0[d])
  BY <1>0, <1>3 DEF Object, EntryIs, TreeTyped
<1>5. slot = [T0[d][i] EXCEPT !.first = file.first] /\ T0[d][i] \in SlotType
  BY <1>4, SizeNow
<1>6. slot \in SlotType /\ slot.kind = "file" /\ slot.first = file.first
  BY <1>4, <1>5, <1>0 DEF SlotType, Objects, F!isFatFileOrSubdir
<1>7. file' \in Objects /\ ~file'.dirty /\ file'.open = file.open /\ file'.isDir = file.isDir /\ file'.dir = d /\ file'.index = i
      /\ file'.first = file.first /\ file'.lfnOrd = file.lfnOrd
  BY <1>0, <1>1 DEF Objects
<1> HIDE DEF d, i, slot, U
<1>8. ClearBefore(T0[d], i)
  BY <1>4, UsedClear
<1>9. NoneBehind(With(T0[d], i, slot))
  BY <1>4, <1>6, <1>8, NoneBehindWith
<1>10. TreeTyped(U) /\ U[d][i] = slot /\ DOMAIN U = DOMAIN T0 /\ DOMAIN U[d] = DOMAIN T0[d]
  BY <1>1, <1>4, <1>6, <1>9, TreeStored, TreeWithIs DEF U
<1>11. GoneAt(pc, call) = {} /\ PendingAt(pc, call) = 0 /\ DevXAt(pc, call) = {} /\ GoneAt(pc', call') = {} /\ PendingAt(pc', call') = 0
       /\ SettlingAt(pc') /\ RawAt(pc, call) = {} /\ RawAt(pc', call') = {} /\ Building(pc, call) = {} /\ Building(pc', call') = {}
  BY <1>1, <1>2, BuildingNone DEF GoneAt, PendingAt, DevXAt, SettlingAt, RawAt, PhaseOf, SyncOK
<1>12. HeldP(U, fat, file', pc', call')
  <2>1. Entered(U) = Plus(Entered(T0), <<d, i>>) /\ SameBut(T0, U, <<d, i>>)
    BY <1>4, <1>6, EnteredAdd DEF U, F!isFatFileOrSubdir
  <2>2. <<d, i>> \in Entered(T0)
    BY <1>4, EnteredIs DEF UsedOf, InUse, F!isFatFileOrSubdir
  <2>3. F!At(U, <<d, i>>).kind = F!At(T0, <<d, i>>).kind
    BY <1>4, <1>6, <1>10 DEF F!At
  <2>4. \A k \in Entered(T0) : EntryFirst(U, file', k) = EntryFirst(T0, file, k) /\ F!At(U, k).kind = F!At(T0, k).kind
    <3> SUFFICES ASSUME NEW k \in Entered(T0)
                 PROVE  EntryFirst(U, file', k) = EntryFirst(T0, file, k) /\ F!At(U, k).kind = F!At(T0, k).kind
      OBVIOUS
    <3>1. <<file.dir, file.index>> = <<d, i>> /\ <<file'.dir, file'.index>> = <<d, i>>
      BY <1>7 DEF d, i
    <3>2. CASE k = <<d, i>>
      BY <3>1, <3>2, <2>3, <1>2, <1>7 DEF EntryFirst
    <3>3. CASE k # <<d, i>>
      BY <3>1, <3>3, <2>1 DEF EntryFirst, SameBut
    <3> QED BY <3>2, <3>3
  <2>5. HoldersKept(T0, file, {}, U, file', {}) /\ HoldersKept(U, file', {}, T0, file, {})
    BY <2>1, <2>2, <2>4 DEF HoldersKept, Plus
  <2> QED BY <2>5, <1>0, <1>10, <1>11, HeldTrees DEF HeldP, HoldsP
<1>13. SetsP(U, pc', call')
  <2>1. FreeTail(T0, {}) /\ DotKinds(T0, {})
    BY <1>0, <1>11 DEF SetsP
  <2>2. FreeTail(U, {}) /\ DotKinds(U, {})
    BY <2>1, <1>0, <1>4, <1>6, <1>8, FreeTailUsed, DotKindsWith DEF U
  <2> QED BY <2>2, <1>11 DEF SetsP
<1>14. FileIs(U, file')
  <2>1. EntryIs(U, file')
    BY <1>2, <1>3, <1>4, <1>6, <1>7, <1>10 DEF EntryIs
  <2>2. LfnOrdOK(file')
    BY <1>3, <1>7 DEF Object, LfnOrdOK, i
  <2>3. U[file'.dir][file'.index].first = file'.first
    BY <1>6, <1>7, <1>10
  <2> QED BY <2>1, <2>2, <2>3, <1>3, <1>7 DEF FileIs, Object
<1>15. PhaseOK(pc', U, Inside', file', call', F!Contents', fatOnDevice, fat, SectorAt(fat, d, i))
  <2>1. SyncOK(U, Inside', file', call')
    BY <1>1, <1>2, <1>3, <1>7, <1>10 DEF SyncOK, RenameOK
  <2> QED BY <2>1, <1>1, <1>7, PhaseSync DEF SyncGoal
<1> QED BY <1>0, <1>1, <1>4, <1>6, <1>7, <1>9, <1>11, <1>12, <1>13, <1>14, <1>15, StoredKeeps DEF U

-----------------------------------------------------------------------------
(* The deleted entries of a long name, and the short entry of a file. *)
LEMMA DeleteLfnKeeps ==
  ASSUME F!DirectoryAssumption, IInv, F!deleteLFN
  PROVE  IInv'
<1>0. /\ program \in FatPrograms /\ call \in Calls /\ file \in Objects /\ SetsP(T0, pc, call) /\ FileIs(T0, file)
      /\ PhaseOK(pc, T0, Inside, file, call, F!Contents, fatOnDevice, fat, m_sector)
      /\ (\A k \in DOMAIN at : at[k] \in F!Index) /\ kept \subseteq F!Cluster /\ HeldP(T0, fat, file, pc, call)
      /\ TreeTyped(T0)
  BY Now
<1>s. LfnEntries \in Nat \ {0}
  BY <1>0, Setting
<1> DEFINE d == call.old.dir
           i == call.old.index - call.order
           U == TreeWith(T0, d, i, F!Deleted)
<1>1. /\ program' = program /\ fatOnDevice' = fatOnDevice /\ fat' = fat /\ file' = file /\ at' = at /\ kept' = kept /\ pc = "unlfn"
  BY DEF F!deleteLFN, F!history
<1>2. Unwritten(T0, call)
  BY <1>0, <1>1, PhaseIs
<1>3. d \in DOMAIN T0 /\ i \in DOMAIN T0[d] /\ Indexed(T0[d]) /\ NoneBehind(T0[d]) /\ call.order \in 1 .. LfnEntries
  <2>1. d \in DOMAIN T0 /\ call.old.index \in DOMAIN T0[d] /\ Indexed(T0[d]) /\ NoneBehind(T0[d])
    BY <1>0, <1>2 DEF Unwritten, TreeTyped
  <2>2. call.old.index \in Nat /\ call.old.index >= LfnEntries /\ call.order \in 1 .. LfnEntries
    BY <1>2, <2>1 DEF Unwritten, Indexed
  <2>3. i \in 0 .. call.old.index
    BY <2>2, <1>s
  <2> QED BY <2>1, <2>2, <2>3 DEF Indexed
<1>4. T0[d][i] = F!Entry(d, i) /\ T0[d][i] \in SlotType
  BY <1>3, SizeNow
<1>5. pc \in PlainSteps /\ pc \notin PairSteps
  BY <1>1 DEF PlainSteps, PairSteps
<1>6. /\ GoneAt(pc, call) = {} /\ PendingAt(pc, call) = 0 /\ RawAt(pc, call) = {} /\ DevXAt(pc, call) = {}
      /\ SettlingAt(pc) = FALSE /\ Building(pc, call) = {}
  BY <1>5, PlainStep
<1>7. FreeTail(T0, {}) /\ DotKinds(T0, {})
  BY <1>0, <1>6 DEF SetsP
<1>8. CASE F!Ends /\ UNCHANGED <<device, F!cache>>
  <2>1. UNCHANGED F!volume /\ UNCHANGED F!cache
    BY <1>1, <1>8 DEF F!volume
  <2> QED BY <1>1, <1>6, <1>7, <1>8, <2>1, SameCache, QuietEnds
<1>9. CASE ~(F!Ends /\ UNCHANGED <<device, F!cache>>)
  <2>1. /\ T0[d][i].kind = "lfn" /\ T0[d][i].order = call.order /\ F!StoreEntry(d, i, F!Deleted)
        /\ IF F!Last(T0[d][i]) THEN F!Goes("data", [call EXCEPT !.then = "idle"]) ELSE F!Goes("unlfn", [call EXCEPT !.order = @ + 1])
    BY <1>4, <1>9 DEF F!deleteLFN
  <2>2. F!Deleted \in SlotType /\ F!Deleted.kind = "deleted" /\ ~F!isFatFileOrSubdir(F!Deleted) /\ ~F!isFatFileOrSubdir(T0[d][i])
    BY <1>0, <2>1, TypedConstants DEF F!Deleted, F!Slot, F!isFatFileOrSubdir
  <2> HIDE DEF d, i, U
  <2>3. ClearBefore(T0[d], i)
    <3>1. ASSUME NEW j \in DOMAIN T0[d], j < i PROVE T0[d][j].kind # "free"
      BY <1>3, <1>7, <2>1, <3>1 DEF FreeTail
    <3> QED BY <3>1 DEF ClearBefore
  <2>4. NoneBehind(With(T0[d], i, F!Deleted))
    BY <1>3, <2>2, <2>3, NoneBehindWith
  <2>5. TreeTyped(U) /\ DOMAIN U = DOMAIN T0 /\ DOMAIN U[d] = DOMAIN T0[d]
    BY <1>1, <1>3, <2>1, <2>2, <2>4, TreeStored, TreeWithIs DEF U
  <2>6. \/ pc' = "data" /\ call' = [call EXCEPT !.then = "idle"]
        \/ pc' = "unlfn" /\ call' = [call EXCEPT !.order = @ + 1] /\ call.order # LfnEntries
    <3>1. CASE F!Last(T0[d][i])
      BY <2>1, <3>1 DEF F!Goes
    <3>2. CASE ~F!Last(T0[d][i])
      <4>1. T0[d][i].name \in LongNames
        BY <1>4, <2>1 DEF SlotType
      <4>2. call.order # LfnEntries
        BY <2>1, <3>2, <4>1 DEF F!Last, F!nameOrd, F!Lost
      <4> QED BY <2>1, <3>2, <4>2 DEF F!Goes
    <3> QED BY <3>1, <3>2
  <2>7. /\ call' \in Calls /\ call'.old = call.old /\ call'.op = call.op
        /\ pc' = "data" => call'.then = "idle"
        /\ pc' = "unlfn" => call'.order \in 1 .. LfnEntries
    <3>1. CASE pc' = "data" /\ call' = [call EXCEPT !.then = "idle"]
      BY <3>1, <1>0 DEF Calls, Steps
    <3>2. CASE pc' = "unlfn" /\ call' = [call EXCEPT !.order = @ + 1] /\ call.order # LfnEntries
      <4>1. call.order + 1 \in 1 .. LfnEntries
        BY <3>2, <1>3, <1>s
      <4> QED BY <3>2, <4>1, <1>0 DEF Calls
    <3> QED BY <2>6, <3>1, <3>2
  <2>8. GoneAt(pc', call') = {} /\ PendingAt(pc', call') = 0 /\ RawAt(pc', call') = {} /\ Building(pc', call') = {}
    BY <2>6, <2>7, BuildingNone DEF GoneAt, PendingAt, RawAt, PhaseOf
  <2>9. HeldP(U, fat, file', pc', call')
    BY <1>0, <1>1, <1>3, <1>6, <2>2, <2>5, <2>8, HeldUnused DEF U
  <2>10. SetsP(U, pc', call')
    <3>1. FreeTail(U, {}) /\ DotKinds(U, {})
      BY <1>0, <1>3, <1>7, <2>1, <2>2, <2>3, FreeTailUsed, DotKindsWith DEF U
    <3> QED BY <3>1, <2>8 DEF SetsP
  <2>11. FileIs(U, file')
    <3>1. file.open => <<file.dir, file.index>> # <<d, i>>
      BY <1>0, <2>2, FileAway
    <3> QED BY <3>1, <1>0, <1>1, <1>3, FileWith DEF U
  <2>12. PhaseOK(pc', U, Inside', file', call', F!Contents', fatOnDevice, fat, SectorAt(fat, d, i))
    <3>1. CASE pc' = "data"
      BY <3>1, <2>7, <1>2, PhaseSync DEF SyncGoal, Unwritten
    <3>2. CASE pc' = "unlfn"
      <4>1. Unwritten(U, call')
        BY <3>2, <2>5, <2>7, <1>2 DEF Unwritten, d
      <4> QED BY <3>2, <4>1, PhaseIs
    <3> QED BY <2>6, <3>1, <3>2
  <2> QED BY <1>0, <1>1, <1>3, <1>6, <2>1, <2>2, <2>4, <2>7, <2>9, <2>10, <2>11, <2>12, StoredKeeps DEF U
<1> QED BY <1>8, <1>9

-----------------------------------------------------------------------------
(* deleteSFN() as a step of the invariant, but for the tree. *)
LEMMA DeleteIs ==
  ASSUME F!DirectoryAssumption, IInv, F!deleteSFN, NEW d, NEW i, d = call.old.dir, i = call.old.index
  PROVE  /\ program' = program /\ fatOnDevice' = fatOnDevice /\ fat' = fat /\ file' = file /\ kept' = kept
         /\ pc = "del" /\ F!StoreEntry(d, i, F!Deleted) /\ pc' = "data" /\ call' \in Calls /\ call'.old = call.old /\ call'.op = call.op
         /\ call'.order = 1 /\ call'.then = (IF call.old.lfnOrd > 0 THEN "unlfn" ELSE "idle")
         /\ \A k \in DOMAIN at' : at'[k] \in F!Index
         /\ DelOK(T0, Inside, file, call, F!Contents, fatOnDevice, fat) /\ OldIs(T0, call) /\ call.op \in {"remove", "rename"}
         /\ d \in DOMAIN T0 /\ i \in DOMAIN T0[d] /\ Indexed(T0[d]) /\ NoneBehind(T0[d])
         /\ T0[d][i].kind = (IF call.old.isDir THEN "subdir" ELSE "file") /\ ClearBefore(T0[d], i)
         /\ file.open => <<file.dir, file.index>> # <<d, i>>
         /\ F!Deleted \in SlotType /\ F!Deleted.kind = "deleted"
<1>0. /\ program \in FatPrograms /\ call \in Calls /\ (\A k \in DOMAIN at : at[k] \in F!Index)
      /\ PhaseOK(pc, T0, Inside, file, call, F!Contents, fatOnDevice, fat, m_sector) /\ TreeTyped(T0)
  BY Now
<1>1. /\ program' = program /\ fatOnDevice' = fatOnDevice /\ fat' = fat /\ file' = file /\ kept' = kept
      /\ pc = "del" /\ F!StoreEntry(d, i, F!Deleted) /\ pc' = "data" /\ at' = F!WithoutName(d, call.old.name)
      /\ call' = [call EXCEPT !.saved = F!Entry(d, i), !.order = 1,
                              !.then = IF call.old.lfnOrd > 0 THEN "unlfn" ELSE "idle"]
  BY DEF F!deleteSFN, F!Goes
<1>2. DelOK(T0, Inside, file, call, F!Contents, fatOnDevice, fat)
  BY <1>0, <1>1, PhaseIs
<1>3. OldIs(T0, call) /\ call.op \in {"remove", "rename"} /\ (file.open => <<file.dir, file.index>> # <<d, i>>)
  BY <1>2 DEF DelOK, MovedOK, F!Closed
<1>4. d \in DOMAIN T0 /\ i \in DOMAIN T0[d] /\ T0[d][i].kind = (IF call.old.isDir THEN "subdir" ELSE "file")
  BY <1>3 DEF OldIs, EntryIs
<1>5. Indexed(T0[d]) /\ NoneBehind(T0[d])
  BY <1>0, <1>4 DEF TreeTyped
<1>6. ClearBefore(T0[d], i)
  BY <1>4, <1>5, UsedClear
<1>7. F!Entry(d, i) \in SlotType
  BY <1>4, SizeNow
<1>8. /\ call' \in Calls /\ call'.old = call.old /\ call'.op = call.op
      /\ call'.order = 1 /\ call'.then = (IF call.old.lfnOrd > 0 THEN "unlfn" ELSE "idle")
  BY ZenonT(60), <1>0, <1>1, <1>7 DEF Calls, Steps
<1>9. \A k \in DOMAIN at' : at'[k] \in F!Index
  BY <1>0, <1>1 DEF F!WithoutName
<1>10. F!Deleted \in SlotType /\ F!Deleted.kind = "deleted"
  BY <1>0, TypedConstants DEF F!Deleted, F!Slot
<1> QED BY <1>1, <1>2, <1>3, <1>4, <1>5, <1>6, <1>8, <1>9, <1>10

(* The entry that is deleted held nothing any more. *)
LEMMA DeletedHeld ==
  ASSUME NEW T, TreeTyped(T), NEW d \in DOMAIN T, NEW i \in DOMAIN T[d], NEW U, TreeTyped(U),
         Entered(U) \subseteq Minus(Entered(T), <<d, i>>),
         \A k \in Entered(T) : k # <<d, i>> => k \in Entered(U),
         \A k \in Entered(U) : F!At(U, k).first = F!At(T, k).first /\ F!At(U, k).kind = F!At(T, k).kind,
         NEW o, NEW l, NEW c, <<d, i>> = <<c.old.dir, c.old.index>>, HeldP(T, l, o, "del", c), NEW c2
  PROVE  HeldP(U, l, o, "data", c2)
<1>1. GoneAt("del", c) = {<<d, i>>} /\ PendingAt("del", c) = 0 /\ GoneAt("data", c2) = {} /\ PendingAt("data", c2) = 0
  BY DEF GoneAt, PendingAt
<1>2. HoldersKept(T, o, {<<d, i>>}, U, o, {}) /\ HoldersKept(U, o, {}, T, o, {<<d, i>>})
  BY DEF HoldersKept, EntryFirst, Minus
<1> QED BY <1>1, <1>2, HeldTrees DEF HeldP, HoldsP

LEMMA DeletePhase ==
  ASSUME F!DirectoryAssumption, IInv, F!deleteSFN, NEW U, call.old.dir \in DOMAIN U, DOMAIN U[call.old.dir] = DOMAIN T0[call.old.dir]
  PROVE  /\ \A B, o, contents, onDevice, links, sector : PhaseOK("data", U, B, o, call', contents, onDevice, links, sector)
         /\ RawAt("data", call') = {} /\ Building("data", call') = {} /\ DevXAt("del", call) = {}
         /\ FreeTail(T0, {}) /\ DotKinds(T0, {})
<1>0. program \in FatPrograms /\ SetsP(T0, pc, call) /\ pc = "del" /\ call \in Calls
  BY Now DEF F!deleteSFN
<1>1. /\ call'.old = call.old /\ call'.op = call.op /\ call'.order = 1
      /\ call'.then = (IF call.old.lfnOrd > 0 THEN "unlfn" ELSE "idle") /\ OldIs(T0, call) /\ call.op \in {"remove", "rename"}
  BY DeleteIs
<1>2. call'.then = "unlfn" => Unwritten(U, call')
  <2>1. ASSUME call'.then = "unlfn" PROVE Unwritten(U, call')
    <3>1. call.old.index >= LfnEntries
      BY <1>1, <2>1 DEF OldIs, LfnOrdOK
    <3>2. 1 \in 1 .. LfnEntries
      BY <1>0, Setting
    <3> QED BY <1>1, <3>1, <3>2 DEF Unwritten, OldIs, EntryIs
  <2> QED BY <2>1
<1>3. \A B, o : SyncGoal(U, B, o, call')
  BY <1>1, <1>2 DEF SyncGoal
<1>4. \A B, o, contents, onDevice, links, sector : PhaseOK("data", U, B, o, call', contents, onDevice, links, sector)
  BY <1>3, PhaseSync
<1>5. RawAt("data", call') = {} /\ Building("data", call') = {} /\ DevXAt("del", call) = {} /\ RawAt("del", call) = {} /\ Building("del", call) = {}
  BY <1>1, BuildingNone DEF RawAt, PhaseOf, DevXAt
<1> QED BY <1>0, <1>4, <1>5 DEF SetsP

LEMMA DeleteFileKeeps ==
  ASSUME F!DirectoryAssumption, IInv, F!deleteSFN, ~call.old.isDir
  PROVE  IInv'
<1>0. /\ program \in FatPrograms /\ file \in Objects /\ FileIs(T0, file) /\ kept \subseteq F!Cluster /\ HeldP(T0, fat, file, pc, call)
      /\ TreeTyped(T0)
  BY Now
<1>1. PICK d, i : d = call.old.dir /\ i = call.old.index
  OBVIOUS
<1>2. /\ program' = program /\ fatOnDevice' = fatOnDevice /\ fat' = fat /\ file' = file /\ kept' = kept
      /\ pc = "del" /\ F!StoreEntry(d, i, F!Deleted) /\ pc' = "data" /\ call' \in Calls
      /\ \A k \in DOMAIN at' : at'[k] \in F!Index
      /\ d \in DOMAIN T0 /\ i \in DOMAIN T0[d] /\ Indexed(T0[d]) /\ NoneBehind(T0[d])
      /\ T0[d][i].kind = "file" /\ ClearBefore(T0[d], i)
      /\ file.open => <<file.dir, file.index>> # <<d, i>>
      /\ F!Deleted \in SlotType /\ F!Deleted.kind = "deleted"
  BY <1>1, DeleteIs
<1> DEFINE U == TreeWith(T0, d, i, F!Deleted)
<1>3. NoneBehind(With(T0[d], i, F!Deleted))
  BY <1>2, NoneBehindWith
<1>4. T0[d][i].kind # "subdir" /\ F!Deleted.kind # "subdir" /\ ~F!isFatFileOrSubdir(F!Deleted) /\ T0[d][i].kind \notin {"dot", "dotdot"}
      /\ F!Deleted.kind # "free"
  BY <1>2 DEF F!isFatFileOrSubdir
<1>5. TreeTyped(U) /\ DOMAIN U = DOMAIN T0 /\ DOMAIN U[d] = DOMAIN T0[d]
  BY <1>2, <1>3, <1>4, TreeStored, TreeWithIs
<1>6. /\ \A B, o, contents, onDevice, links, sector : PhaseOK("data", U, B, o, call', contents, onDevice, links, sector)
      /\ RawAt("data", call') = {} /\ Building("data", call') = {} /\ DevXAt("del", call) = {}
      /\ FreeTail(T0, {}) /\ DotKinds(T0, {})
  BY <1>1, <1>2, <1>5, DeletePhase
<1>7. HeldP(U, fat, file, "data", call')
  <2>1. Entered(U) = Minus(Entered(T0), <<d, i>>) /\ SameBut(T0, U, <<d, i>>)
    BY <1>2, <1>4, EnteredDrop
  <2> HIDE DEF U
  <2> QED BY <2>1, <1>0, <1>1, <1>2, <1>5, DeletedHeld DEF Minus, SameBut
<1>8. SetsP(U, "data", call')
  <2>1. FreeTail(U, {}) /\ DotKinds(U, {})
    BY <1>0, <1>2, <1>4, <1>6, FreeTailUsed, DotKindsWith
  <2> QED BY <2>1, <1>6 DEF SetsP
<1>9. FileIs(U, file)
  BY <1>0, <1>2, FileWith
<1> HIDE DEF U
<1>10. PhaseOK(pc', U, Inside', file', call', F!Contents', fatOnDevice, fat, SectorAt(fat, d, i))
  BY <1>2, <1>6
<1>11. SettlingAt(pc')
  BY <1>2 DEF SettlingAt
<1> QED BY <1>0, <1>2, <1>3, <1>4, <1>6, <1>7, <1>8, <1>9, <1>10, <1>11, StoredKeeps DEF U

-----------------------------------------------------------------------------
(* rename(): what the old entry has moves to the new one. *)
LEMMA MovedHeld ==
  ASSUME NEW l, NEW T, TreeTyped(T), NEW U, TreeTyped(U), NEW o, NEW o2, NEW a, NEW b, a # b, NEW new,
         Held(l, Holding(T, o, {}, 0), Singles(T, Holding(T, o, {}, 0))),
         a \in Entered(T), b \in Entered(T), b \in Entered(U), EntryFirst(T, o, b) = new,
         EntryFirst(U, o2, b) = EntryFirst(T, o, a), F!At(U, b).kind = F!At(T, a).kind,
         \A k : k # a /\ k # b => /\ (k \in Entered(U) <=> k \in Entered(T))
                                  /\ (k \in Entered(T) => EntryFirst(U, o2, k) = EntryFirst(T, o, k) /\ F!At(U, k).kind = F!At(T, k).kind)
  PROVE  Held(l, Holding(U, o2, {a}, new), Singles(U, Holding(U, o2, {a}, new)))
<1>1. PICK H : H = Holding(T, o, {}, 0)
  OBVIOUS
<1>2. PICK H2 : H2 = Holding(U, o2, {a}, new)
  OBVIOUS
<1>3. PICK S : S = Singles(T, H)
  OBVIOUS
<1>4. PICK S2 : S2 = Singles(U, H2)
  OBVIOUS
<1>5. Held(l, H, S)
  BY <1>1, <1>3
<1>6. /\ RootKey \in DOMAIN H /\ H[RootKey] = rootDirStart /\ NewKey \notin DOMAIN H
      /\ \A k \in DOMAIN H : k = RootKey \/ k \in Entered(T)
      /\ \A k \in Entered(T) : k \in DOMAIN H /\ H[k] = EntryFirst(T, o, k)
      /\ \A k \in DOMAIN H : k \in S <=> k # RootKey /\ k # NewKey /\ F!At(T, k).kind = "file"
  BY <1>1, <1>3, HoldingIs
<1>7. /\ RootKey \in DOMAIN H2 /\ H2[RootKey] = rootDirStart /\ (new # 0 => NewKey \in DOMAIN H2 /\ H2[NewKey] = new)
      /\ (new = 0 => NewKey \notin DOMAIN H2)
      /\ \A k \in DOMAIN H2 : k = RootKey \/ (k = NewKey /\ new # 0) \/ (k \in Entered(U) /\ k # a)
      /\ \A k \in Entered(U) : k # a => k \in DOMAIN H2 /\ H2[k] = EntryFirst(U, o2, k)
      /\ \A k \in DOMAIN H2 : k \in S2 <=> k # RootKey /\ k # NewKey /\ F!At(U, k).kind = "file"
  BY <1>2, <1>4, HoldingIs
<1>8. RootKey # NewKey /\ \A k \in Entered(T) : k # RootKey /\ k # NewKey
  BY EnteredKey DEF RootKey, NewKey
<1>u. \A k \in Entered(U) : k # RootKey /\ k # NewKey
  BY EnteredKey
(* The holder before of what a holder now has. *)
<1> DEFINE from(k) == IF k = b THEN a ELSE IF k = NewKey THEN b ELSE k
<1>9. ASSUME NEW j \in DOMAIN H2
      PROVE  from(j) \in DOMAIN H /\ H[from(j)] = H2[j] /\ (j \in S2 => from(j) \in S)
  <2>1. CASE j = RootKey
    BY <2>1, <1>6, <1>7, <1>8
  <2>2. CASE j = NewKey
    BY <2>2, <1>6, <1>7, <1>8
  <2>3. CASE j = b
    BY <2>3, <1>6, <1>7, <1>8
  <2>4. CASE j # RootKey /\ j # NewKey /\ j # b
    BY <2>4, <1>6, <1>7, <1>8
  <2> QED BY <2>1, <2>2, <2>3, <2>4
<1>10. \A i, j \in DOMAIN H2 : from(i) = from(j) => i = j
  BY <1>6, <1>7, <1>8, <1>u
<1>11. ASSUME NEW k \in DOMAIN H, H[k] # 0 PROVE \E j \in DOMAIN H2 : H2[j] = H[k]
  <2>1. CASE k = RootKey
    BY <2>1, <1>6, <1>7
  <2>2. CASE k = a
    BY <2>2, <1>6, <1>7
  <2>3. CASE k = b
    BY <2>3, <1>11, <1>6, <1>7
  <2>4. CASE k # RootKey /\ k # a /\ k # b
    BY <2>4, <1>6, <1>7
  <2> QED BY <2>1, <2>2, <2>3, <2>4
<1>12. \A i, j \in DOMAIN H : H[i] = H[j] /\ H[i] # 0 => i = j
  BY <1>5 DEF Held
<1> HIDE DEF from
<1>13. \A i, j \in DOMAIN H2 : H2[i] = H2[j] /\ H2[i] # 0 => i = j
  BY <1>9, <1>10, <1>12
<1>14. \A j \in DOMAIN H2 : H2[j] # 0 => \E k \in DOMAIN H : H[k] = H2[j] /\ (j \in S2 => k \in S)
  BY <1>9
<1>15. Held(l, H2, S2)
  BY <1>5, <1>11, <1>13, <1>14, HeldMoved
<1> QED BY <1>2, <1>4, <1>15

-----------------------------------------------------------------------------
(* copyEntry as a step of the invariant, but for the tree. *)
Moved(o, c) == [o EXCEPT !.dir = c.dir, !.index = c.index, !.name = c.name, !.lfnOrd = F!freeNeed(c.name) - 1]
Copied(c) == [c.saved EXCEPT !.name = c.sfn]
LEMMA CopyIs ==
  ASSUME F!DirectoryAssumption, IInv, F!copyEntry, NEW d, NEW i, d = call.dir, i = call.index,
         NEW slot, slot = Copied(call)
  PROVE  /\ program' = program /\ fatOnDevice' = fatOnDevice /\ fat' = fat /\ at' = at /\ kept' = kept
         /\ pc = "copy" /\ F!StoreEntry(d, i, slot) /\ file' = Moved(file, call) /\ call' = [call EXCEPT !.old = file]
         /\ pc' = (IF file.isDir THEN "dotdot" ELSE "del")
         /\ call' \in Calls /\ file' \in Objects /\ call'.old = file /\ call'.op = "rename" /\ call'.dir = d /\ call'.index = i
         /\ call'.first = call.first
         /\ file'.open /\ ~file'.dirty /\ file'.isDir = file.isDir /\ file'.write = file.write /\ file'.dir = d /\ file'.index = i
         /\ file'.first = file.first /\ file.open /\ ~file.dirty /\ Object(T0, file) /\ LfnOrdOK(file')
         /\ CopyOK(T0, Inside, file, call) /\ RenameOK(Inside, file, call)
         /\ d \in DOMAIN T0 /\ i \in DOMAIN T0[d] /\ Indexed(T0[d]) /\ NoneBehind(T0[d]) /\ ClearBefore(T0[d], i)
         /\ slot \in SlotType /\ slot.kind = T0[file.dir][file.index].kind /\ slot.first = file.first
         /\ T0[d][i].kind = (IF file.isDir THEN "subdir" ELSE "file") /\ slot.kind = T0[d][i].kind
         /\ T0[d][i].first = (IF file.isDir THEN call.first ELSE 0)
         /\ <<file.dir, file.index>> # <<d, i>>
<1>0. /\ program \in FatPrograms /\ call \in Calls /\ file \in Objects /\ FileIs(T0, file)
      /\ PhaseOK(pc, T0, Inside, file, call, F!Contents, fatOnDevice, fat, m_sector) /\ TreeTyped(T0)
  BY Now
<1>s. LfnEntries \in Nat \ {0}
  BY <1>0, Setting
<1>1. /\ program' = program /\ fatOnDevice' = fatOnDevice /\ fat' = fat /\ at' = at /\ kept' = kept
      /\ pc = "copy" /\ F!StoreEntry(d, i, slot) /\ file' = Moved(file, call) /\ call' = [call EXCEPT !.old = file]
      /\ pc' = (IF file.isDir THEN "dotdot" ELSE "del")
  BY DEF F!copyEntry, F!Goes, F!history, Moved, Copied
<1>2. CopyOK(T0, Inside, file, call)
  BY <1>0, <1>1, PhaseIs
<1>3. /\ d \in DOMAIN T0 /\ call.op = "rename" /\ RenameOK(Inside, file, call) /\ ~file.dirty /\ call.saved = T0[file.dir][file.index]
      /\ file.open
  BY <1>2 DEF CopyOK, CreateOK, RenameOK
<1>4. /\ <<file.dir, file.index>> # <<d, i>> /\ i \in DOMAIN T0[d] /\ i >= F!freeNeed(call.name) - 1
      /\ T0[d][i].kind = (IF file.isDir THEN "subdir" ELSE "file") /\ T0[d][i].first = (IF file.isDir THEN call.first ELSE 0)
  BY <1>2, <1>3 DEF CopyOK, MadeIs
<1>5. Indexed(T0[d]) /\ NoneBehind(T0[d]) /\ i \in Nat
  BY <1>0, <1>3, <1>4 DEF TreeTyped, Calls
<1>6. ClearBefore(T0[d], i)
  BY <1>4, <1>5, UsedClear
<1>7. Object(T0, file)
  BY <1>0, <1>3 DEF FileIs, F!Closed
<1>8. /\ T0[file.dir][file.index] \in SlotType /\ T0[file.dir][file.index].kind = (IF file.isDir THEN "subdir" ELSE "file")
      /\ T0[file.dir][file.index].first = file.first
  <2>1. file.dir \in DOMAIN T0 /\ file.index \in DOMAIN T0[file.dir]
    BY <1>7 DEF Object, EntryIs
  <2> QED BY <2>1, <1>3, <1>7, SizeNow DEF Object, EntryIs
<1>9. slot \in SlotType /\ slot.kind = T0[file.dir][file.index].kind /\ slot.first = file.first
  <2>1. call.sfn \in ShortNames \cup F!LongSfns /\ call.sfn \in Name
    BY <1>0 DEF Calls, Name
  <2> QED BY <2>1, <1>3, <1>8 DEF SlotType, F!isFatFileOrSubdir, Copied
<1>10. F!freeNeed(call.name) - 1 \in {0, LfnEntries}
  BY <1>s DEF F!freeNeed
<1>11. /\ file' \in Objects /\ file'.open /\ ~file'.dirty /\ file'.isDir = file.isDir /\ file'.write = file.write /\ file'.dir = d
       /\ file'.index = i /\ file'.first = file.first /\ file'.lfnOrd = F!freeNeed(call.name) - 1
  <2>1. F!freeNeed(call.name) - 1 \in Nat /\ call.name \in Name /\ d \in F!Cluster \cup {0}
    BY <1>0, <1>10, <1>s DEF Calls
  <2> QED BY <2>1, <1>0, <1>1, <1>3, <1>5 DEF Moved, Objects
<1>12. LfnOrdOK(file')
  BY <1>4, <1>10, <1>11 DEF LfnOrdOK
<1>13. /\ call' \in Calls /\ call'.old = file /\ call'.op = "rename" /\ call'.dir = d /\ call'.index = i /\ call'.first = call.first
  BY <1>0, <1>1, <1>3 DEF Calls
<1> QED BY <1>1, <1>2, <1>3, <1>4, <1>5, <1>6, <1>7, <1>8, <1>9, <1>11, <1>12, <1>13

(* The object is at its new entry in a tree that has it and what the old one had. *)
LEMMA CopiedFile ==
  ASSUME F!DirectoryAssumption, IInv, F!copyEntry, NEW U, call.dir \in DOMAIN U, call.index \in DOMAIN U[call.dir],
         U[call.dir][call.index] = Copied(call)
  PROVE  FileIs(U, file')
<1>1. PICK d, i, slot : d = call.dir /\ i = call.index /\ slot = Copied(call)
  OBVIOUS
<1>2. /\ file'.open /\ ~file'.dirty /\ file'.isDir = file.isDir /\ file'.write = file.write /\ file'.dir = d /\ file'.index = i
      /\ file'.first = file.first /\ Object(T0, file) /\ LfnOrdOK(file')
      /\ slot.kind = T0[d][i].kind /\ T0[d][i].kind = (IF file.isDir THEN "subdir" ELSE "file") /\ slot.first = file.first
  BY <1>1, CopyIs
<1>3. EntryIs(U, file') /\ U[file'.dir][file'.index].first = file'.first
  BY <1>1, <1>2 DEF EntryIs
<1>4. file'.write => ~file'.isDir
  BY <1>2 DEF Object
<1> QED BY <1>2, <1>3, <1>4 DEF FileIs, Object

LEMMA CopyFileKeeps ==
  ASSUME F!DirectoryAssumption, IInv, F!copyEntry, ~file.isDir
  PROVE  IInv'
<1>0. /\ program \in FatPrograms /\ kept \subseteq F!Cluster /\ HeldP(T0, fat, file, pc, call) /\ (\A k \in DOMAIN at : at[k] \in F!Index)
      /\ TreeTyped(T0) /\ SetsP(T0, pc, call)
  BY Now
<1>1. PICK d, i, slot : d = call.dir /\ i = call.index /\ slot = Copied(call)
  OBVIOUS
<1>2. /\ program' = program /\ fatOnDevice' = fatOnDevice /\ fat' = fat /\ at' = at /\ kept' = kept
      /\ pc = "copy" /\ F!StoreEntry(d, i, slot) /\ pc' = "del"
      /\ call' \in Calls /\ file' \in Objects /\ call'.old = file /\ call'.op = "rename" /\ call'.dir = d /\ call'.index = i
      /\ file'.open /\ ~file'.dirty /\ ~file'.isDir /\ file'.isDir = file.isDir /\ file'.dir = d /\ file'.index = i
      /\ file'.first = file.first /\ file.open /\ ~file.dirty /\ Object(T0, file)
  BY <1>1, CopyIs
<1>3. /\ d \in DOMAIN T0 /\ i \in DOMAIN T0[d] /\ Indexed(T0[d]) /\ NoneBehind(T0[d]) /\ ClearBefore(T0[d], i)
      /\ slot \in SlotType /\ slot.kind = "file" /\ slot.first = file.first
      /\ T0[d][i].kind = "file" /\ T0[d][i].first = 0 /\ <<file.dir, file.index>> # <<d, i>>
  BY <1>1, CopyIs
<1> DEFINE U == TreeWith(T0, d, i, slot)
           a == <<file.dir, file.index>>
           b == <<d, i>>
<1>4. NoneBehind(With(T0[d], i, slot))
  BY <1>3, NoneBehindWith
<1>5. T0[d][i].kind # "subdir" /\ slot.kind # "subdir" /\ F!isFatFileOrSubdir(slot) /\ F!isFatFileOrSubdir(T0[d][i])
      /\ T0[d][i].kind \notin {"dot", "dotdot"} /\ slot.kind # "free"
  BY <1>3 DEF F!isFatFileOrSubdir
<1>6. TreeTyped(U) /\ DOMAIN U = DOMAIN T0 /\ DOMAIN U[d] = DOMAIN T0[d] /\ U[d][i] = slot
  BY <1>2, <1>3, <1>4, <1>5, TreeStored, TreeWithIs
<1>7. Entered(U) = Plus(Entered(T0), b) /\ SameBut(T0, U, b)
  BY <1>3, <1>5, EnteredAdd
<1>8. EntryIs(T0, file) /\ LfnOrdOK(file) /\ T0[file.dir][file.index].kind = "file" /\ T0[file.dir][file.index].first = file.first
      /\ file.dir \in DOMAIN T0 /\ file.index \in DOMAIN T0[file.dir] /\ ~file.isDir
  BY <1>2 DEF Object, EntryIs
<1>9. a \in Entered(T0) /\ b \in Entered(T0)
  BY <1>3, <1>8, EnteredIs DEF UsedOf, InUse, F!isFatFileOrSubdir
<1>10. EntryIs(U, file) /\ U[file.dir][file.index] = T0[file.dir][file.index]
  BY <1>3, <1>8, EntryIsWith
<1>11. FileIs(U, file')
  BY <1>1, <1>3, <1>6, CopiedFile
<1>12. GoneAt(pc, call) = {} /\ PendingAt(pc, call) = 0 /\ GoneAt(pc', call') = {a} /\ PendingAt(pc', call') = 0
       /\ RawAt(pc, call) = {} /\ RawAt(pc', call') = {} /\ Building(pc, call) = {} /\ Building(pc', call') = {}
       /\ DevXAt(pc, call) = {} /\ SettlingAt(pc')
  BY <1>2, BuildingNone DEF GoneAt, PendingAt, RawAt, PhaseOf, DevXAt, SettlingAt
<1>13. HeldP(U, fat, file', pc', call')
  <2>1. EntryFirst(T0, file, b) = 0 /\ EntryFirst(U, file', b) = EntryFirst(T0, file, a) /\ F!At(U, b).kind = F!At(T0, a).kind
    BY <1>2, <1>3, <1>6, <1>8 DEF EntryFirst, F!At
  <2>2. ASSUME NEW k, k # a, k # b
        PROVE  /\ (k \in Entered(U) <=> k \in Entered(T0))
               /\ (k \in Entered(T0) => EntryFirst(U, file', k) = EntryFirst(T0, file, k) /\ F!At(U, k).kind = F!At(T0, k).kind)
    BY <2>2, <1>2, <1>7 DEF EntryFirst, SameBut, Plus
  <2>3. a # b /\ b \in Entered(U)
    BY <1>3, <1>7 DEF Plus
  <2>4. Held(fat, Holding(T0, file, {}, 0), Singles(T0, Holding(T0, file, {}, 0)))
    BY <1>0, <1>12 DEF HeldP, HoldsP
  <2> HIDE DEF U, a, b
  <2>5. Held(fat, Holding(U, file', {a}, 0), Singles(U, Holding(U, file', {a}, 0)))
    BY <2>1, <2>2, <2>3, <2>4, <1>0, <1>6, <1>9, MovedHeld
  <2> QED BY <2>5, <1>12 DEF HeldP, HoldsP
<1>14. SetsP(U, pc', call')
  <2>1. FreeTail(T0, {}) /\ DotKinds(T0, {})
    BY <1>0, <1>12 DEF SetsP
  <2>2. FreeTail(U, {}) /\ DotKinds(U, {})
    BY <2>1, <1>0, <1>3, <1>5, FreeTailUsed, DotKindsWith
  <2> QED BY <2>2, <1>12 DEF SetsP
<1> HIDE DEF U
<1>15. PhaseOK(pc', U, Inside', file', call', F!Contents', fatOnDevice, fat, SectorAt(fat, d, i))
  <2>1. MovedOK(U, Inside', file', call')
    BY <1>2, <1>3, <1>8, <1>10 DEF MovedOK, RenameOK, OldIs
  <2> QED BY <2>1, <1>2, PhaseIs DEF DelOK
<1> QED BY <1>0, <1>2, <1>3, <1>4, <1>5, <1>11, <1>12, <1>13, <1>14, <1>15, StoredKeeps DEF U

-----------------------------------------------------------------------------
(* An iteration whose step may depend on the place exists. *)
IsScan(w, S, start, n, next) ==
  w \in [0 .. n -> S] /\ w[0] = start /\ \A k \in 1 .. n : w[k] = next[k][w[k - 1]]
LEMMA ScanExists ==
  ASSUME NEW S, NEW start, start \in S, NEW n \in Nat, NEW next, next \in [1 .. n -> [S -> S]]
  PROVE  \E w : IsScan(w, S, start, n, next)
<1> DEFINE W(m) == \E w \in [0 .. m -> S] : w[0] = start /\ \A k \in 1 .. m : w[k] = next[k][w[k - 1]]
           Bad == {m \in 0 .. n : ~W(m)}
<1>1. W(0)
  <2> DEFINE w == [k \in 0 .. 0 |-> start]
  <2>1. w \in [0 .. 0 -> S] /\ w[0] = start /\ \A k \in 1 .. 0 : w[k] = next[k][w[k - 1]]
    OBVIOUS
  <2> QED BY <2>1
<1>2. ASSUME NEW m \in 1 .. n, W(m - 1) PROVE W(m)
  <2>1. PICK w \in [0 .. m - 1 -> S] : w[0] = start /\ \A k \in 1 .. m - 1 : w[k] = next[k][w[k - 1]]
    BY <1>2
  <2>0. next[m] \in [S -> S] /\ w[m - 1] \in S
    OBVIOUS
  <2> DEFINE last == next[m][w[m - 1]]
             x == [k \in 0 .. m |-> IF k = m THEN last ELSE w[k]]
  <2>5. last \in S
    BY <2>0
  <2> HIDE DEF last
  <2>2. x \in [0 .. m -> S]
    BY <2>1, <2>5
  <2>3. x[0] = start
    BY <2>1
  <2>4. ASSUME NEW k \in 1 .. m PROVE x[k] = next[k][x[k - 1]]
    <3>1. x[k - 1] = w[k - 1] /\ x[k] = IF k = m THEN last ELSE w[k]
      OBVIOUS
    <3>2. k # m => w[k] = next[k][w[k - 1]]
      BY <2>1
    <3> QED BY <3>1, <3>2 DEF last
  <2> HIDE DEF x
  <2> QED BY <2>2, <2>3, <2>4
<1> HIDE DEF W
<1>3. SUFFICES ASSUME ~W(n) PROVE FALSE
  BY DEF W, IsScan
<1>4. n \in Bad /\ Bad \subseteq Nat
  BY <1>3
<1>5. PICK m \in Bad : \A l \in Bad : m <= l
  BY <1>4, LeastNat
<1>6. m \in 0 .. n /\ ~W(m)
  BY <1>5
<1>7. m # 0 /\ m \in 1 .. n
  BY <1>1, <1>6
<1>8. m - 1 \in 0 .. n /\ ~(m <= m - 1)
  BY <1>6, <1>7
<1>9. W(m - 1)
  BY <1>5, <1>8
<1> QED BY <1>2, <1>6, <1>7, <1>9

(* The states of a search. *)
ScanStates ==
  [at : {"more", "create", "found", "fail"}, lfnOrd : Nat, order : Nat, sum : Name, alias : BOOLEAN,
   free : Nat, freeIndex : Nat, last : Nat]
Entering(s, i, name, st) == F!Seen(st, s, i, name)
IsFree(kind) == kind \in {"free", "deleted"}
FreeSeenFacts(st, slot, i, need, u) ==
  /\ u \in ScanStates /\ u.at = st.at /\ u.lfnOrd = st.lfnOrd /\ u.order = st.order /\ u.sum = st.sum
  /\ u.alias = st.alias /\ u.last = st.last
  /\ IsFree(slot.kind) => /\ u.freeIndex = (IF st.free = 0 THEN i ELSE st.freeIndex)
                          /\ u.free = (IF st.free < need THEN st.free + 1 ELSE st.free)
  /\ ~IsFree(slot.kind) => /\ u.freeIndex = st.freeIndex
                           /\ u.free = (IF st.free < need THEN 0 ELSE st.free)
LEMMA FreeSeenIs ==
  ASSUME NEW st \in ScanStates, NEW slot, NEW i \in Nat, NEW need \in Nat
  PROVE  FreeSeenFacts(st, slot, i, need, F!FreeSeen(st, slot, i, need))
<1>u. PICK u : u = F!FreeSeen(st, slot, i, need)
  OBVIOUS
<1>. SUFFICES FreeSeenFacts(st, slot, i, need, u)
  BY <1>u
<1>1. CASE IsFree(slot.kind)
  <2>1. PICK a, b : /\ a = (IF st.free = 0 THEN i ELSE st.freeIndex) /\ b = (IF st.free < need THEN st.free + 1 ELSE st.free)
                    /\ u = [st EXCEPT !.freeIndex = a, !.free = b]
    BY <1>1, <1>u DEF F!FreeSeen, IsFree
  <2>2. st.free \in Nat /\ st.freeIndex \in Nat
    BY DEF ScanStates
  <2>3. a \in Nat /\ b \in Nat
    BY <2>1, <2>2
  <2>4. u \in ScanStates /\ u.freeIndex = a /\ u.free = b
    BY <2>1, <2>3 DEF ScanStates
  <2>5. /\ u.at = st.at /\ u.lfnOrd = st.lfnOrd /\ u.order = st.order /\ u.sum = st.sum /\ u.alias = st.alias /\ u.last = st.last
    BY <2>1 DEF ScanStates
  <2> QED BY <1>1, <2>1, <2>4, <2>5 DEF FreeSeenFacts
<1>2. CASE ~IsFree(slot.kind)
  BY <1>2, <1>u DEF F!FreeSeen, FreeSeenFacts, IsFree, ScanStates
<1> QED BY <1>1, <1>2

LongGoes(name, st) == st.lfnOrd # 0 => F!nameOrd(name) = LfnEntries /\ st.lfnOrd = LfnEntries
LEMMA LongSeenIs ==
  ASSUME F!DirectoryAssumption, program \in FatPrograms, NEW s, DirSlots(s), NEW i \in DOMAIN s, s[i].kind = "lfn",
         NEW st \in ScanStates, st.at = "more", NEW name \in F!Names, LongGoes(name, st), NEW u, u = F!LongSeen(st, s, i, name)
  PROVE  /\ u \in ScanStates /\ u.free = st.free /\ u.freeIndex = st.freeIndex /\ u.last = st.last
         /\ u.at = "more" /\ u.alias = st.alias /\ LongGoes(name, u)
         /\ u.lfnOrd # 0 => u.order = (IF st.lfnOrd = 0 THEN LfnEntries ELSE st.order - 1)
<1>1. LfnEntries \in Nat \ {0} /\ s[i] \in SlotType /\ Name = ShortNames \cup LongNames \cup F!LongSfns
  BY Setting DEF DirSlots, Name
<1>2. s[i].name \in LongNames /\ s[i].sum \in Name /\ s[i].order \in Nat
  BY <1>1 DEF SlotType
<1>3. F!nameOrd(s[i].name) = LfnEntries /\ F!nameOrd(name) \in Nat
  BY <1>1, <1>2 DEF F!nameOrd, F!Lost
<1>4. CASE ~(F!SetStarts(st, s[i], name) \/ F!SetGoesOn(st, s[i]))
  <2>1. u = [st EXCEPT !.lfnOrd = 0]
    BY <1>4 DEF F!LongSeen
  <2> QED BY <2>1 DEF ScanStates, LongGoes
<1>5. CASE F!SetStarts(st, s[i], name) \/ F!SetGoesOn(st, s[i])
  <2>1. PICK o, a, b : /\ u = [st EXCEPT !.order = a, !.sum = b, !.lfnOrd = o] /\ o \in {0, F!nameOrd(name)}
                       /\ a = s[i].order /\ b = s[i].sum
    BY <1>5 DEF F!LongSeen
  <2>a. a \in Nat /\ b \in Name /\ o \in Nat
    BY <2>1, <1>2, <1>3
  <2>2. u \in ScanStates /\ u.free = st.free /\ u.freeIndex = st.freeIndex /\ u.last = st.last /\ u.at = "more" /\ u.alias = st.alias
        /\ u.lfnOrd = o /\ u.order = s[i].order
    BY <2>a, <2>1 DEF ScanStates
  <2>3. F!nameOrd(name) = LfnEntries /\ s[i].order = (IF st.lfnOrd = 0 THEN LfnEntries ELSE st.order - 1)
    BY <1>3, <1>5 DEF F!SetStarts, F!SetGoesOn, F!Last, LongGoes
  <2> QED BY <2>1, <2>2, <2>3 DEF LongGoes
<1> QED BY <1>4, <1>5

LEMMA ShortSeenIs ==
  ASSUME NEW slot, NEW st \in ScanStates, st.at = "more", NEW name, NEW u, u = F!ShortSeen(st, slot, name)
  PROVE  /\ u \in ScanStates /\ u.free = st.free /\ u.freeIndex = st.freeIndex /\ u.last = st.last
         /\ u.at \in {"more", "found", "fail"} /\ u.lfnOrd = st.lfnOrd /\ u.order = st.order
         /\ u.at = "found" /\ u.lfnOrd # 0 => u.order = 1
         /\ u.at = "more" => u.lfnOrd = 0
         /\ u.alias => st.alias \/ F!Lost(name)
<1>1. CASE st.lfnOrd # 0
  BY <1>1 DEF F!ShortSeen, ScanStates
<1>2. CASE st.lfnOrd = 0
  <2>1. CASE slot.name # F!makeSFN(name)
    BY <1>2, <2>1 DEF F!ShortSeen, ScanStates
  <2>2. CASE slot.name = F!makeSFN(name) /\ F!Lost(name)
    BY <1>2, <2>2 DEF F!ShortSeen, ScanStates
  <2>3. CASE slot.name = F!makeSFN(name) /\ ~F!Lost(name)
    BY <1>2, <2>3 DEF F!ShortSeen, ScanStates
  <2> QED BY <2>1, <2>2, <2>3
<1> QED BY <1>1, <1>2

-----------------------------------------------------------------------------
(* What one entry does to a search that goes on. *)
LEMMA SeenIs ==
  ASSUME F!DirectoryAssumption, program \in FatPrograms, NEW s, DirSlots(s), NEW i \in DOMAIN s,
         NEW st \in ScanStates, st.at = "more", NEW name \in F!Names, LongGoes(name, st), NEW u, u = F!Seen(st, s, i, name)
  PROVE  /\ u \in ScanStates /\ u.free = st.free /\ u.freeIndex = st.freeIndex /\ u.last = st.last
         /\ u.at = "create" <=> s[i].kind = "free"
         /\ u.at = "found" => InUse(s, i) /\ u.lfnOrd = st.lfnOrd /\ (u.lfnOrd # 0 => st.order = 1)
         /\ u.alias => st.alias \/ F!Lost(name)
         /\ u.at = "more" => /\ LongGoes(name, u)
                             /\ u.lfnOrd # 0 => u.order = (IF st.lfnOrd = 0 THEN LfnEntries ELSE st.order - 1)
<1>0. s[i] \in SlotType /\ s[i].kind \in Kinds
  BY DEF DirSlots, SlotType
<1>1. CASE s[i].kind = "free"
  <2>1. u = [st EXCEPT !.at = "create"]
    BY <1>1 DEF F!Seen
  <2> QED BY <1>1, <2>1 DEF ScanStates
<1>2. CASE s[i].kind \in {"deleted", "dot", "dotdot"}
  <2>1. u = [st EXCEPT !.lfnOrd = 0]
    BY <1>2 DEF F!Seen
  <2> QED BY <1>2, <2>1 DEF ScanStates, LongGoes
<1>3. CASE s[i].kind = "lfn"
  <2>1. u = F!LongSeen(st, s, i, name)
    BY <1>3 DEF F!Seen
  <2> QED BY <1>3, <2>1, LongSeenIs
<1>4. CASE s[i].kind \in {"file", "subdir"}
  <2>1. u = F!ShortSeen(st, s[i], name)
    BY <1>4 DEF F!Seen
  <2>2. /\ u \in ScanStates /\ u.free = st.free /\ u.freeIndex = st.freeIndex /\ u.last = st.last
        /\ u.at \in {"more", "found", "fail"} /\ u.lfnOrd = st.lfnOrd /\ u.order = st.order
        /\ u.at = "found" /\ u.lfnOrd # 0 => u.order = 1
        /\ u.at = "more" => u.lfnOrd = 0
        /\ u.alias => st.alias \/ F!Lost(name)
    BY <2>1, ShortSeenIs
  <2> QED BY <1>4, <2>2 DEF LongGoes, InUse, F!isFatFileOrSubdir
<1> QED BY <1>0, <1>1, <1>2, <1>3, <1>4 DEF Kinds

TailFree(s) == \A i, j \in DOMAIN s : i < j /\ s[i].kind = "free" => s[j].kind = "free"
Room(s, f, need) ==
  /\ f <= LenOf(s)
  /\ \A k \in DOMAIN s : /\ k < f => s[k].kind # "free"
                         /\ f <= k /\ k < f + need => s[k].kind \in {"free", "deleted"}
FreeRun(s, i, need, free, index) ==
  /\ free <= need
  /\ free > 0 => /\ index + free <= i /\ (free < need => index + free = i)
                 /\ \A k \in DOMAIN s : index <= k /\ k < index + free => s[k].kind = "deleted"
BeforeClear(s, i) == \A k \in DOMAIN s : k < i => s[k].kind # "free"
LongBehind(i, st) == st.lfnOrd # 0 => i + st.order >= LfnEntries + 1 /\ st.order <= LfnEntries
FoundAt(s, st) == st.last \in DOMAIN s /\ InUse(s, st.last) /\ (st.lfnOrd = 0 \/ (st.lfnOrd = LfnEntries /\ st.last >= LfnEntries))
Scanned(s, name, i, st) ==
  /\ st \in ScanStates /\ (st.alias => F!Lost(name))
  /\ st.at = "more" => /\ BeforeClear(s, i) /\ FreeRun(s, i, F!freeNeed(name), st.free, st.freeIndex)
                       /\ LongGoes(name, st) /\ LongBehind(i, st)
  /\ st.at = "create" => Room(s, st.freeIndex, F!freeNeed(name))
  /\ st.at = "found" => FoundAt(s, st)

(* The run of free entries after one more deleted one. *)
LEMMA RunGoesOn ==
  ASSUME NEW s, Indexed(s), NEW i \in DOMAIN s, NEW need \in Nat \ {0}, NEW free \in Nat, NEW index \in Nat,
         FreeRun(s, i, need, free, index), NEW free2, NEW index2,
         s[i].kind = "deleted" => index2 = (IF free = 0 THEN i ELSE index) /\ free2 = (IF free < need THEN free + 1 ELSE free),
         s[i].kind # "deleted" => index2 = index /\ free2 = (IF free < need THEN 0 ELSE free)
  PROVE  FreeRun(s, i + 1, need, free2, index2)
<1>0. i \in Nat /\ \A k \in DOMAIN s : k \in Nat
  BY DEF Indexed
<1>1. CASE s[i].kind = "deleted"
  <2>1. CASE free = 0
    BY <1>0, <1>1, <2>1 DEF FreeRun
  <2>2. CASE free > 0 /\ free < need
    BY <1>0, <1>1, <2>2 DEF FreeRun
  <2>3. CASE free > 0 /\ free = need
    BY <1>0, <1>1, <2>3 DEF FreeRun
  <2> QED BY <2>1, <2>2, <2>3 DEF FreeRun
<1>2. CASE s[i].kind # "deleted"
  BY <1>0, <1>2 DEF FreeRun
<1> QED BY <1>1, <1>2

(* The run at a free entry, behind which all are free. *)
LEMMA RunEnds ==
  ASSUME NEW s, Indexed(s), TailFree(s), NEW i \in DOMAIN s, NEW need \in Nat \ {0}, NEW free \in Nat, NEW index \in Nat,
         FreeRun(s, i, need, free, index), BeforeClear(s, i), s[i].kind = "free", NEW index2,
         index2 = (IF free = 0 THEN i ELSE index)
  PROVE  Room(s, index2, need)
<1>0. i \in Nat /\ \A k \in DOMAIN s : k \in Nat
  BY DEF Indexed
<1>1. index2 \in Nat /\ index2 <= i /\ index2 <= LenOf(s)
  <2>1. index2 \in Nat /\ index2 <= i
    BY <1>0 DEF FreeRun
  <2>2. i < LenOf(s) /\ LenOf(s) \in Nat
    BY DEF Indexed
  <2> QED BY <1>0, <2>1, <2>2
<1>2. SUFFICES ASSUME NEW k \in DOMAIN s
               PROVE  /\ k < index2 => s[k].kind # "free"
                      /\ index2 <= k /\ k < index2 + need => s[k].kind \in {"free", "deleted"}
  BY <1>1 DEF Room
<1>3. k < index2 => s[k].kind # "free"
  BY <1>0, <1>1 DEF BeforeClear
<1>4. ASSUME index2 <= k, k < index2 + need PROVE s[k].kind \in {"free", "deleted"}
  <2>1. CASE k < i
    BY <1>0, <1>4, <2>1 DEF FreeRun
  <2>2. CASE k = i
    BY <2>2
  <2>3. CASE i < k
    BY <2>3 DEF TailFree
  <2> QED BY <1>0, <2>1, <2>2, <2>3
<1> QED BY <1>3, <1>4

(* The run at the end of the directory. *)
LEMMA RunAtEnd ==
  ASSUME NEW s, Indexed(s), NEW size, size = LenOf(s), NEW need \in Nat \ {0}, NEW free \in Nat, NEW index \in Nat,
         FreeRun(s, size, need, free, index), BeforeClear(s, size), NEW index2, index2 = (IF free = 0 THEN size ELSE index)
  PROVE  Room(s, index2, need)
<1>0. size \in Nat /\ DOMAIN s = 0 .. size - 1
  BY DEF Indexed
<1> QED BY <1>0 DEF Room, FreeRun, BeforeClear

ScanStep(s, name, i, st) ==
  IF st.at # "more" THEN st
  ELSE [F!Seen(F!FreeSeen(st, s[i - 1], i - 1, F!freeNeed(name)), s, i - 1, name) EXCEPT !.last = i - 1]
LEMMA ScanStepIs ==
  ASSUME F!DirectoryAssumption, program \in FatPrograms, NEW s, DirSlots(s), TailFree(s), NEW name \in F!Names,
         NEW i \in DOMAIN s, NEW st, Scanned(s, name, i, st), NEW u, u = ScanStep(s, name, i + 1, st)
  PROVE  Scanned(s, name, i + 1, u)
<1>0. /\ i \in Nat /\ Indexed(s) /\ LfnEntries \in Nat \ {0} /\ F!freeNeed(name) \in Nat \ {0} /\ st \in ScanStates
      /\ (i + 1) - 1 = i
  BY Setting DEF DirSlots, Indexed, Scanned, F!freeNeed
<1>1. CASE st.at # "more"
  BY <1>1 DEF ScanStep, Scanned
<1>2. CASE st.at = "more"
  <2>1. PICK f, slot : f = F!FreeSeen(st, slot, i, F!freeNeed(name)) /\ slot = s[i]
    OBVIOUS
  <2>2. PICK v : v = F!Seen(f, s, i, name)
    OBVIOUS
  <2>3. u = [v EXCEPT !.last = i]
    BY <1>0, <1>2, <2>1, <2>2 DEF ScanStep
  <2>4. PICK need : need = F!freeNeed(name) /\ need \in Nat \ {0}
    BY <1>0
  <2>5. /\ f \in ScanStates /\ f.at = st.at /\ f.lfnOrd = st.lfnOrd /\ f.order = st.order
        /\ f.alias = st.alias
        /\ s[i].kind \in {"free", "deleted"} => /\ f.freeIndex = (IF st.free = 0 THEN i ELSE st.freeIndex)
                                                /\ f.free = (IF st.free < need THEN st.free + 1 ELSE st.free)
        /\ s[i].kind \notin {"free", "deleted"} => /\ f.freeIndex = st.freeIndex
                                                   /\ f.free = (IF st.free < need THEN 0 ELSE st.free)
    <3>1. f = F!FreeSeen(st, slot, i, need)
      BY <2>1, <2>4
    <3>2. FreeSeenFacts(st, slot, i, need, f)
      BY <3>1, <1>0, <2>4, FreeSeenIs
    <3> QED BY <3>2, <2>1 DEF IsFree, FreeSeenFacts
  <2>6. LongGoes(name, f) /\ f.at = "more"
    BY <1>2, <2>5 DEF LongGoes, Scanned
  <2>7. /\ v \in ScanStates /\ v.free = f.free /\ v.freeIndex = f.freeIndex
        /\ v.at = "create" <=> s[i].kind = "free"
        /\ v.at = "found" => InUse(s, i) /\ v.lfnOrd = f.lfnOrd /\ (v.lfnOrd # 0 => f.order = 1)
        /\ v.alias => f.alias \/ F!Lost(name)
        /\ v.at = "more" => /\ LongGoes(name, v)
                            /\ v.lfnOrd # 0 => v.order = (IF f.lfnOrd = 0 THEN LfnEntries ELSE f.order - 1)
    BY <2>2, <2>5, <2>6, SeenIs
  <2>8. u \in ScanStates /\ u.last = i /\ u.at = v.at /\ u.free = v.free /\ u.freeIndex = v.freeIndex /\ u.lfnOrd = v.lfnOrd
        /\ u.order = v.order /\ u.alias = v.alias
    BY <1>0, <2>3, <2>7 DEF ScanStates
  <2>9. /\ BeforeClear(s, i) /\ FreeRun(s, i, need, st.free, st.freeIndex) /\ LongGoes(name, st) /\ LongBehind(i, st)
        /\ (st.alias => F!Lost(name)) /\ st.free \in Nat /\ st.freeIndex \in Nat /\ st.order \in Nat /\ st.lfnOrd \in Nat
    BY <1>0, <1>2, <2>4 DEF Scanned, ScanStates
  <2>10. u.alias => F!Lost(name)
    BY <2>5, <2>7, <2>8, <2>9
  <2>11. ASSUME u.at = "more"
         PROVE  BeforeClear(s, i + 1) /\ FreeRun(s, i + 1, need, u.free, u.freeIndex) /\ LongGoes(name, u) /\ LongBehind(i + 1, u)
    <3>1. s[i].kind # "free"
      BY <2>7, <2>8, <2>11
    <3>2. BeforeClear(s, i + 1)
      <4>1. \A k \in DOMAIN s : k < i + 1 => k < i \/ k = i
        BY <1>0 DEF Indexed
      <4> QED BY <3>1, <4>1, <2>9 DEF BeforeClear
    <3>3. FreeRun(s, i + 1, need, u.free, u.freeIndex)
      <4>1. /\ s[i].kind = "deleted" => /\ u.freeIndex = (IF st.free = 0 THEN i ELSE st.freeIndex)
                                        /\ u.free = (IF st.free < need THEN st.free + 1 ELSE st.free)
            /\ s[i].kind # "deleted" => u.freeIndex = st.freeIndex /\ u.free = (IF st.free < need THEN 0 ELSE st.free)
        BY <3>1, <2>5, <2>7, <2>8
      <4> QED BY <4>1, <1>0, <2>4, <2>9, RunGoesOn
    <3>4. LongGoes(name, u)
      BY <2>7, <2>8, <2>11 DEF LongGoes
    <3>5. LongBehind(i + 1, u)
      BY <1>0, <2>5, <2>7, <2>8, <2>9, <2>11 DEF LongBehind, LongGoes
    <3> QED BY <3>2, <3>3, <3>4, <3>5
  <2>12. ASSUME u.at = "create" PROVE Room(s, u.freeIndex, need)
    <3>1. s[i].kind = "free" /\ u.freeIndex = (IF st.free = 0 THEN i ELSE st.freeIndex)
      BY <2>5, <2>7, <2>8, <2>12
    <3> QED BY <3>1, <1>0, <2>4, <2>9, RunEnds
  <2>13. ASSUME u.at = "found" PROVE FoundAt(s, u)
    BY <1>0, <2>5, <2>7, <2>8, <2>9, <2>13 DEF FoundAt, LongBehind, LongGoes
  <2> QED BY <2>4, <2>8, <2>10, <2>11, <2>12, <2>13 DEF Scanned
<1> QED BY <1>1, <1>2

-----------------------------------------------------------------------------
(* The end of a search. *)
Ended(s, name, r) ==
  /\ r \in ScanStates /\ (r.alias => F!Lost(name)) /\ r.at # "more"
  /\ r.at = "create" => Room(s, r.freeIndex, F!freeNeed(name))
  /\ r.at = "found" => FoundAt(s, r)
LEMMA ScanStart ==
  ASSUME F!DirectoryAssumption, program \in FatPrograms, NEW s, Indexed(s), NEW name \in F!Names
  PROVE  Scanned(s, name, 0, F!Searching)
<1>1. Basis \in Name
  BY TypedConstants
<1>2. F!freeNeed(name) \in Nat
  BY Setting DEF F!freeNeed
<1> QED BY <1>1, <1>2 DEF Scanned, F!Searching, ScanStates, BeforeClear, FreeRun, LongGoes, LongBehind, Indexed

LEMMA ScanIs ==
  ASSUME F!DirectoryAssumption, program \in FatPrograms, NEW s, DirSlots(s), TailFree(s), NEW name \in F!Names,
         NEW size, size = LenOf(s), NEW scan, scan = [i \in 0 .. size |-> IF i = 0 THEN F!Searching ELSE ScanStep(s, name, i, scan[i - 1])]
  PROVE  Scanned(s, name, size, scan[size])
<1>1. size \in Nat /\ DOMAIN s = 0 .. size - 1 /\ Indexed(s)
  BY DEF DirSlots, Indexed
<1>2. scan[0] = F!Searching /\ \A i \in 1 .. size : scan[i] = ScanStep(s, name, i, scan[i - 1])
  BY <1>1
<1> DEFINE Bad == {i \in 0 .. size : ~Scanned(s, name, i, scan[i])}
<1>3. SUFFICES ASSUME Bad # {} PROVE FALSE
  BY <1>1
<1>4. PICK m \in Bad : \A l \in Bad : m <= l
  <2>1. Bad \subseteq Nat
    BY <1>1
  <2> QED BY <1>3, <2>1, LeastNat
<1>5. m # 0
  BY <1>1, <1>2, <1>4, ScanStart
<1>6. m \in 1 .. size /\ m - 1 \in 0 .. size /\ ~(m <= m - 1) /\ m - 1 \in DOMAIN s /\ (m - 1) + 1 = m
  BY <1>1, <1>4, <1>5
<1>7. PICK i, st, u : i = m - 1 /\ st = scan[i] /\ u = scan[m]
  OBVIOUS
<1>8. Scanned(s, name, i, st)
  BY <1>4, <1>6, <1>7
<1>9. u = ScanStep(s, name, i + 1, st)
  BY <1>2, <1>6, <1>7
<1>10. Scanned(s, name, i + 1, u)
  BY <1>6, <1>7, <1>8, <1>9, ScanStepIs
<1> QED BY <1>4, <1>6, <1>7, <1>10

LEMMA ScanFunction ==
  ASSUME F!DirectoryAssumption, program \in FatPrograms, NEW s, DirSlots(s), TailFree(s), NEW name \in F!Names,
         NEW size, size = LenOf(s)
  PROVE  \E scan : scan = [i \in 0 .. size |-> IF i = 0 THEN F!Searching ELSE ScanStep(s, name, i, scan[i - 1])]
<1>1. size \in Nat /\ DOMAIN s = 0 .. size - 1 /\ Indexed(s)
  BY DEF DirSlots, Indexed
<1> DEFINE St(i) == {st \in ScanStates : Scanned(s, name, i, st)}
           S == {p \in (0 .. size) \X ScanStates : Scanned(s, name, p[1], p[2])}
           start == <<0, F!Searching>>
           into(i) == [p \in S |-> IF p[1] = i - 1 THEN <<i, ScanStep(s, name, i, p[2])>> ELSE p]
           next == [i \in 1 .. size |-> into(i)]
<1>2. start \in S
  <2>1. Scanned(s, name, 0, F!Searching)
    BY <1>1, ScanStart
  <2> QED BY <1>1, <2>1 DEF Scanned
<1>3. ASSUME NEW i \in 1 .. size PROVE into(i) \in [S -> S]
  <2>1. ASSUME NEW p \in S, p[1] = i - 1 PROVE <<i, ScanStep(s, name, i, p[2])>> \in S
    <3>1. PICK j, st, u : j = i - 1 /\ st = p[2] /\ u = ScanStep(s, name, i, st)
      OBVIOUS
    <3>2. j \in DOMAIN s /\ j + 1 = i /\ Scanned(s, name, j, st)
      BY <1>1, <2>1, <3>1
    <3>3. Scanned(s, name, j + 1, u)
      BY <3>1, <3>2, ScanStepIs
    <3>4. i \in 0 .. size /\ u \in ScanStates
      BY <1>1, <3>3 DEF Scanned
    <3> QED BY <3>1, <3>2, <3>3, <3>4
  <2> QED BY <2>1
<1>4. next \in [1 .. size -> [S -> S]]
  BY <1>3
<1>5. PICK w \in [0 .. size -> S] : w[0] = start /\ \A k \in 1 .. size : w[k] = next[k][w[k - 1]]
  <2> HIDE DEF S, next, start
  <2>1. PICK nn, from, q, R : nn = size /\ from = start /\ q = next /\ R = S
    OBVIOUS
  <2>2. nn \in Nat /\ from \in R /\ q \in [1 .. nn -> [R -> R]]
    BY <1>1, <1>2, <1>4, <2>1
  <2>3. \E w : IsScan(w, R, from, nn, q)
    BY ONLY <2>2, ScanExists
  <2> QED BY <2>1, <2>3 DEF IsScan
<1>6. \A k \in 1 .. size : w[k] = into(k)[w[k - 1]]
  BY <1>5
<1> HIDE DEF next
<1>7. \A k \in 0 .. size : w[k] \in S
  BY <1>5
<1>8. \A k \in 0 .. size : w[k][1] = k
  <2> DEFINE Bad == {i \in 0 .. size : w[i][1] # i}
  <2>1. SUFFICES ASSUME Bad # {} PROVE FALSE
    OBVIOUS
  <2>2. PICK m \in Bad : \A l \in Bad : m <= l
    <3>1. Bad \subseteq Nat
      BY <1>1
    <3> QED BY <2>1, <3>1, LeastNat
  <2>3. m # 0
    BY <1>5
  <2>4. m \in 1 .. size /\ m - 1 \in 0 .. size /\ ~(m <= m - 1)
    BY <1>1, <2>2, <2>3
  <2>5. w[m - 1][1] = m - 1 /\ w[m - 1] \in S
    BY <2>2, <2>4, <1>7
  <2>6. w[m] = <<m, ScanStep(s, name, m, w[m - 1][2])>>
    BY <2>4, <2>5, <1>6
  <2> QED BY <2>2, <2>6
<1> DEFINE v == [i \in 0 .. size |-> w[i][2]]
<1>9. ASSUME NEW i \in 0 .. size PROVE v[i] = IF i = 0 THEN F!Searching ELSE ScanStep(s, name, i, v[i - 1])
  <2>1. CASE i = 0
    BY <2>1, <1>5
  <2>2. CASE i # 0
    <3>1. i \in 1 .. size /\ i - 1 \in 0 .. size
      BY <1>1, <2>2
    <3>2. w[i - 1][1] = i - 1 /\ w[i - 1] \in S
      BY <3>1, <1>7, <1>8
    <3>3. w[i] = <<i, ScanStep(s, name, i, w[i - 1][2])>>
      BY <3>1, <3>2, <1>6
    <3> QED BY <2>2, <3>1, <3>3
  <2> QED BY <2>1, <2>2
<1>10. v = [i \in 0 .. size |-> IF i = 0 THEN F!Searching ELSE ScanStep(s, name, i, v[i - 1])]
  <2>1. v = [i \in 0 .. size |-> v[i]]
    OBVIOUS
  <2> HIDE DEF v
  <2> QED BY <1>9, <2>1
<1> HIDE DEF v
<1> QED BY <1>10

LEMMA SearchIs ==
  ASSUME F!DirectoryAssumption, IInv, NEW d \in DOMAIN T0, TailFree(T0[d]), NEW name \in F!Names, NEW r, r = F!Search(d, name)
  PROVE  Ended(T0[d], name, r)
<1>0. program \in FatPrograms /\ TreeTyped(T0)
  BY Now
<1> DEFINE s == T0[d]  size == LenOf(T0[d])
           ScanIt(scan) == scan = [i \in 0 .. size |-> IF i = 0 THEN F!Searching ELSE ScanStep(s, name, i, scan[i - 1])]
           scan == CHOOSE scan : ScanIt(scan)
           end == scan[size]
<1>1. DirSlots(s) /\ Indexed(s)
  BY <1>0 DEF TreeTyped
<1>2. F!Entries(d) = s
  BY SizeNow
<1>3. \E f : ScanIt(f)
  BY <1>0, <1>1, ScanFunction
<1>4. ScanIt(scan)
  BY <1>3
<1>5. r = IF end.at # "more" THEN end ELSE [end EXCEPT !.at = "create", !.freeIndex = IF end.free = 0 THEN size ELSE @]
  BY <1>2 DEF F!Search, ScanStep, LenOf
<1> HIDE DEF scan
<1>6. Scanned(s, name, size, end)
  BY <1>0, <1>1, <1>4, ScanIs
<1> HIDE DEF end, ScanIt
<1>s. LfnEntries \in Nat \ {0}
  BY <1>0, Setting
<1>7. CASE end.at # "more"
  BY <1>5, <1>6, <1>7 DEF Ended, Scanned
<1>8. CASE end.at = "more"
  <2>1. PICK index : /\ index = (IF end.free = 0 THEN size ELSE end.freeIndex)
                     /\ r = [end EXCEPT !.at = "create", !.freeIndex = index]
    BY <1>5, <1>8
  <2>2. size \in Nat /\ index \in Nat /\ end \in ScanStates /\ end.free \in Nat /\ end.freeIndex \in Nat /\ F!freeNeed(name) \in Nat \ {0}
    BY <1>1, <1>6, <2>1, <1>s DEF Scanned, ScanStates, Indexed, F!freeNeed
  <2>3. r \in ScanStates /\ r.at = "create" /\ r.freeIndex = index /\ r.alias = end.alias
    BY <2>1, <2>2 DEF ScanStates
  <2>4. FreeRun(s, size, F!freeNeed(name), end.free, end.freeIndex) /\ BeforeClear(s, size)
    BY <1>6, <1>8 DEF Scanned
  <2>5. Room(s, index, F!freeNeed(name))
    <3>1. PICK free, index1 : free = end.free /\ index1 = end.freeIndex
      OBVIOUS
    <3> QED BY <1>1, <2>1, <2>2, <2>4, <3>1, RunAtEnd
  <2> QED BY <2>3, <2>5, <1>6 DEF Ended, Scanned
<1> QED BY <1>7, <1>8

-----------------------------------------------------------------------------
LEMMA ChainSingle ==
  ASSUME F!DirectoryAssumption, program \in FatPrograms, NEW l, NEW c \in F!Cluster, l[c] \notin F!Cluster
  PROVE  F!Chain(l, c) = <<c>> /\ F!ChainSet(l, c) = {c}
<1>1. F!MaxDirSectors \in Nat \ {0} /\ 0 \notin F!Cluster
  BY Setting
<1>2. IsChain(l, c, <<c>>)
  BY <1>1 DEF IsChain, FirstOf
<1>3. F!Chain(l, c) = <<c>>
  BY <1>2, ChainUnique
<1> QED BY <1>3, ChainSetIs

Freed(l, c) == [x \in F!Cluster |-> IF x \in F!ChainSet(l, c) THEN 0 ELSE l[x]]
LEMMA HeldFreed ==
  ASSUME F!DirectoryAssumption, program \in FatPrograms, NEW l, Good(l), NEW c \in F!Cluster, c # rootDirStart,
         NEW H, NEW single, Held(l, H, single), NEW H2, NEW single2, NEW k \in DOMAIN H, H[k] = c,
         DOMAIN H2 \cup {k} = DOMAIN H, k \in DOMAIN H2 => H2[k] = 0,
         \A j \in DOMAIN H2 \ {k} : H2[j] = H[j] /\ (H[j] # 0 /\ j \in single2 => j \in single)
  PROVE  Held(Freed(l, c), H2, single2)
<1>1. PICK l2 : l2 = [x \in F!Cluster |-> IF x \in F!ChainSet(l, c) THEN 0 ELSE l[x]]
  OBVIOUS
<1>2. Held(l2, H2, single2)
  BY SMTT(60), <1>1, HeldFree
<1> QED BY <1>1, <1>2 DEF Freed

(* The clusters of a file are freed: the directories stay. *)
LEMMA FreeFile ==
  ASSUME F!DirectoryAssumption, IInv, program' = program, F!Contents' = F!Contents, pc # "del",
         NEW k \in SNow, NEW c, c = HNow[k], c # 0, fat' = F!FreeChain(c)
  PROVE  /\ c \in F!Cluster /\ c # rootDirStart /\ k \in DOMAIN HNow /\ fat[c] = EOC
         /\ fat' = Freed(fat, c)
         /\ Good(fat') /\ T0' = T0 /\ View(F!Contents', fat')
         /\ \A s : Later(fatOnDevice, fat, FALSE) => Later(fatOnDevice, fat', s)
<1>0. /\ program \in FatPrograms /\ Good(fat) /\ T0 = F!Tree(F!Contents, fat, 0) /\ View(F!Contents, fat) /\ TreeTyped(T0)
      /\ Sectored(F!Contents) /\ HeldP(T0, fat, file, pc, call)
  BY Now
<1>1. Held(fat, HNow, SNow) /\ HNow = Holding(T0, file, GoneAt(pc, call), PendingAt(pc, call))
  BY <1>0 DEF HeldP, HNow, SNow, HoldsP
<1>2. k \in DOMAIN HNow /\ k # RootKey
  BY DEF SNow, Singles
<1>3. c \in F!Cluster /\ fat[c] = EOC /\ fat[c] # 0 /\ c \notin Targets(fat)
  BY <1>1, <1>2, HeldHead
<1>4. c # rootDirStart
  <2>1. RootKey \in DOMAIN HNow /\ HNow[RootKey] = rootDirStart
    BY <1>0, <1>1, HoldingIs
  <2> QED BY <2>1, <1>1, <1>2 DEF Held
<1>5. fat' = [x \in F!Cluster |-> IF x \in F!ChainSet(fat, c) THEN 0 ELSE fat[x]]
  BY DEF F!FreeChain
<1>6. /\ Good(fat')
      /\ \A x \in F!Cluster : fat'[x] = IF x \in F!ChainSet(fat, c) THEN 0 ELSE fat[x]
      /\ \A d \in F!Cluster \cup {0} : FirstOf(d) \notin Targets(fat) /\ FirstOf(d) # c
              => F!Chain(fat', d) = F!Chain(fat, d) /\ F!ChainSet(fat', d) = F!ChainSet(fat, d)
  BY <1>0, <1>3, <1>4, <1>5, FatFree
<1>7. ASSUME NEW d \in DOMAIN T0
      PROVE  /\ F!Chain(fat', d) = F!Chain(fat, d) /\ F!ChainSet(fat', d) = F!ChainSet(fat, d)
             /\ F!Slots(F!Contents, fat', d) = F!Slots(F!Contents, fat, d)
  <2>1. ~RemovedNow(d) /\ d \in F!Cluster \cup {0}
    BY <1>0 DEF RemovedNow, TreeTyped
  <2>2. FirstOf(d) \notin Targets(fat) /\ \E j \in DOMAIN HNow : j \notin SNow /\ HNow[j] = FirstOf(d)
    BY <2>1, DirHeld DEF HNow, SNow
  <2>3. FirstOf(d) # c
    BY <2>2, <1>1, <1>2 DEF Held
  <2>4. F!Chain(fat', d) = F!Chain(fat, d) /\ F!ChainSet(fat', d) = F!ChainSet(fat, d)
    BY <1>6, <2>1, <2>2, <2>3
  <2>5. AgreeOn(F!ChainSet(fat, d), F!Contents, F!Contents)
    BY DEF AgreeOn
  <2> QED BY <1>0, <2>1, <2>4, <2>5, SlotsAgree
<1>8. DOMAIN T0 = Below(F!Contents, fat, 0)
  BY <1>0, TreeClosed
<1>9. 0 \in F!Cluster \cup {0}
  OBVIOUS
<1>10. F!Tree(F!Contents, fat', 0) = F!Tree(F!Contents, fat, 0) /\ Below(F!Contents, fat', 0) = Below(F!Contents, fat, 0)
  BY <1>0, <1>7, <1>8, <1>9, TreeSame
<1>11. T0' = T0
  BY <1>10, <1>0, PrimedTree
<1>12. View(F!Contents', fat')
  BY <1>0, <1>7, <1>8, <1>10 DEF View
<1>13. \A s : Later(fatOnDevice, fat, FALSE) => Later(fatOnDevice, fat', s)
  <2>1. F!ChainSet(fat, c) = {c}
    BY <1>0, <1>3, ChainSingle, Setting
  <2>2. PICK gone : gone = {c}
    OBVIOUS
  <2>3. gone \in SUBSET F!Cluster /\ (\A x \in gone : fat[x] \notin F!Cluster) /\ (\A x \in gone : fat[x] \in F!Cluster => fat[x] \in gone)
    BY <1>0, <1>3, <2>2, Setting
  <2>4. \A x \in F!Cluster : fat'[x] = IF x \in gone THEN 0 ELSE fat[x]
    BY <1>6, <2>1, <2>2
  <2>5. ASSUME NEW s, Later(fatOnDevice, fat, FALSE) PROVE Later(fatOnDevice, fat', s)
    BY <1>0, <2>3, <2>4, <2>5, LaterFree
  <2> QED BY <2>5
<1> QED BY <1>2, <1>3, <1>4, <1>5, <1>6, <1>11, <1>12, <1>13 DEF Freed

-----------------------------------------------------------------------------
(* The call with what the search has found out. *)
Sought(c, sfn, alias, index, saved) ==
  [c EXCEPT !.sfn = sfn, !.alias = alias, !.order = 1, !.index = index, !.saved = saved]
LEMMA SoughtTyped ==
  ASSUME F!DirectoryAssumption, program \in FatPrograms, NEW c \in Calls, NEW sfn \in ShortNames \cup F!LongSfns, NEW alias \in BOOLEAN,
         NEW index \in Nat, NEW saved \in SlotType, NEW u, u = Sought(c, sfn, alias, index, saved)
  PROVE  /\ u \in Calls /\ u.sfn = sfn /\ u.alias = alias /\ u.index = index /\ u.saved = saved /\ u.order = 1
         /\ u.dir = c.dir /\ u.name = c.name /\ u.op = c.op
  BY DEF Sought, Calls

LEMMA RoomRun ==
  ASSUME NEW s, Indexed(s), NEW f \in Nat, NEW need \in Nat \ {0}, Room(s, f, need), NEW c, need = F!freeNeed(c.name), c.index = f + need - 1
  PROVE  Run(s, c, 0)
<1>1. /\ c.index - 0 = f + need - 1 /\ c.index - (need - 1) = f /\ \A i \in DOMAIN s : i \in Nat
  BY DEF Indexed
<1>2. c.index >= need - 1
  BY <1>1
<1>3. ASSUME NEW i \in DOMAIN s
      PROVE  /\ i < c.index - (need - 1) => s[i].kind # "free"
             /\ i >= c.index - (need - 1) /\ i < c.index - 0 => s[i].kind \in {"free", "deleted"}
             /\ i >= c.index - 0 /\ i < c.index => s[i].kind = "lfn"
             /\ i = c.index => s[i].kind \in {"free", "deleted"}
  BY <1>1 DEF Room
<1> QED BY <1>2, <1>3 DEF Run

LEMMA SearchNow ==
  ASSUME F!DirectoryAssumption, IInv, F!search
  PROVE  /\ program \in FatPrograms /\ program' = program /\ fatOnDevice' = fatOnDevice /\ at' = at /\ pc = "search"
         /\ VolumeNext /\ F!Contents' = F!Contents /\ (device' = device \/ device' = F!Contents)
         /\ call \in Calls /\ file \in Objects /\ FileIs(T0, file) /\ SearchOK(T0, Inside, file, call)
         /\ GoneAt(pc, call) = {} /\ PendingAt(pc, call) = 0 /\ DevXAt(pc, call) = {} /\ ~SettlingAt(pc)
         /\ FreeTail(T0, {}) /\ DotKinds(T0, {}) /\ call.dir \in DOMAIN T0 /\ call.name \in F!Names
         /\ Ended(T0[call.dir], call.name, F!Search(call.dir, call.name)) /\ Indexed(T0[call.dir])
<1>0. /\ program \in FatPrograms /\ call \in Calls /\ file \in Objects /\ SetsP(T0, pc, call) /\ FileIs(T0, file)
      /\ PhaseOK(pc, T0, Inside, file, call, F!Contents, fatOnDevice, fat, m_sector) /\ TreeTyped(T0)
  BY Now
<1>1. program' = program /\ fatOnDevice' = fatOnDevice /\ at' = at /\ pc = "search"
  BY DEF F!search
<1>2. \E last : F!ReadUpTo(call.dir, last)
  BY DEF F!search
<1>3. VolumeNext /\ F!Contents' = F!Contents /\ (device' = device \/ device' = F!Contents)
  BY <1>2, ReadIs
<1>4. SearchOK(T0, Inside, file, call)
  BY <1>0, <1>1, PhaseIs
<1>5. call.dir \in DOMAIN T0 /\ call.name \in F!Names
  BY <1>4 DEF SearchOK
<1>6. /\ GoneAt(pc, call) = {} /\ PendingAt(pc, call) = 0 /\ DevXAt(pc, call) = {} /\ ~SettlingAt(pc) /\ RawAt(pc, call) = {}
      /\ Building(pc, call) = {}
  <2>1. pc \in PlainSteps /\ pc \notin PairSteps
    BY <1>1 DEF PlainSteps, PairSteps
  <2> QED BY <2>1, PlainStep
<1>7. FreeTail(T0, {}) /\ DotKinds(T0, {})
  BY <1>0, <1>6 DEF SetsP
<1>8. TailFree(T0[call.dir])
  BY <1>5, <1>7 DEF FreeTail, TailFree
<1>9. Ended(T0[call.dir], call.name, F!Search(call.dir, call.name))
  BY <1>5, <1>8, SearchIs
<1>10. Indexed(T0[call.dir])
  BY <1>0, <1>5 DEF TreeTyped
<1> QED BY <1>0, <1>1, <1>3, <1>4, <1>5, <1>6, <1>7, <1>9, <1>10

LEMMA SearchGrows ==
  ASSUME F!DirectoryAssumption, IInv, F!search, NEW r, r = F!Search(call.dir, call.name),
         r.at = "create", call.op # "read", fat' = fat, file' = file, kept' = kept, pc' = "grow",
         call' = Sought(call, F!makeSFN(call.name), r.alias, r.freeIndex + F!freeNeed(call.name) - 1,
                        IF call.op = "rename" THEN F!Entry(file.dir, file.index) ELSE call.saved)
  PROVE  IInv'
<1>0. /\ program \in FatPrograms /\ program' = program /\ fatOnDevice' = fatOnDevice /\ at' = at /\ pc = "search"
      /\ VolumeNext /\ F!Contents' = F!Contents /\ (device' = device \/ device' = F!Contents)
      /\ call \in Calls /\ file \in Objects /\ FileIs(T0, file) /\ SearchOK(T0, Inside, file, call)
      /\ GoneAt(pc, call) = {} /\ PendingAt(pc, call) = 0 /\ DevXAt(pc, call) = {} /\ ~SettlingAt(pc)
      /\ FreeTail(T0, {}) /\ DotKinds(T0, {}) /\ call.dir \in DOMAIN T0 /\ call.name \in F!Names
      /\ Ended(T0[call.dir], call.name, r) /\ Indexed(T0[call.dir])
  BY SearchNow
<1>s. LfnEntries \in Nat \ {0} /\ F!Names \subseteq ShortNames \cup LongNames /\ Basis \in F!LongSfns
  BY <1>0, Setting
<1>1. r \in ScanStates /\ (r.alias => F!Lost(call.name)) /\ Room(T0[call.dir], r.freeIndex, F!freeNeed(call.name)) /\ r.freeIndex \in Nat
      /\ r.alias \in BOOLEAN
  BY <1>0 DEF Ended, ScanStates
<1>2. PICK sfn, need, index, saved :
         /\ sfn = F!makeSFN(call.name) /\ need = F!freeNeed(call.name) /\ index = r.freeIndex + need - 1
         /\ saved = (IF call.op = "rename" THEN F!Entry(file.dir, file.index) ELSE call.saved)
         /\ call' = Sought(call, sfn, r.alias, index, saved)
  OBVIOUS
<1>3. need \in Nat \ {0} /\ index \in Nat
  BY <1>1, <1>2, <1>s DEF F!freeNeed
<1>4. sfn \in ShortNames \cup F!LongSfns
  BY <1>0, <1>2, <1>s DEF F!makeSFN, F!Lost
<1>5. saved \in SlotType /\ (call.op = "rename" => saved = T0[file.dir][file.index] /\ file.open /\ ~file.dirty /\ RenameOK(Inside, file, call))
  <2>1. CASE call.op = "rename"
    <3>1. file.open /\ ~file.dirty /\ RenameOK(Inside, file, call)
      BY <1>0, <2>1 DEF SearchOK, RenameOK
    <3>2. file.dir \in DOMAIN T0 /\ file.index \in DOMAIN T0[file.dir]
      BY <1>0, <3>1 DEF FileIs, Object, EntryIs, F!Closed
    <3>3. F!Entry(file.dir, file.index) = T0[file.dir][file.index] /\ T0[file.dir][file.index] \in SlotType
      BY <3>2, SizeNow
    <3> QED BY <3>1, <3>3, <1>2, <2>1
  <2>2. CASE call.op # "rename"
    BY <1>0, <1>2, <2>2 DEF Calls
  <2> QED BY <2>1, <2>2
<1>6. /\ call' \in Calls /\ call'.index = index /\ call'.saved = saved /\ call'.order = 1 /\ call'.alias = r.alias /\ call'.sfn = sfn
      /\ call'.dir = call.dir /\ call'.name = call.name /\ call'.op = call.op
  BY <1>0, <1>1, <1>2, <1>3, <1>4, <1>5, SoughtTyped
<1>7. CreateOK(T0, Inside, file, call')
  BY <1>0, <1>5, <1>6 DEF CreateOK, SearchOK, F!Modes, RenameOK
<1>8. Run(T0[call'.dir], call', 0)
  BY <1>0, <1>1, <1>2, <1>3, <1>6, RoomRun
<1>b. call'.index < F!Cardinality(DOMAIN T0[call'.dir]) + F!freeNeed(call'.name)
  <2>1. r.freeIndex <= LenOf(T0[call.dir]) /\ LenOf(T0[call.dir]) \in Nat
    BY <1>0, <1>1 DEF Room, Indexed
  <2> QED BY <2>1, <1>1, <1>2, <1>3, <1>6 DEF LenOf
<1>c. F!Lost(call'.name) => call'.sfn \in F!LongSfns
  BY SMTT(60), <1>2, <1>6, <1>s DEF F!makeSFN
<1>9. GrowOK(T0, Inside, file, call')
  BY <1>1, <1>6, <1>7, <1>8, <1>b, <1>c DEF GrowOK, NewOK
<1>10. PhaseOK(pc', T0, Inside, file, call', F!Contents, fatOnDevice, fat, m_sector')
  BY <1>9, PhaseIs
<1>11. pc' \in PlainSteps /\ pc' \notin PairSteps
  BY DEF PlainSteps, PairSteps
<1>12. GoneAt(pc', call') = {} /\ PendingAt(pc', call') = 0 /\ SetsP(T0, pc', call')
  BY <1>0, <1>11, PlainStep DEF SetsP
<1> QED BY <1>0, <1>6, <1>10, <1>12, Quiet

-----------------------------------------------------------------------------
LEMMA OpenIs ==
  ASSUME F!DirectoryAssumption, program \in FatPrograms, NEW d \in F!Cluster \cup {0}, NEW i \in Nat, NEW ord \in Nat,
         NEW name \in Name, NEW mode \in F!Modes, NEW slot \in SlotType,
         ~(mode # "read" /\ slot.kind = "subdir"),
         F!openCachedEntry(d, i, ord, name, mode, slot)
  PROVE  /\ file' \in Objects /\ kept' \subseteq kept
         /\ file'.open /\ file'.isDir = (slot.kind = "subdir") /\ file'.dir = d /\ file'.index = i /\ file'.lfnOrd = ord
         /\ (file'.isDir => mode = "read") /\ file'.dirty = (mode = "trunc") /\ file'.write = (mode # "read")
         /\ file'.first = (IF mode = "trunc" THEN 0 ELSE slot.first)
         /\ fat' = (IF mode = "trunc" THEN F!FreeChain(slot.first) ELSE fat)
<1>1. /\ file' = [open |-> TRUE, isDir |-> slot.kind = "subdir", write |-> mode # "read",
                   dirty |-> mode = "trunc", name |-> name, dir |-> d, index |-> i,
                   lfnOrd |-> ord, first |-> IF mode = "trunc" THEN 0 ELSE slot.first]
      /\ fat' = (IF mode = "trunc" THEN F!FreeChain(slot.first) ELSE fat)
      /\ kept' = (IF mode = "trunc" THEN kept \ {slot.first} ELSE kept)
  BY DEF F!openCachedEntry
<1>2. PICK first : first = IF mode = "trunc" THEN 0 ELSE slot.first
  OBVIOUS
<1>3. first \in F!Cluster \cup {0}
  BY <1>2 DEF SlotType
<1>4. file' \in Objects
  <2>1. (slot.kind = "subdir") \in BOOLEAN /\ (mode # "read") \in BOOLEAN /\ (mode = "trunc") \in BOOLEAN
    OBVIOUS
  <2> QED BY <1>1, <1>2, <1>3, <2>1 DEF Objects
<1>5. kept' \subseteq kept
  BY <1>1
<1> QED BY <1>1, <1>4, <1>5

(* A found entry is opened. *)
LEMMA SearchOpens ==
  ASSUME F!DirectoryAssumption, IInv, F!search, NEW r, r = F!Search(call.dir, call.name),
         r.at = "found", call.op \in F!Modes, F!Ends,
         F!openCachedEntry(call.dir, r.last, r.lfnOrd, call.name, call.op, F!Entry(call.dir, r.last))
  PROVE  IInv'
<1>0. /\ program \in FatPrograms /\ program' = program /\ fatOnDevice' = fatOnDevice /\ at' = at /\ pc = "search"
      /\ VolumeNext /\ F!Contents' = F!Contents /\ (device' = device \/ device' = F!Contents)
      /\ call \in Calls /\ file \in Objects /\ FileIs(T0, file) /\ SearchOK(T0, Inside, file, call)
      /\ GoneAt(pc, call) = {} /\ PendingAt(pc, call) = 0 /\ DevXAt(pc, call) = {} /\ ~SettlingAt(pc)
      /\ FreeTail(T0, {}) /\ DotKinds(T0, {}) /\ call.dir \in DOMAIN T0 /\ call.name \in F!Names
      /\ Ended(T0[call.dir], call.name, r) /\ Indexed(T0[call.dir])
  BY SearchNow
<1>n. /\ T0 = F!Tree(F!Contents, fat, 0) /\ View(F!Contents, fat) /\ TreeTyped(T0) /\ Good(fat) /\ Good(fatOnDevice)
      /\ Later(fatOnDevice, fat, SettlingAt(pc)) /\ HeldP(T0, fat, file, pc, call) /\ kept \subseteq F!Cluster
      /\ \A k \in DOMAIN at : at[k] \in F!Index
  BY Now
<1>1. file = F!Closed
  BY <1>0 DEF SearchOK, FileIs, Object, EntryIs
<1>2. r \in ScanStates /\ FoundAt(T0[call.dir], r)
  BY <1>0 DEF Ended
<1>3. PICK d, i, ord, slot : d = call.dir /\ i = r.last /\ ord = r.lfnOrd /\ slot = F!Entry(call.dir, r.last)
  OBVIOUS
<1>4. d \in DOMAIN T0 /\ i \in DOMAIN T0[d] /\ InUse(T0[d], i) /\ (ord = 0 \/ (ord = LfnEntries /\ i >= LfnEntries)) /\ i \in Nat /\ ord \in Nat
      /\ d \in F!Cluster \cup {0} /\ call.name \in Name
  BY <1>0, <1>2, <1>3, <1>n DEF FoundAt, ScanStates, TreeTyped, Calls
<1>5. slot = T0[d][i] /\ slot \in SlotType /\ slot.kind \in {"file", "subdir"}
  BY <1>3, <1>4, SizeNow DEF InUse, F!isFatFileOrSubdir
<1>6. GoneAt("idle", F!NoCall) = {} /\ PendingAt("idle", F!NoCall) = 0 /\ SetsP(T0, "idle", F!NoCall) /\ DevXAt("idle", F!NoCall) = {}
  <2>1. "idle" \in PlainSteps /\ "idle" \notin PairSteps
    BY DEF PlainSteps, PairSteps
  <2> QED BY <2>1, <1>0, PlainStep DEF SetsP
<1>7. pc' = "idle" /\ call' = F!NoCall /\ F!NoCall \in Calls
  BY <1>0, TypedConstants DEF F!Ends
<1>8. PhaseOK(pc', T0', Inside', file', call', F!Contents', fatOnDevice', fat', m_sector')
  BY <1>7, PhaseIs
<1>9. View(device', fatOnDevice') /\ Below(device', fatOnDevice', 0) \subseteq DOMAIN T0
  BY <1>0, DeviceKept
<1>10. CASE call.op # "read" /\ slot.kind = "subdir"
  <2>1. file' = file /\ fat' = fat /\ kept' = kept
    BY <1>3, <1>10 DEF F!openCachedEntry
  <2>2. SettlingAt(pc) = FALSE
    BY <1>0 DEF SettlingAt
  <2> QED BY <1>0, <2>1, <2>2, QuietEnds
<1>11. CASE ~(call.op # "read" /\ slot.kind = "subdir")
  <2>1. /\ file' \in Objects /\ kept' \subseteq kept
        /\ file'.open /\ file'.isDir = (slot.kind = "subdir") /\ file'.dir = d /\ file'.index = i /\ file'.lfnOrd = ord
        /\ (file'.isDir => call.op = "read") /\ file'.dirty = (call.op = "trunc") /\ file'.write = (call.op # "read")
        /\ file'.first = (IF call.op = "trunc" THEN 0 ELSE slot.first)
        /\ fat' = (IF call.op = "trunc" THEN F!FreeChain(slot.first) ELSE fat)
    BY <1>0, <1>3, <1>4, <1>5, <1>11, OpenIs
  <2>2. FileIs(T0, file')
    <3>1. EntryIs(T0, file')
      BY <1>4, <1>5, <2>1 DEF EntryIs
    <3>2. LfnOrdOK(file')
      BY <1>4, <2>1 DEF LfnOrdOK
    <3> QED BY <3>1, <3>2, <1>5, <2>1 DEF FileIs, Object
  <2>3. CASE fat' = fat /\ HeldP(T0, fat, file', "idle", F!NoCall)
    <3>1. T0' = T0
      BY <1>0, <1>n, <2>3, PrimedTree
    <3>2. Later(fatOnDevice', fat', SettlingAt(pc'))
      BY <1>0, <1>n, <1>7, <2>3 DEF SettlingAt
    <3> QED BY <1>0, <1>n, <1>6, <1>7, <1>8, <1>9, <2>1, <2>2, <2>3, <3>1, <3>2, IInvNext
  <2>4. CASE call.op # "trunc"
    <3>1. FileIs(T0, F!Closed) /\ ~F!Closed.dirty
      BY DEF FileIs, F!Closed
    <3>2. HoldsP(T0, file', "idle", F!NoCall) = HoldsP(T0, file, pc, call)
      <4>1. PICK o1, o2 : o1 = file' /\ o2 = F!Closed
        OBVIOUS
      <4>2. FileIs(T0, o1) /\ ~o1.dirty /\ FileIs(T0, o2) /\ ~o2.dirty
        BY <3>1, <4>1, <2>1, <2>2, <2>4
      <4>3. Holding(T0, o1, {}, 0) = Holding(T0, o2, {}, 0)
        BY <4>2, CleanHolds
      <4> QED BY <4>1, <4>3, <1>0, <1>1, <1>6 DEF HoldsP
    <3>3. HeldP(T0, fat, file', "idle", F!NoCall)
      BY <3>2, <1>n DEF HeldP
    <3> QED BY <3>3, <2>1, <2>3, <2>4
  <2>5. CASE call.op = "trunc"
    <3>1. file'.first = 0 /\ fat' = F!FreeChain(slot.first) /\ slot.kind = "file"
      BY <1>5, <1>11, <2>1, <2>5
    <3>2. PICK H, H2, k, c : H = Holding(T0, file, {}, 0) /\ H2 = Holding(T0, file', {}, 0) /\ k = <<d, i>> /\ c = slot.first
      OBVIOUS
    <3>3. HNow = H /\ SNow = Singles(T0, H) /\ HoldsP(T0, file', "idle", F!NoCall) = H2 /\ Held(fat, H, Singles(T0, H))
      BY SMTT(30), <3>2, <1>0, <1>6, <1>n DEF HNow, SNow, HoldsP, HeldP
    <3>4. k \in Entered(T0) /\ k # RootKey /\ k # NewKey /\ F!At(T0, k) = slot
      <4>1. k[1] = d /\ k[2] = i /\ i \in UsedOf(T0[d])
        BY <1>4, <3>2 DEF UsedOf
      <4>2. k \in Entered(T0)
        BY <4>1, <1>4, <3>2, EnteredIs
      <4> QED BY <4>1, <4>2, <1>5, <1>n, EnteredKey DEF F!At
    <3>5. /\ k \in DOMAIN H /\ H[k] = c /\ k \in DOMAIN H2 /\ H2[k] = 0
          /\ DOMAIN H2 = DOMAIN H /\ \A j \in DOMAIN H : j # k => H2[j] = H[j]
      <4>1. EntryFirst(T0, file, k) = c /\ EntryFirst(T0, file', k) = 0
        BY <3>1, <3>2, <3>4, <1>1, <2>1 DEF EntryFirst, F!Closed
      <4>2. \A j : j # k => EntryFirst(T0, file', j) = EntryFirst(T0, file, j)
        BY <3>2, <1>1, <2>1 DEF EntryFirst, F!Closed
      <4>3. k \in DOMAIN H /\ H[k] = c /\ k \in DOMAIN H2 /\ H2[k] = 0
        BY <4>1, <3>2, <3>4, <1>n, HoldingIs
      <4>4. DOMAIN H2 = DOMAIN H
        BY <3>2 DEF Holding
      <4>5. ASSUME NEW j \in DOMAIN H, j # k PROVE H2[j] = H[j]
        <5>1. j = RootKey \/ j \in Entered(T0)
          BY <3>2, <1>n, HoldingIs
        <5>2. CASE j = RootKey
          BY <5>2, <3>2, <1>n, HoldingIs
        <5>3. CASE j \in Entered(T0)
          BY <5>3, <4>2, <4>5, <3>2, <1>n, HoldingIs
        <5> QED BY <5>1, <5>2, <5>3
      <4> QED BY <4>3, <4>4, <4>5
    <3>6. k \in Singles(T0, H) /\ Singles(T0, H2) = Singles(T0, H)
      <4>1. k \in Singles(T0, H)
        BY <3>1, <3>4, <3>5 DEF Singles
      <4> QED BY <4>1, <3>5 DEF Singles
    <3>7. CASE c = 0
      <4>1. fat' = fat
        BY <3>1, <3>2, <3>7 DEF F!FreeChain
      <4>2. Held(fat, H2, Singles(T0, H2))
        <5>1. \A j \in DOMAIN H : H2[j] = H[j]
          BY <3>5, <3>7
        <5> QED BY <5>1, <3>3, <3>5, <3>6, HeldSame
      <4>3. HeldP(T0, fat, file', "idle", F!NoCall)
        BY <4>2, <3>3 DEF HeldP
      <4> QED BY <4>1, <4>3, <2>3
    <3>8. CASE c # 0
      <4>1. /\ c \in F!Cluster /\ c # rootDirStart
            /\ fat' = Freed(fat, c)
            /\ Good(fat') /\ T0' = T0 /\ View(F!Contents', fat')
            /\ \A s : Later(fatOnDevice, fat, FALSE) => Later(fatOnDevice, fat', s)
        <5>1. k \in SNow /\ c = HNow[k] /\ fat' = F!FreeChain(c) /\ pc # "del"
          BY <1>0, <3>1, <3>2, <3>3, <3>5, <3>6
        <5>2. PICK x : x = c
          OBVIOUS
        <5>3. x = HNow[k] /\ x # 0 /\ fat' = F!FreeChain(x)
          BY <5>1, <5>2, <3>8
        <5> QED BY <5>1, <5>2, <5>3, <1>0, FreeFile
      <4>2. Later(fatOnDevice', fat', SettlingAt(pc'))
        <5>1. SettlingAt(pc) = FALSE
          BY <1>0 DEF SettlingAt
        <5> QED BY <5>1, <4>1, <1>0, <1>n
      <4>3. Held(fat', H2, Singles(T0, H2))
        <5>1. PICK single : single = Singles(T0, H)
          OBVIOUS
        <5>2. /\ Held(fat, H, single) /\ k \in DOMAIN H /\ H[k] = c /\ DOMAIN H2 \cup {k} = DOMAIN H /\ (k \in DOMAIN H2 => H2[k] = 0)
              /\ \A j \in DOMAIN H2 \ {k} : H2[j] = H[j] /\ (H[j] # 0 /\ j \in single => j \in single)
          BY <5>1, <3>3, <3>5
        <5>3. Held(Freed(fat, c), H2, single)
          BY <5>1, <5>2, <1>0, <1>n, <4>1, HeldFreed
        <5> QED BY <5>1, <5>3, <3>6, <4>1
      <4>4. HeldP(T0, fat', file', "idle", F!NoCall)
        BY <4>3, <3>3 DEF HeldP
      <4> QED BY <1>0, <1>n, <1>6, <1>7, <1>8, <1>9, <2>1, <2>2, <4>1, <4>2, <4>4, IInvNext
    <3> QED BY <3>7, <3>8
  <2> QED BY <2>4, <2>5
<1> QED BY <1>10, <1>11

LEMMA SearchKeeps ==
  ASSUME F!DirectoryAssumption, IInv, F!search
  PROVE  IInv'
<1>0. /\ program \in FatPrograms /\ program' = program /\ fatOnDevice' = fatOnDevice /\ at' = at /\ pc = "search"
      /\ VolumeNext /\ F!Contents' = F!Contents /\ (device' = device \/ device' = F!Contents)
      /\ GoneAt(pc, call) = {} /\ PendingAt(pc, call) = 0 /\ DevXAt(pc, call) = {} /\ ~SettlingAt(pc)
      /\ FreeTail(T0, {}) /\ DotKinds(T0, {})
  BY SearchNow
<1>1. PICK r : r = F!Search(call.dir, call.name)
  OBVIOUS
<1>2. CASE /\ r.at = "create" /\ call.op # "read"
           /\ F!Goes("grow",
                [call EXCEPT !.sfn = F!makeSFN(call.name), !.alias = r.alias, !.order = 1,
                             !.index = r.freeIndex + F!freeNeed(call.name) - 1,
                             !.saved = IF call.op = "rename" THEN F!Entry(file.dir, file.index)
                                       ELSE @])
           /\ UNCHANGED <<file, fat, kept>>
  <2>1. /\ pc' = "grow" /\ file' = file /\ fat' = fat /\ kept' = kept
        /\ call' = Sought(call, F!makeSFN(call.name), r.alias, r.freeIndex + F!freeNeed(call.name) - 1,
                        IF call.op = "rename" THEN F!Entry(file.dir, file.index) ELSE call.saved)
    BY <1>2 DEF F!Goes, Sought
  <2> QED BY <1>1, <1>2, <2>1, SearchGrows
<1>3. CASE /\ r.at = "found" /\ call.op \in F!Modes
           /\ F!openCachedEntry(call.dir, r.last, r.lfnOrd, call.name, call.op, F!Entry(call.dir, r.last))
           /\ F!Ends
  BY <1>1, <1>3, SearchOpens
<1>4. CASE UNCHANGED <<file, fat, kept>> /\ F!Ends
  <2>1. file' = file /\ fat' = fat /\ kept' = kept
    BY <1>4
  <2>2. SettlingAt(pc) = FALSE
    BY <1>0 DEF SettlingAt
  <2> QED BY <2>1, <2>2, <1>0, <1>4, QuietEnds
<1> QED BY <1>1, <1>2, <1>3, <1>4 DEF F!search

-----------------------------------------------------------------------------
Extends(t, s) ==
  /\ LenOf(t) = LenOf(s) + F!EntriesPerSector /\ Indexed(t) /\ DOMAIN s \subseteq DOMAIN t
  /\ \A i \in DOMAIN s : t[i] = s[i]
  /\ \A i \in DOMAIN t : i \notin DOMAIN s => t[i] = F!Free /\ i >= LenOf(s)
LEMMA LongerIs ==
  ASSUME F!DirectoryAssumption, program \in FatPrograms, NEW s, Indexed(s)
  PROVE  Extends(Longer(s), s)
<1>t. PICK t : t = Longer(s)
  OBVIOUS
<1>1. F!EntriesPerSector \in Nat \ {0, 1} /\ LenOf(s) \in Nat /\ DOMAIN s = 0 .. LenOf(s) - 1
  BY Setting DEF Indexed
<1>2. PICK n : n = LenOf(s) + F!EntriesPerSector
  OBVIOUS
<1>3. n \in Nat /\ DOMAIN t = 0 .. n - 1
  BY <1>1, <1>2, <1>t DEF Longer
<1>4. LenOf(t) = n
  BY <1>3, CardinalityBelow DEF LenOf
<1>5. \A i \in DOMAIN s : t[i] = s[i]
  BY <1>1, <1>2, <1>3, <1>t DEF Longer
<1>6. \A i \in DOMAIN t : i \notin DOMAIN s => t[i] = F!Free /\ i >= LenOf(s)
  BY <1>1, <1>2, <1>3, <1>t DEF Longer
<1>7. Indexed(t) /\ DOMAIN s \subseteq DOMAIN t
  BY <1>1, <1>2, <1>3, <1>4 DEF Indexed
<1>8. Extends(t, s)
  BY <1>2, <1>4, <1>5, <1>6, <1>7 DEF Extends
<1> QED BY <1>8, <1>t

LEMMA LongerUsed ==
  ASSUME F!DirectoryAssumption, program \in FatPrograms, NEW s, Indexed(s), NEW t, t = Longer(s)
  PROVE  UsedOf(t) = UsedOf(s) /\ SubdirsOf(t) = SubdirsOf(s) /\ (NoneBehind(s) => NoneBehind(t)) /\ (DirSlots(s) => DirSlots(t))
<1>0. F!Free.kind = "free" /\ F!Free \in SlotType /\ F!EntriesPerSector \in Nat \ {0, 1}
  BY TypedConstants, Setting DEF F!Free, F!Slot
<1>1. /\ LenOf(t) = LenOf(s) + F!EntriesPerSector /\ Indexed(t) /\ DOMAIN s \subseteq DOMAIN t
      /\ \A i \in DOMAIN s : t[i] = s[i]
      /\ \A i \in DOMAIN t : i \notin DOMAIN s => t[i] = F!Free /\ i >= LenOf(s)
  BY LongerIs DEF Extends
<1>2. \A i \in DOMAIN t : InUse(t, i) <=> i \in DOMAIN s /\ InUse(s, i)
  BY <1>0, <1>1 DEF InUse, F!isFatFileOrSubdir
<1>3. UsedOf(t) = UsedOf(s)
  BY <1>1, <1>2 DEF UsedOf
<1>4. SubdirsOf(t) = SubdirsOf(s)
  BY <1>1, <1>3 DEF SubdirsOf, UsedOf
<1>5. NoneBehind(s) => NoneBehind(t)
  <2>1. SUFFICES ASSUME NoneBehind(s), NEW i \in DOMAIN t, NEW j \in DOMAIN t, i < j, t[i].kind = "free"
                 PROVE  t[j].kind = "free" \/ t[j].kind = "lfn"
    BY DEF NoneBehind
  <2>2. i \in Nat /\ j \in Nat /\ LenOf(s) \in Nat /\ \A k \in DOMAIN s : k < LenOf(s)
    BY <1>1 DEF Indexed
  <2>3. CASE j \in DOMAIN s
    <3>1. i \in DOMAIN s
      BY <1>1, <2>1, <2>2, <2>3
    <3> QED BY <3>1, <2>1, <2>3, <1>1 DEF NoneBehind
  <2>4. CASE j \notin DOMAIN s
    BY <2>4, <1>0, <1>1
  <2> QED BY <2>3, <2>4
<1>6. DirSlots(s) => DirSlots(t)
  <2>1. SUFFICES ASSUME DirSlots(s) PROVE DirSlots(t)
    OBVIOUS
  <2>2. \A i \in DOMAIN t : t[i] \in SlotType
    BY <2>1, <1>0, <1>1 DEF DirSlots
  <2>3. LenOf(t) \in Nat \ {0, 1} /\ DOMAIN t = 0 .. LenOf(t) - 1
    BY <2>1, <1>0, <1>1 DEF DirSlots, Indexed
  <2>4. t = [i \in DOMAIN t |-> t[i]]
    BY DEF Longer
  <2> QED BY <2>2, <2>3, <2>4 DEF DirSlots
<1> QED BY <1>3, <1>4, <1>5, <1>6

TreeLonger(T, d) == [T EXCEPT ![d] = Longer(T[d])]
LEMMA TreeLongerIs ==
  ASSUME F!DirectoryAssumption, program \in FatPrograms, NEW T, TreeTyped(T), NEW d \in DOMAIN T, NEW U, U = TreeLonger(T, d)
  PROVE  /\ DOMAIN U = DOMAIN T /\ TreeTyped(U) /\ Entered(U) = Entered(T) /\ U[d] = Longer(T[d])
         /\ \A e \in DOMAIN T : e # d => U[e] = T[e]
         /\ \A e \in DOMAIN T : DOMAIN T[e] \subseteq DOMAIN U[e]
         /\ \A e \in DOMAIN T : \A i \in DOMAIN T[e] : U[e][i] = T[e][i]
         /\ \A e \in DOMAIN T : \A i \in DOMAIN U[e] : i \notin DOMAIN T[e] => U[e][i] = F!Free /\ e = d /\ i >= LenOf(T[d])
<1>1. DOMAIN U = DOMAIN T /\ U[d] = Longer(T[d]) /\ \A e \in DOMAIN T : e # d => U[e] = T[e]
  BY DEF TreeLonger
<1>2. \A e \in DOMAIN T : e \in F!Cluster \cup {0} /\ e # rootDirStart /\ DirSlots(T[e]) /\ Indexed(T[e]) /\ NoneBehind(T[e])
  BY DEF TreeTyped
<1>3. ASSUME NEW e \in DOMAIN T
      PROVE  /\ DirSlots(U[e]) /\ Indexed(U[e]) /\ NoneBehind(U[e]) /\ UsedOf(U[e]) = UsedOf(T[e]) /\ DOMAIN T[e] \subseteq DOMAIN U[e]
             /\ \A i \in DOMAIN T[e] : U[e][i] = T[e][i]
             /\ \A i \in DOMAIN U[e] : i \notin DOMAIN T[e] => U[e][i] = F!Free /\ e = d /\ i >= LenOf(T[d])
  <2>1. CASE e = d
    <3>1. PICK s, t : s = T[e] /\ t = Longer(s) /\ t = U[e]
      BY <1>1, <2>1
    <3>2. DirSlots(s) /\ Indexed(s) /\ NoneBehind(s)
      BY <1>2, <3>1
    <3>3. DirSlots(t) /\ NoneBehind(t) /\ UsedOf(t) = UsedOf(s)
      BY <3>1, <3>2, LongerUsed
    <3>4. Extends(t, s)
      BY <3>1, <3>2, LongerIs
    <3>5. DirSlots(U[e]) /\ Indexed(U[e]) /\ NoneBehind(U[e]) /\ UsedOf(U[e]) = UsedOf(T[e]) /\ DOMAIN T[e] \subseteq DOMAIN U[e]
      BY <3>1, <3>3, <3>4 DEF Extends
    <3>6. \A i \in DOMAIN T[e] : U[e][i] = T[e][i]
      BY <3>1, <3>4 DEF Extends
    <3>7. \A i \in DOMAIN U[e] : i \notin DOMAIN T[e] => U[e][i] = F!Free /\ e = d /\ i >= LenOf(T[d])
      BY <3>1, <3>4, <2>1 DEF Extends
    <3> QED BY <3>5, <3>6, <3>7
  <2>2. CASE e # d
    BY <1>1, <1>2, <2>2
  <2> QED BY <2>1, <2>2
<1>4. TreeTyped(U)
  BY <1>1, <1>2, <1>3 DEF TreeTyped
<1>5. Entered(U) = Entered(T)
  <2>1. \A e \in DOMAIN T : {i \in DOMAIN U[e] : InUse(U[e], i)} = {i \in DOMAIN T[e] : InUse(T[e], i)}
    BY <1>3 DEF UsedOf
  <2>2. ASSUME NEW k PROVE k \in Entered(U) <=> k \in Entered(T)
    BY <1>1, <2>1 DEF Entered
  <2> QED BY <2>2 DEF Entered
<1> QED BY <1>1, <1>3, <1>4, <1>5

LEMMA HeldSameTree ==
  ASSUME NEW T, TreeTyped(T), NEW U, TreeTyped(U), Entered(U) = Entered(T), \A k \in Entered(T) : F!At(U, k) = F!At(T, k),
         NEW o, NEW gone, NEW new
  PROVE  Holding(U, o, gone, new) = Holding(T, o, gone, new)
         /\ Singles(U, Holding(U, o, gone, new)) = Singles(T, Holding(T, o, gone, new))
<1> DEFINE H == Holding(T, o, gone, new)  I == Holding(U, o, gone, new)
<1>1. HolderKeys(U, gone, new) = HolderKeys(T, gone, new)
  BY DEF HolderKeys
<1>2. ASSUME NEW k \in HolderKeys(T, gone, new) PROVE Holder(U, o, new, k) = Holder(T, o, new, k)
  <2>1. k = RootKey \/ k = NewKey \/ k \in Entered(T)
    BY DEF HolderKeys
  <2> QED BY <2>1 DEF Holder
<1>3. I = H
  BY <1>1, <1>2 DEF Holding
<1>4. ASSUME NEW k \in DOMAIN H, k # RootKey, k # NewKey PROVE F!At(U, k).kind = F!At(T, k).kind
  <2>1. k \in Entered(T)
    BY <1>4 DEF Holding, HolderKeys
  <2> QED BY <2>1
<1> HIDE DEF H, I
<1>5. Singles(U, I) = Singles(T, H)
  BY <1>3, <1>4 DEF Singles
<1> QED BY <1>3, <1>5 DEF H, I

-----------------------------------------------------------------------------
LEMMA FileLonger ==
  ASSUME NEW T, NEW U, NEW o, FileIs(T, o), DOMAIN U = DOMAIN T,
         \A e \in DOMAIN T : DOMAIN T[e] \subseteq DOMAIN U[e], \A e \in DOMAIN T : \A i \in DOMAIN T[e] : U[e][i] = T[e][i]
  PROVE  FileIs(U, o) /\ (o.open => U[o.dir][o.index] = T[o.dir][o.index])
<1>1. CASE o = F!Closed
  BY <1>1 DEF FileIs, F!Closed
<1>2. CASE Object(T, o)
  <2>1. EntryIs(T, o) /\ o.dir \in DOMAIN T /\ o.index \in DOMAIN T[o.dir]
    BY <1>2 DEF Object, EntryIs
  <2>2. U[o.dir][o.index] = T[o.dir][o.index] /\ o.index \in DOMAIN U[o.dir] /\ o.dir \in DOMAIN U
    BY <2>1
  <2>3. EntryIs(U, o)
    BY <2>1, <2>2 DEF EntryIs
  <2>4. Object(U, o)
    BY <1>2, <2>2, <2>3 DEF Object
  <2> QED BY <2>2, <2>4 DEF FileIs
<1> QED BY <1>1, <1>2 DEF FileIs

LEMMA RunGrown ==
  ASSUME NEW s, Indexed(s), NEW t, Extends(t, s), NEW c, c.index \in Nat, F!freeNeed(c.name) \in Nat, Run(s, c, 0),
         c.index < LenOf(s) + F!freeNeed(c.name)
  PROVE  Run(t, c, 0)
<1>1. PICK n, i : n = F!freeNeed(c.name) /\ i = c.index
  OBVIOUS
<1>2. n \in Nat /\ i \in Nat /\ i < LenOf(s) + n /\ LenOf(s) \in Nat /\ F!Free.kind = "free"
  BY <1>1 DEF Indexed, F!Free, F!Slot
<1>3. \A j \in DOMAIN t : j \in Nat
  BY DEF Extends, Indexed
<1>4. ASSUME NEW j \in DOMAIN t
      PROVE  /\ j < i - (n - 1) => t[j].kind # "free"
             /\ j >= i - (n - 1) /\ j < i - 0 => t[j].kind \in {"free", "deleted"}
             /\ j >= i - 0 /\ j < i => t[j].kind = "lfn"
             /\ j = i => t[j].kind \in {"free", "deleted"}
  <2>1. CASE j \in DOMAIN s
    BY <2>1, <1>1 DEF Extends, Run
  <2>2. CASE j \notin DOMAIN s
    <3>1. t[j] = F!Free /\ j >= LenOf(s) /\ j \in Nat
      BY <2>2, <1>3 DEF Extends
    <3> QED BY <3>1, <1>2
  <2> QED BY <2>1, <2>2
<1>5. i >= n - 1
  BY <1>1 DEF Run
<1> QED BY <1>1, <1>4, <1>5 DEF Run

LEMMA FreeTailLonger ==
  ASSUME F!DirectoryAssumption, program \in FatPrograms, NEW T, TreeTyped(T), NEW d \in DOMAIN T, FreeTail(T, {}), DotKinds(T, {})
  PROVE  FreeTail(TreeLonger(T, d), {}) /\ DotKinds(TreeLonger(T, d), {})
<1>1. PICK U : U = TreeLonger(T, d)
  OBVIOUS
<1>2. /\ DOMAIN U = DOMAIN T
      /\ \A e \in DOMAIN T : DOMAIN T[e] \subseteq DOMAIN U[e]
      /\ \A e \in DOMAIN T : \A i \in DOMAIN T[e] : U[e][i] = T[e][i]
      /\ \A e \in DOMAIN T : \A i \in DOMAIN U[e] : i \notin DOMAIN T[e] => U[e][i] = F!Free /\ e = d /\ i >= LenOf(T[d])
      /\ TreeTyped(U)
  BY <1>1, TreeLongerIs
<1>3. F!Free.kind = "free"
  BY DEF F!Free, F!Slot
<1>4. ASSUME NEW e \in DOMAIN U, NEW i \in DOMAIN U[e], NEW j \in DOMAIN U[e], i < j, U[e][i].kind = "free"
      PROVE  U[e][j].kind = "free"
  <2>0. i \in Nat /\ j \in Nat /\ Indexed(T[e]) /\ e \in DOMAIN T
    BY SMTT(60), <1>2 DEF TreeTyped, Indexed
  <2>1. CASE j \in DOMAIN T[e]
    <3>1. i \in DOMAIN T[e]
      BY <2>0, <2>1, <1>4 DEF Indexed
    <3>2. T[e][i].kind = "free"
      BY <3>1, <2>0, <1>2, <1>4
    <3>3. T[e][j].kind = "free"
      BY <3>1, <3>2, <2>0, <2>1, <1>4 DEF FreeTail
    <3> QED BY <3>3, <2>0, <2>1, <1>2
  <2>2. CASE j \notin DOMAIN T[e]
    BY <2>2, <2>0, <1>2, <1>3
  <2> QED BY <2>1, <2>2
<1>5. FreeTail(U, {})
  BY <1>4 DEF FreeTail
<1>6. ASSUME NEW e \in DOMAIN U, e # 0 PROVE U[e][0].kind = "dot" /\ U[e][1].kind = "dotdot"
  <2>1. T[e][0].kind = "dot" /\ T[e][1].kind = "dotdot" /\ e \in DOMAIN T
    BY <1>2, <1>6 DEF DotKinds
  <2>2. 0 \in DOMAIN T[e] /\ 1 \in DOMAIN T[e]
    BY <2>1 DEF TreeTyped, DirSlots
  <2> QED BY <2>1, <2>2, <1>2
<1>7. DotKinds(U, {})
  BY <1>6 DEF DotKinds
<1> QED BY <1>1, <1>5, <1>7

(* What a cluster that addDirCluster takes does to the tree. *)
LEMMA GrownTree ==
  ASSUME F!DirectoryAssumption, IInv, program' = program, pc = "grow", NEW d \in DOMAIN T0, NEW c \in F!Cluster, fat[c] = 0,
         MayGrow(fat, d), fat' = GrownBy(fat, d, c), F!Store(c, F!Zeroed)
  PROVE  /\ VolumeNext /\ T0' = TreeLonger(T0, d) /\ View(F!Contents', fat') /\ Good(fat')
         /\ device' = F!Contents \/ device' = device
         /\ Later(fatOnDevice, fat', FALSE) /\ Held(fat', HNow, SNow)
         /\ \A x \in DOMAIN T0 : Below(F!Contents', fat', x) = Below(F!Contents, fat, x)
<1>0. /\ program \in FatPrograms /\ Good(fat) /\ T0 = F!Tree(F!Contents, fat, 0) /\ View(F!Contents, fat) /\ TreeTyped(T0)
      /\ Sectored(F!Contents) /\ HeldP(T0, fat, file, pc, call) /\ Later(fatOnDevice, fat, SettlingAt(pc))
  BY Now
<1>1. F!Zeroed \in DirSector
  BY <1>0, TypedConstants
<1>2. /\ VolumeNext /\ F!Contents' = [F!Contents EXCEPT ![c] = F!Zeroed] /\ (device' = F!Contents \/ device' = device)
  BY <1>1, StoreIs
<1>3. d \in F!Cluster \cup {0} /\ d # rootDirStart
  BY <1>0 DEF TreeTyped
<1>4. \A e : ~RemovedNow(e)
  BY DEF RemovedNow
<1>5. FirstOf(d) \notin Targets(fat) /\ fat[FirstOf(d)] # 0 /\ \E k \in DOMAIN HNow : k \notin SNow /\ HNow[k] = FirstOf(d)
  BY <1>4, DirHeld DEF HNow, SNow
<1>6. PICK end, l2 : end = EndOf(fat, d) /\ l2 = fat' /\ l2 = GrownBy(fat, d, c)
  OBVIOUS
<1>7. /\ Good(l2) /\ c \notin Targets(fat)
      /\ F!Chain(l2, d) = Append(F!Chain(fat, d), c)
      /\ F!ChainSet(l2, d) = Plus(F!ChainSet(fat, d), c)
      /\ end \in F!Cluster /\ end # c /\ fat[end] # 0 /\ fat[end] \notin F!Cluster
      /\ ChainsKept(fat, l2, FirstOf(d))
  BY <1>0, <1>3, <1>5, <1>6, FatGrow
<1>8. F!Contents'[c] = F!Zeroed /\ (\A x \in F!Cluster : x # c => F!Contents'[x] = F!Contents[x])
  BY <1>0, <1>2 DEF Sectored
<1>9. ASSUME NEW e \in DOMAIN T0
      PROVE  e \in F!Cluster \cup {0} /\ F!ChainSet(fat, e) \subseteq F!Cluster /\ AgreeOn(F!ChainSet(fat, e), F!Contents, F!Contents') /\ c \notin F!ChainSet(fat, e)
  <2>1. e \in F!Cluster \cup {0} /\ e # rootDirStart /\ FirstOf(e) \notin Targets(fat) /\ fat[FirstOf(e)] # 0
    BY <1>0, <1>4, DirHeld DEF TreeTyped
  <2>2. \A x \in F!ChainSet(fat, e) : fat[x] # 0
    BY <2>1, <1>0, ChainFacts
  <2>3. F!ChainSet(fat, e) \subseteq F!Cluster
    BY <2>1, <1>0, ChainSetIs
  <2> QED BY <2>1, <2>2, <2>3, <1>8 DEF AgreeOn
<1>10. PICK U : U = TreeLonger(T0, d)
  OBVIOUS
<1>11. /\ DOMAIN U = DOMAIN T0 /\ TreeTyped(U) /\ U[d] = Longer(T0[d])
       /\ \A e \in DOMAIN T0 : e # d => U[e] = T0[e]
  BY <1>0, <1>10, TreeLongerIs
<1>12. ASSUME NEW e \in DOMAIN T0
       PROVE  /\ F!Slots(F!Contents', fat', e) = U[e] /\ SubdirsOf(U[e]) = SubdirsOf(T0[e]) /\ NoneData(F!ChainSet(fat', e), F!Contents')
  <2>0. T0[e] = F!Slots(F!Contents, fat, e) /\ NoneData(F!ChainSet(fat, e), F!Contents)
    BY <1>0, TreeClosed
  <2>1. CASE e = d
    <3>1. F!Slots(F!Contents', l2, d) = Longer(F!Slots(F!Contents, fat, d))
      <4>1. PICK c2 : c2 = F!Contents'
        OBVIOUS
      <4>2. AgreeOn(F!ChainSet(fat, d), F!Contents, c2) /\ c2[c] = F!Zeroed
        BY <4>1, <1>8, <1>9
      <4> QED BY <4>1, <4>2, <1>0, <1>3, <1>7, SlotsLonger
    <3>2. SubdirsOf(Longer(T0[d])) = SubdirsOf(T0[d])
      BY <1>0, LongerUsed DEF TreeTyped
    <3>3. NoneData(F!ChainSet(fat', d), F!Contents')
      <4>1. F!Contents'[c] # F!Data
        BY <1>0, <1>1, <1>8, SectorNotData
      <4>2. \A x \in F!ChainSet(fat, d) : F!Contents'[x] # F!Data
        BY <1>9, <2>0, <2>1 DEF AgreeOn, NoneData
      <4> QED BY <4>1, <4>2, <1>6, <1>7 DEF NoneData, Plus
    <3> QED BY <3>1, <3>2, <3>3, <2>0, <2>1, <1>6, <1>11
  <2>2. CASE e # d
    <3>1. FirstOf(e) # FirstOf(d) /\ FirstOf(e) \notin Targets(fat) /\ fat[FirstOf(e)] # 0
      BY <1>0, <1>3, <1>4, <2>2, DirHeld, FirstOfDistinct DEF TreeTyped
    <3>2. F!Chain(l2, e) = F!Chain(fat, e) /\ F!ChainSet(l2, e) = F!ChainSet(fat, e)
      BY <3>1, <1>7, <1>9 DEF ChainsKept
    <3>3. F!Slots(F!Contents', l2, e) = F!Slots(F!Contents, fat, e)
      BY <3>2, <1>0, <1>9, SlotsAgree
    <3>4. NoneData(F!ChainSet(l2, e), F!Contents')
      BY <3>2, <2>0, <1>9 DEF NoneData, AgreeOn
    <3> QED BY <3>3, <3>4, <2>0, <2>2, <1>6, <1>11
  <2> QED BY <2>1, <2>2
<1>13. Sectored(F!Contents')
  BY <1>2 DEF VolumeNext
<1>14. \A e \in DOMAIN T0 : Subs(F!Contents', fat', e) = Subs(F!Contents, fat, e)
  <2>1. SUFFICES ASSUME NEW e \in DOMAIN T0 PROVE Subs(F!Contents', fat', e) = Subs(F!Contents, fat, e)
    OBVIOUS
  <2>2. NoneBehind(F!Slots(F!Contents', fat', e)) /\ F!Slots(F!Contents', fat', e) = U[e]
    BY <1>11, <1>12 DEF TreeTyped
  <2>3. Subs(F!Contents', fat', e) = SubdirsOf(U[e])
    BY <2>2, <1>0, <1>9, SubsIs
  <2>4. Subs(F!Contents, fat, e) = SubdirsOf(T0[e])
    BY <1>0, TreeClosed
  <2> QED BY <2>3, <2>4, <1>12
<1>15. DOMAIN T0 = Below(F!Contents, fat, 0)
  BY <1>0, TreeClosed
<1>16. ASSUME NEW x \in DOMAIN T0
       PROVE  /\ Below(F!Contents', fat', x) = Below(F!Contents, fat, x)
              /\ F!Tree(F!Contents', fat', x) = TreeOn(F!Contents', fat', Below(F!Contents, fat, x))
  <2>1. Below(F!Contents, fat, x) \subseteq DOMAIN T0
    BY <1>0, <1>15, BelowWithin
  <2>2. x \in F!Cluster \cup {0} /\ \A e \in Below(F!Contents, fat, x) : Subs(F!Contents', fat', e) = Subs(F!Contents, fat, e)
    BY <2>1, <1>9, <1>14
  <2> QED BY <2>2, <1>0, <1>13, TreeKept
<1>17. T0' = U
  <2>1. 0 \in DOMAIN T0
    BY <1>0 DEF TreeTyped
  <2>2. T0' = TreeOn(F!Contents', fat', DOMAIN T0)
    BY <2>1, <1>0, <1>15, <1>16, PrimedTree
  <2>3. TreeOn(F!Contents', fat', DOMAIN T0) = [e \in DOMAIN T0 |-> U[e]]
    BY <1>12 DEF TreeOn
  <2>4. U = [e \in DOMAIN U |-> U[e]]
    BY <1>10 DEF TreeLonger
  <2> QED BY <2>2, <2>3, <2>4, <1>11
<1>18. View(F!Contents', fat')
  <2>1. Below(F!Contents', fat', 0) = DOMAIN T0
    BY <1>0, <1>15, <1>16 DEF TreeTyped
  <2> QED BY <2>1, <1>11, <1>12 DEF View, TreeTyped
<1>19. Later(fatOnDevice, fat', FALSE)
  <2>1. SettlingAt(pc) = FALSE
    BY DEF SettlingAt
  <2>2. Later(fatOnDevice, fat, FALSE) /\ fat \in [F!Cluster -> Link]
    BY <2>1, <1>0 DEF Good
  <2>3. 0 \notin F!Cluster
    BY <1>0, Setting
  <2>4. \A x \in F!Cluster : fat[x] \in F!Cluster => l2[x] = fat[x]
    BY <2>2, <2>3, <1>6, <1>7 DEF GrownBy
  <2>5. Later(fatOnDevice, l2, FALSE)
    BY <2>2, <2>4, <1>0, <1>7, LaterAlloc
  <2> QED BY <2>5, <1>6
<1>20. Held(fat', HNow, SNow)
  <2>1. Held(fat, HNow, SNow)
    BY <1>0 DEF HeldP, HNow, SNow
  <2>2. PICK H, single : H = HNow /\ single = SNow
    OBVIOUS
  <2>3. PICK k \in DOMAIN H \ single : H[k] = FirstOf(d)
    BY <1>5, <2>2
  <2>4. Held(l2, H, single)
    BY <2>1, <2>2, <2>3, <1>0, <1>3, <1>5, <1>6, HeldGrow
  <2> QED BY <2>2, <2>4, <1>6
<1> QED BY <1>2, <1>6, <1>7, <1>10, <1>16, <1>17, <1>18, <1>19, <1>20

LEMMA AddDirClusterKeeps ==
  ASSUME F!DirectoryAssumption, IInv, F!addDirCluster
  PROVE  IInv'
<1>0. /\ program \in FatPrograms /\ call \in Calls /\ file \in Objects /\ SetsP(T0, pc, call) /\ FileIs(T0, file)
      /\ PhaseOK(pc, T0, Inside, file, call, F!Contents, fatOnDevice, fat, m_sector) /\ TreeTyped(T0)
      /\ kept \subseteq F!Cluster /\ (\A k \in DOMAIN at : at[k] \in F!Index) /\ Good(fatOnDevice) /\ HeldP(T0, fat, file, pc, call)
  BY Now
<1>1. program' = program /\ fatOnDevice' = fatOnDevice /\ file' = file /\ at' = at /\ kept' = kept /\ pc = "grow"
  BY DEF F!addDirCluster, F!history
<1>2. GrowOK(T0, Inside, file, call)
  BY <1>0, <1>1, PhaseIs
<1>3. /\ GoneAt(pc, call) = {} /\ PendingAt(pc, call) = 0 /\ DevXAt(pc, call) = {} /\ SettlingAt(pc) = FALSE /\ RawAt(pc, call) = {}
      /\ Building(pc, call) = {}
  <2>1. pc \in PlainSteps /\ pc \notin PairSteps
    BY <1>1 DEF PlainSteps, PairSteps
  <2> QED BY <2>1, PlainStep
<1>4. FreeTail(T0, {}) /\ DotKinds(T0, {})
  BY <1>0, <1>3 DEF SetsP
<1>5. CASE F!Ends /\ UNCHANGED <<device, fat, F!cache>>
  <2>1. VolumeNext /\ F!Contents' = F!Contents /\ device' = device /\ fat' = fat
    BY <1>1, <1>5, SameCache DEF F!volume
  <2> QED BY <1>1, <1>3, <1>4, <1>5, <2>1, QuietEnds
<1>6. CASE /\ Len(F!Sectors(call.dir)) < F!MaxDirSectors
           /\ \E c \in F!FreeClusters :
                /\ fat' = [fat EXCEPT ![F!Sectors(call.dir)[Len(F!Sectors(call.dir))]] = c, ![c] = EOC]
                /\ F!Store(c, F!Zeroed)
           /\ UNCHANGED <<pc, call>>
  <2>1. PICK c, d : c \in F!Cluster /\ fat[c] = 0 /\ d = call.dir /\ fat' = GrownBy(fat, d, c) /\ F!Store(c, F!Zeroed)
    BY <1>6 DEF F!FreeClusters, F!Sectors, GrownBy, EndOf
  <2>2. MayGrow(fat, d) /\ pc' = pc /\ call' = call
    BY <1>6, <2>1 DEF MayGrow, F!Sectors
  <2>3. d \in DOMAIN T0 /\ CreateOK(T0, Inside, file, call) /\ Run(T0[d], call, 0) /\ call.index < LenOf(T0[d]) + F!freeNeed(call.name)
    BY <1>2, <2>1 DEF GrowOK, NewOK, CreateOK, LenOf
  <2>4. /\ VolumeNext /\ T0' = TreeLonger(T0, d) /\ View(F!Contents', fat') /\ Good(fat')
         /\ (device' = F!Contents \/ device' = device)
         /\ Later(fatOnDevice, fat', FALSE) /\ Held(fat', HNow, SNow)
         /\ \A x \in DOMAIN T0 : Below(F!Contents', fat', x) = Below(F!Contents, fat, x)
    BY <1>1, <2>1, <2>2, <2>3, GrownTree
  <2>5. PICK U : U = TreeLonger(T0, d)
    OBVIOUS
  <2>6. /\ DOMAIN U = DOMAIN T0 /\ TreeTyped(U) /\ Entered(U) = Entered(T0) /\ U[d] = Longer(T0[d])
        /\ \A e \in DOMAIN T0 : DOMAIN T0[e] \subseteq DOMAIN U[e]
        /\ \A e \in DOMAIN T0 : \A i \in DOMAIN T0[e] : U[e][i] = T0[e][i]
    BY <1>0, <2>3, <2>5, TreeLongerIs
  <2>7. FileIs(U, file) /\ (file.open => U[file.dir][file.index] = T0[file.dir][file.index])
    BY <1>0, <2>6, FileLonger
  <2>8. file.open /\ file.isDir => Inside' = Inside
    <3>1. SUFFICES ASSUME file.open, file.isDir PROVE Inside' = Inside
      OBVIOUS
    <3>2. file.first \in DOMAIN T0
      BY <3>1, InsideWithin
    <3> QED BY <3>2, <1>1, <2>4, PrimedInside DEF Inside
  <2>9. CreateOK(U, Inside', file, call)
    BY <2>3, <2>6, <2>7, <2>8 DEF CreateOK, RenameOK
  <2>10. Extends(U[d], T0[d]) /\ Indexed(T0[d])
    BY <1>0, <2>3, <2>6, LongerIs DEF TreeTyped
  <2>11. Run(U[d], call, 0)
    <3>1. F!freeNeed(call.name) \in Nat /\ call.index \in Nat
      BY <1>0, Setting DEF F!freeNeed, Calls
    <3> QED BY <3>1, <2>3, <2>10, RunGrown
  <2>12. GrowOK(U, Inside', file, call)
    <3>1. call.index < LenOf(U[d]) + F!freeNeed(call.name)
      <4>1. LenOf(U[d]) = LenOf(T0[d]) + F!EntriesPerSector /\ LenOf(T0[d]) \in Nat /\ F!EntriesPerSector \in Nat
        BY <1>0, <2>10, Setting DEF Extends, Indexed
      <4>2. F!freeNeed(call.name) \in Nat /\ call.index \in Nat
        BY <1>0, Setting DEF F!freeNeed, Calls
      <4> QED BY <4>1, <4>2, <2>3
    <3> QED BY <3>1, <1>2, <2>1, <2>9, <2>11 DEF GrowOK, NewOK, LenOf
  <2>13. PhaseOK(pc', T0', Inside', file', call', F!Contents', fatOnDevice', fat', m_sector')
    BY <2>12, <2>2, <2>4, <2>5, <1>1, PhaseIs
  <2>14. SetsP(U, pc', call')
    BY <2>2, <2>3, <2>5, <1>0, <1>3, <1>4, FreeTailLonger DEF SetsP
  <2>15. HeldP(U, fat', file', pc', call')
    <3>1. \A k \in Entered(T0) : F!At(U, k) = F!At(T0, k)
      <4>1. SUFFICES ASSUME NEW k \in Entered(T0) PROVE F!At(U, k) = F!At(T0, k)
        OBVIOUS
      <4>2. k[1] \in DOMAIN T0 /\ k[2] \in DOMAIN T0[k[1]]
        BY <1>0, EnteredKey
      <4> QED BY <4>2, <2>6 DEF F!At
    <3>2. HNow = Holding(T0, file, {}, 0) /\ SNow = Singles(T0, HNow)
      BY <1>3 DEF HNow, SNow, HoldsP
    <3>3. Holding(U, file, {}, 0) = Holding(T0, file, {}, 0) /\ Singles(U, Holding(U, file, {}, 0)) = Singles(T0, Holding(T0, file, {}, 0))
      BY <3>1, <1>0, <2>6, HeldSameTree
    <3> QED BY <3>2, <3>3, <1>1, <1>3, <2>2, <2>4 DEF HeldP, HoldsP
  <2>16. View(device', fatOnDevice') /\ Below(device', fatOnDevice', 0) \subseteq DOMAIN T0
    BY <1>1, <1>3, <2>4, DeviceKept
  <2>17. Later(fatOnDevice', fat', SettlingAt(pc'))
    BY <1>1, <1>3, <2>2, <2>4
  <2>18. VolumeNext /\ Good(fat') /\ View(F!Contents', fat') /\ T0' = U /\ DOMAIN U = DOMAIN T0
    BY <2>4, <2>5, <2>6
  <2> QED BY <1>0, <1>1, <2>2, <2>7, <2>13, <2>14, <2>15, <2>16, <2>17, <2>18, IInvNext
<1> QED BY <1>5, <1>6 DEF F!addDirCluster

-----------------------------------------------------------------------------
(* A free cluster is not in a directory. *)
LEMMA FreeOutside ==
  ASSUME F!DirectoryAssumption, IInv, pc # "del", NEW c \in F!Cluster, fat[c] = 0
  PROVE  /\ c \notin DOMAIN T0
         /\ \A d \in DOMAIN T0 : /\ d \in F!Cluster \cup {0} /\ F!ChainSet(fat, d) \subseteq F!Cluster /\ c \notin F!ChainSet(fat, d)
                                 /\ FirstOf(d) \notin Targets(fat) /\ fat[FirstOf(d)] # 0
                                 /\ c \notin F!ChainSet(fatOnDevice, d)
<1>0. program \in FatPrograms /\ Good(fat) /\ TreeTyped(T0)
  BY Now
<1>1. \A d : ~RemovedNow(d)
  BY DEF RemovedNow
<1>2. ASSUME NEW d \in DOMAIN T0
      PROVE  /\ d \in F!Cluster \cup {0} /\ F!ChainSet(fat, d) \subseteq F!Cluster /\ c \notin F!ChainSet(fat, d)
             /\ FirstOf(d) \notin Targets(fat) /\ fat[FirstOf(d)] # 0 /\ c \notin F!ChainSet(fatOnDevice, d)
  <2>1. d \in F!Cluster \cup {0} /\ FirstOf(d) \notin Targets(fat) /\ fat[FirstOf(d)] # 0
    BY <1>0, <1>1, DirHeld DEF TreeTyped
  <2>2. \A x \in F!ChainSet(fat, d) : fat[x] # 0
    BY <2>1, <1>0, ChainFacts
  <2>3. F!ChainSet(fat, d) \subseteq F!Cluster
    BY <2>1, <1>0, ChainSetIs
  <2>4. F!ChainSet(fatOnDevice, d) \subseteq F!ChainSet(fat, d)
    BY <1>1, MixedDir
  <2> QED BY <2>1, <2>2, <2>3, <2>4
<1>3. c \notin DOMAIN T0
  <2>1. SUFFICES ASSUME c \in DOMAIN T0 PROVE FALSE
    OBVIOUS
  <2>2. c # 0
    BY <1>0, Setting
  <2>3. FirstOf(c) = c /\ fat[FirstOf(c)] # 0
    BY <2>1, <2>2, <1>2 DEF FirstOf
  <2> QED BY <2>3
<1> QED BY <1>2, <1>3

Allocated(l, c) == [l EXCEPT ![c] = EOC]
(* A cluster that is taken for something that is not in the tree. *)
LEMMA AllocTree ==
  ASSUME F!DirectoryAssumption, IInv, program' = program, pc # "del", pc # "data", pc # "fat", NEW c \in F!Cluster, fat[c] = 0,
         fat' = Allocated(fat, c), VolumeNext, \A x \in F!Cluster : x # c => F!Contents'[x] = F!Contents[x]
  PROVE  /\ T0' = T0 /\ View(F!Contents', fat') /\ Good(fat') /\ fat'[c] = EOC
         /\ \A s : Later(fatOnDevice, fat', s)
         /\ \A x \in DOMAIN T0 : Below(F!Contents', fat', x) = Below(F!Contents, fat, x)
<1>0. /\ program \in FatPrograms /\ Good(fat) /\ T0 = F!Tree(F!Contents, fat, 0) /\ View(F!Contents, fat) /\ TreeTyped(T0)
      /\ Sectored(F!Contents) /\ Later(fatOnDevice, fat, SettlingAt(pc))
  BY Now
<1>1. \A d \in DOMAIN T0 : /\ d \in F!Cluster \cup {0} /\ F!ChainSet(fat, d) \subseteq F!Cluster /\ c \notin F!ChainSet(fat, d)
                           /\ FirstOf(d) \notin Targets(fat) /\ fat[FirstOf(d)] # 0
  BY FreeOutside
<1>2. PICK l2 : l2 = fat' /\ l2 = [fat EXCEPT ![c] = EOC]
  BY DEF Allocated
<1>3. Good(l2) /\ ChainsKept(fat, l2, 0)
  BY <1>0, <1>2, FatAlloc
<1>4. ASSUME NEW e \in DOMAIN T0
      PROVE  /\ F!Slots(F!Contents', fat', e) = F!Slots(F!Contents, fat, e) /\ F!ChainSet(fat', e) = F!ChainSet(fat, e)
             /\ AgreeOn(F!ChainSet(fat, e), F!Contents, F!Contents')
  <2>1. FirstOf(e) # 0
    BY <1>0, <1>1, Setting DEF FirstOf
  <2>2. F!Chain(l2, e) = F!Chain(fat, e) /\ F!ChainSet(l2, e) = F!ChainSet(fat, e)
    BY <1>1, <1>3, <2>1 DEF ChainsKept
  <2>3. AgreeOn(F!ChainSet(fat, e), F!Contents, F!Contents')
    BY <1>1 DEF AgreeOn
  <2> QED BY <2>2, <2>3, <1>0, <1>1, <1>2, SlotsAgree
<1>5. Sectored(F!Contents')
  BY DEF VolumeNext
<1>6. DOMAIN T0 = Below(F!Contents, fat, 0) /\ 0 \in DOMAIN T0
  BY <1>0, TreeClosed DEF TreeTyped
<1>7. ASSUME NEW x \in DOMAIN T0
      PROVE  Below(F!Contents', fat', x) = Below(F!Contents, fat, x) /\ F!Tree(F!Contents', fat', x) = F!Tree(F!Contents, fat, x)
  <2>1. Below(F!Contents, fat, x) \subseteq DOMAIN T0
    BY <1>0, <1>6, BelowWithin
  <2>2. x \in F!Cluster \cup {0} /\ \A e \in Below(F!Contents, fat, x) : F!Slots(F!Contents', fat', e) = F!Slots(F!Contents, fat, e)
    BY <2>1, <1>1, <1>4
  <2> QED BY <2>2, <1>0, <1>5, TreeSame
<1>8. T0' = T0
  BY <1>0, <1>6, <1>7, PrimedTree
<1>9. View(F!Contents', fat')
  <2>1. Below(F!Contents', fat', 0) = DOMAIN T0
    BY <1>6, <1>7
  <2>2. \A e \in DOMAIN T0 : NoneData(F!ChainSet(fat, e), F!Contents) /\ NoneBehind(F!Slots(F!Contents, fat, e))
    BY <1>0, <1>6 DEF View
  <2> QED BY <2>1, <2>2, <1>4 DEF View, NoneData, AgreeOn
<1>10. \A s : Later(fatOnDevice, fat', s)
  <2>1. SettlingAt(pc) = FALSE
    BY DEF SettlingAt
  <2>2. Later(fatOnDevice, fat, FALSE) /\ fat \in [F!Cluster -> Link]
    BY <2>1, <1>0 DEF Good
  <2>3. 0 \notin F!Cluster
    BY <1>0, Setting
  <2>4. (\A x \in F!Cluster : fat[x] \in F!Cluster => l2[x] = fat[x]) /\ fat[c] \notin F!Cluster
    BY <2>2, <2>3, <1>2
  <2>5. \A s : Later(fatOnDevice, l2, s)
    BY <2>2, <2>4, <1>0, LaterAlloc
  <2> QED BY <2>5, <1>2
<1>11. fat'[c] = EOC
  BY <1>0, <1>2 DEF Good
<1> QED BY <1>2, <1>3, <1>7, <1>8, <1>9, <1>10, <1>11

LEMMA HeldAllocated ==
  ASSUME F!DirectoryAssumption, program \in FatPrograms, NEW l, Good(l), NEW c \in F!Cluster, l[c] = 0,
         NEW H, NEW single, Held(l, H, single), NEW H2, NEW single2, NEW k,
         k \in DOMAIN H => H[k] = 0, DOMAIN H2 = DOMAIN H \cup {k}, H2[k] = c,
         \A j \in DOMAIN H \ {k} : H2[j] = H[j] /\ (H[j] # 0 /\ j \in single2 => j \in single)
  PROVE  Held(Allocated(l, c), H2, single2)
<1>1. PICK l2 : l2 = [l EXCEPT ![c] = EOC]
  OBVIOUS
<1>2. Held(l2, H2, single2)
  BY <1>1, HeldAlloc
<1> QED BY <1>1, <1>2 DEF Allocated

WithFirst(c, first) == [c EXCEPT !.first = first]
LEMMA WithFirstIs ==
  ASSUME F!DirectoryAssumption, program \in FatPrograms, NEW c \in Calls, NEW x \in F!Cluster, NEW u, u = WithFirst(c, x)
  PROVE  u \in Calls /\ u.first = x /\ u.op = c.op /\ u.dir = c.dir /\ u.name = c.name /\ u.index = c.index /\ u.saved = c.saved
  BY DEF Calls, WithFirst

LEMMA NewDirectoryKeeps ==
  ASSUME F!DirectoryAssumption, IInv, F!newDirectory
  PROVE  IInv'
<1>0. /\ program \in FatPrograms /\ call \in Calls /\ file \in Objects /\ SetsP(T0, pc, call) /\ FileIs(T0, file)
      /\ PhaseOK(pc, T0, Inside, file, call, F!Contents, fatOnDevice, fat, m_sector) /\ TreeTyped(T0) /\ Good(fat)
      /\ kept \subseteq F!Cluster /\ (\A k \in DOMAIN at : at[k] \in F!Index) /\ Good(fatOnDevice) /\ HeldP(T0, fat, file, pc, call)
      /\ Sectored(F!Contents)
  BY Now
<1>1. program' = program /\ fatOnDevice' = fatOnDevice /\ file' = file /\ at' = at /\ kept' = kept /\ pc = "newdir"
  BY DEF F!newDirectory, F!history
<1>2. NewdirOK(T0, Inside, file, call)
  BY <1>0, <1>1, PhaseIs
<1>3. /\ GoneAt(pc, call) = {} /\ PendingAt(pc, call) = 0 /\ DevXAt(pc, call) = {} /\ SettlingAt(pc) = FALSE /\ RawAt(pc, call) = {}
      /\ Building(pc, call) = {}
  <2>1. pc \in PlainSteps /\ pc \notin PairSteps
    BY <1>1 DEF PlainSteps, PairSteps
  <2> QED BY <2>1, PlainStep
<1>4. FreeTail(T0, {}) /\ DotKinds(T0, {})
  BY <1>0, <1>3 DEF SetsP
<1>5. CASE F!Ends /\ UNCHANGED <<fat, device, F!cache>>
  <2>1. VolumeNext /\ F!Contents' = F!Contents /\ device' = device /\ fat' = fat
    BY <1>1, <1>5, SameCache DEF F!volume
  <2> QED BY <1>1, <1>3, <1>4, <1>5, <2>1, QuietEnds
<1>6. CASE \E c \in F!FreeClusters :
             /\ fat' = [fat EXCEPT ![c] = EOC]
             /\ F!Store(c, F!Zeroed)
             /\ F!Goes("newentry", [call EXCEPT !.first = c])
  <2>1. PICK c \in F!Cluster : fat[c] = 0 /\ fat' = Allocated(fat, c) /\ F!Store(c, F!Zeroed) /\ pc' = "newentry" /\ call' = WithFirst(call, c)
    BY <1>6 DEF F!FreeClusters, Allocated, F!Goes, WithFirst
  <2>2. /\ call' \in Calls /\ call'.first = c /\ call'.op = call.op /\ call'.dir = call.dir /\ call'.name = call.name
        /\ call'.index = call.index /\ call'.saved = call.saved
    BY <1>0, <2>1, WithFirstIs
  <2>3. F!Zeroed \in DirSector
    BY <1>0, TypedConstants
  <2>4. VolumeNext /\ F!Contents' = [F!Contents EXCEPT ![c] = F!Zeroed] /\ (device' = F!Contents \/ device' = device)
    BY <2>1, <2>3, StoreIs
  <2>5. F!Contents'[c] = F!Zeroed /\ (\A x \in F!Cluster : x # c => F!Contents'[x] = F!Contents[x])
    BY <1>0, <2>4 DEF Sectored
  <2>6. /\ T0' = T0 /\ View(F!Contents', fat') /\ Good(fat') /\ fat'[c] = EOC
        /\ \A s : Later(fatOnDevice, fat', s)
        /\ \A x \in DOMAIN T0 : Below(F!Contents', fat', x) = Below(F!Contents, fat, x)
    BY <1>1, <2>1, <2>4, <2>5, AllocTree
  <2>7. c \notin DOMAIN T0 /\ c # 0
    BY <1>0, <1>1, <2>1, FreeOutside, Setting
  <2>8. GoneAt(pc', call') = {} /\ PendingAt(pc', call') = c /\ DevXAt(pc', call') = {} /\ RawAt(pc', call') = {} /\ Building(pc', call') = {}
    BY <2>1, <2>2, BuildingNone DEF GoneAt, PendingAt, DevXAt, RawAt, PhaseOf
  <2>9. HeldP(T0, fat', file', pc', call')
    <3>1. PICK H, H2, single, single2 : /\ H = Holding(T0, file, {}, 0) /\ H2 = Holding(T0, file, {}, c)
                                        /\ single = Singles(T0, H) /\ single2 = Singles(T0, H2)
      OBVIOUS
    <3>2. Held(fat, H, single)
      BY <3>1, <1>0, <1>3 DEF HeldP, HoldsP
    <3>3. NewKey \notin DOMAIN H /\ NewKey \in DOMAIN H2 /\ H2[NewKey] = c
      BY <3>1, <1>0, <2>7, HoldingIs
    <3>4. DOMAIN H2 = DOMAIN H \cup {NewKey}
      BY <3>1, <2>7 DEF Holding, HolderKeys
    <3>5. ASSUME NEW j \in DOMAIN H \ {NewKey} PROVE H2[j] = H[j] /\ (j \in single2 => j \in single)
      <4>1. j \in DOMAIN H2
        BY <3>4
      <4>2. H2[j] = H[j]
        BY <3>1, <4>1, <3>5 DEF Holding, Holder
      <4> QED BY <4>1, <4>2, <3>1 DEF Singles
    <3>6. Held(Allocated(fat, c), H2, single2)
      <4>1. PICK k : k = NewKey
        OBVIOUS
      <4>2. /\ k \in DOMAIN H => H[k] = 0
            /\ DOMAIN H2 = DOMAIN H \cup {k} /\ H2[k] = c
            /\ \A j \in DOMAIN H \ {k} : H2[j] = H[j] /\ (H[j] # 0 /\ j \in single2 => j \in single)
        BY <4>1, <3>3, <3>4, <3>5
      <4> QED BY <4>2, <3>2, <1>0, <2>1, HeldAllocated
    <3> QED BY <3>1, <3>6, <1>1, <2>1, <2>8 DEF HeldP, HoldsP
  <2>10. NewdirOK(T0, Inside', file, call')
    <3>1. file.open /\ file.isDir => Inside' = Inside
      <4>1. SUFFICES ASSUME file.open, file.isDir PROVE Inside' = Inside
        OBVIOUS
      <4>2. file.first \in DOMAIN T0
        BY <4>1, InsideWithin
      <4> QED BY <4>2, <1>1, <2>6, PrimedInside DEF Inside
    <3>2. CreateOK(T0, Inside', file, call')
      BY <3>1, <1>2, <2>2 DEF NewdirOK, CreateOK, RenameOK
    <3>3. CreatesDir(file, call') /\ MadeIs(T0, file, call', "file", 0)
      BY <1>2, <2>2 DEF NewdirOK, CreatesDir, MadeIs
    <3> QED BY <3>2, <3>3 DEF NewdirOK
  <2>11. NewentryOK(T0, Inside', file, call', F!Contents') /\ fat'[call'.first] = EOC
    BY <2>2, <2>5, <2>6, <2>7, <2>10 DEF NewentryOK
  <2>12. PhaseOK(pc', T0', Inside', file', call', F!Contents', fatOnDevice', fat', m_sector')
    BY <2>11, <2>1, <2>6, <1>1, PhaseIs
  <2>13. SetsP(T0, pc', call')
    BY <1>4, <2>8 DEF SetsP
  <2>14. View(device', fatOnDevice') /\ Below(device', fatOnDevice', 0) \subseteq DOMAIN T0
    BY <1>1, <1>3, <2>4, DeviceKept
  <2>15. Later(fatOnDevice', fat', SettlingAt(pc'))
    BY <1>1, <2>6
  <2> QED BY <1>0, <1>1, <2>2, <2>4, <2>6, <2>9, <2>12, <2>13, <2>14, <2>15, IInvNext
<1> QED BY <1>5, <1>6 DEF F!newDirectory

-----------------------------------------------------------------------------
Taken(o, c) == [o EXCEPT !.first = c, !.dirty = TRUE]
TakenFacts(u, o, c) ==
  /\ u \in Objects /\ u.first = c /\ u.dirty = TRUE /\ u.open = o.open /\ u.isDir = o.isDir /\ u.dir = o.dir
  /\ u.index = o.index /\ u.lfnOrd = o.lfnOrd
LEMMA TakenIs ==
  ASSUME F!DirectoryAssumption, program \in FatPrograms, NEW o \in Objects, NEW c \in F!Cluster, NEW u, u = Taken(o, c)
  PROVE  TakenFacts(u, o, c)
  BY DEF Taken, Objects, TakenFacts

Overwritten(dev, c) == [dev EXCEPT ![c] = F!Data]
LEMMA WrittenAround ==
  ASSUME F!DirectoryAssumption, IInv, NEW c \in F!Cluster, device' = Overwritten(device, c),
         IF m_sector = c THEN F!Clean ELSE UNCHANGED F!cache
  PROVE  /\ VolumeNext /\ F!Contents'[c] = F!Data
         /\ \A x \in F!Cluster : x # c => F!Contents'[x] = F!Contents[x] /\ device'[x] = device[x]
<1>0. program \in FatPrograms /\ Sectored(device) /\ CacheTyped(m_sector, m_buffer) /\ 0 \notin F!Cluster
  BY Now, Setting
<1>1. Sectored(device') /\ device'[c] = F!Data /\ \A x \in F!Cluster : x # c => device'[x] = device[x]
  BY <1>0 DEF Overwritten, Sectored
<1>2. CASE m_sector = c
  <2>1. m_sector' = 0 /\ m_buffer' = F!Data
    BY <1>2 DEF F!Clean
  <2>2. VolumeNext
    BY <1>0, <1>1, <2>1, VolumeFrom DEF CacheTyped
  <2>3. F!Contents' = device'
    BY <2>1 DEF F!Contents
  <2>4. \A x \in F!Cluster : x # c => F!Contents[x] = device[x]
    BY <1>0, <1>2, ContentsIs, ContentsSectored
  <2> QED BY <1>1, <2>2, <2>3, <2>4
<1>3. CASE m_sector # c
  <2>1. m_sector' = m_sector /\ m_buffer' = m_buffer
    BY <1>3 DEF F!cache
  <2>2. VolumeNext
    BY <1>0, <1>1, <2>1, VolumeFrom
  <2>3. CASE m_sector = 0
    <3>1. F!Contents' = device' /\ F!Contents = device
      BY <2>1, <2>3 DEF F!Contents
    <3> QED BY <3>1, <1>1, <2>2
  <2>4. CASE m_sector # 0
    <3>1. F!Contents' = [device' EXCEPT ![m_sector] = m_buffer] /\ F!Contents = [device EXCEPT ![m_sector] = m_buffer]
      BY <2>1, <2>4 DEF F!Contents
    <3> QED BY <3>1, <1>0, <1>1, <1>3, <2>2 DEF Sectored
  <2> QED BY <2>3, <2>4
<1> QED BY <1>2, <1>3

(* The device, when a cluster is written that no directory has. *)
LEMMA DeviceAround ==
  ASSUME F!DirectoryAssumption, IInv, pc = "idle", NEW c \in F!Cluster, fat[c] = 0, Sectored(device'),
         \A x \in F!Cluster : x # c => device'[x] = device[x], fatOnDevice' = fatOnDevice
  PROVE  View(device', fatOnDevice') /\ Below(device', fatOnDevice', 0) \subseteq DOMAIN T0
<1>0. /\ program \in FatPrograms /\ Sectored(device) /\ DeviceP(device, fatOnDevice, T0, pc, call) /\ TreeTyped(T0)
      /\ 0 \in DOMAIN T0
  BY Now DEF TreeTyped
<1>1. View(device, fatOnDevice) /\ Below(device, fatOnDevice, 0) \subseteq DOMAIN T0
  BY <1>0, IdleNow DEF DeviceP
<1>2. ASSUME NEW d \in Below(device, fatOnDevice, 0)
      PROVE  /\ F!Slots(device', fatOnDevice, d) = F!Slots(device, fatOnDevice, d)
             /\ AgreeOn(F!ChainSet(fatOnDevice, d), device, device')
  <2>1. d \in F!Cluster \cup {0} /\ c \notin F!ChainSet(fatOnDevice, d)
    BY <1>1, FreeOutside
  <2>2. F!ChainSet(fatOnDevice, d) \subseteq F!Cluster
    BY <2>1, <1>0, ChainSetIs
  <2>3. AgreeOn(F!ChainSet(fatOnDevice, d), device, device')
    BY <2>1, <2>2 DEF AgreeOn
  <2> QED BY <2>1, <2>3, <1>0, SlotsAgree
<1>3. Below(device', fatOnDevice, 0) = Below(device, fatOnDevice, 0)
  <2>1. 0 \in F!Cluster \cup {0}
    OBVIOUS
  <2> QED BY <2>1, <1>0, <1>2, TreeSame
<1>4. View(device', fatOnDevice)
  BY <1>1, <1>2, <1>3 DEF View, NoneData, AgreeOn
<1> QED BY <1>1, <1>3, <1>4

LEMMA WriteKeeps ==
  ASSUME F!DirectoryAssumption, IInv, F!write
  PROVE  IInv'
<1>0. /\ program \in FatPrograms /\ call \in Calls /\ file \in Objects /\ SetsP(T0, pc, call) /\ FileIs(T0, file)
      /\ PhaseOK(pc, T0, Inside, file, call, F!Contents, fatOnDevice, fat, m_sector) /\ TreeTyped(T0) /\ Good(fat)
      /\ kept \subseteq F!Cluster /\ (\A k \in DOMAIN at : at[k] \in F!Index) /\ Good(fatOnDevice) /\ HeldP(T0, fat, file, pc, call)
  BY Now
<1>1. PICK c \in F!Cluster :
        /\ pc = "idle" /\ file.write /\ file.first = 0 /\ fat[c] = 0 /\ fat' = Allocated(fat, c)
        /\ device' = Overwritten(device, c) /\ file' = Taken(file, c)
        /\ (IF m_sector = c THEN F!Clean ELSE UNCHANGED F!cache)
        /\ program' = program /\ fatOnDevice' = fatOnDevice /\ pc' = pc /\ call' = call /\ at' = at /\ kept' = kept
  BY DEF F!write, F!FreeClusters, Allocated, Overwritten, Taken, F!history
<1>2. Object(T0, file) /\ file.open /\ file.isDir = FALSE
  <2>1. Object(T0, file)
    BY <1>0, <1>1 DEF FileIs, F!Closed
  <2> QED BY <2>1, <1>0, <1>1 DEF Object, EntryIs, Objects
<1>3. /\ VolumeNext /\ F!Contents'[c] = F!Data
      /\ \A x \in F!Cluster : x # c => F!Contents'[x] = F!Contents[x] /\ device'[x] = device[x]
  BY <1>1, WrittenAround
<1>4. /\ T0' = T0 /\ View(F!Contents', fat') /\ Good(fat') /\ fat'[c] = EOC
      /\ \A s : Later(fatOnDevice, fat', s)
  BY <1>1, <1>3, AllocTree
<1>5. View(device', fatOnDevice') /\ Below(device', fatOnDevice', 0) \subseteq DOMAIN T0
  <2>1. Sectored(device')
    BY <1>3 DEF VolumeNext
  <2> QED BY <2>1, <1>1, <1>3, DeviceAround
<1>6. /\ file' \in Objects /\ file'.first = c /\ file'.dirty = TRUE /\ file'.open = file.open /\ file'.isDir = file.isDir
      /\ file'.dir = file.dir /\ file'.index = file.index /\ file'.lfnOrd = file.lfnOrd
  <2>1. PICK u : u = file' /\ u = Taken(file, c)
    BY <1>1
  <2>2. TakenFacts(u, file, c)
    BY <1>0, <2>1, TakenIs
  <2> QED BY <2>1, <2>2, Zenon DEF TakenFacts
<1>7. FileIs(T0, file')
  <2>1. EntryIs(T0, file') /\ LfnOrdOK(file')
    BY <1>2, <1>6 DEF Object, EntryIs, LfnOrdOK
  <2> QED BY <2>1, <1>2, <1>6 DEF FileIs, Object
<1>8. call = F!NoCall /\ GoneAt(pc, call) = {} /\ PendingAt(pc, call) = 0
  BY <1>1, IdleNow
<1>9. PhaseOK(pc', T0', Inside', file', call', F!Contents', fatOnDevice', fat', m_sector')
  BY <1>1, <1>8, PhaseIs
<1>10. HeldP(T0, fat', file', pc', call')
  <2>1. PICK H, H2, single, single2, k : /\ H = Holding(T0, file, {}, 0) /\ H2 = Holding(T0, file', {}, 0)
                                        /\ single = Singles(T0, H) /\ single2 = Singles(T0, H2) /\ k = <<file.dir, file.index>>
    OBVIOUS
  <2>2. Held(fat, H, single)
    BY <2>1, <1>0, <1>8 DEF HeldP, HoldsP
  <2>3. k \in Entered(T0) /\ k # RootKey /\ k # NewKey
    <3>1. k[1] \in DOMAIN T0 /\ k[2] \in UsedOf(T0[k[1]])
      BY <2>1, <1>2 DEF Object, EntryIs, UsedOf, InUse, F!isFatFileOrSubdir
    <3>2. k \in Entered(T0)
      BY <3>1, <2>1, EnteredIs
    <3> QED BY <3>2, <1>0, EnteredKey
  <2>4. DOMAIN H2 = DOMAIN H
    BY <2>1 DEF Holding
  <2>5. k \in DOMAIN H /\ H[k] = 0 /\ H2[k] = c
    <3>1. EntryFirst(T0, file, k) = 0 /\ EntryFirst(T0, file', k) = c
      BY <1>1, <1>2, <1>6, <2>1 DEF EntryFirst
    <3> QED BY <3>1, <1>0, <2>1, <2>3, HoldingIs
  <2>6. ASSUME NEW j \in DOMAIN H \ {k} PROVE H2[j] = H[j] /\ (j \in single2 => j \in single)
    <3>1. Holder(T0, file', 0, j) = Holder(T0, file, 0, j)
      BY <1>6, <2>1, <2>6 DEF Holder
    <3>2. H2[j] = H[j]
      BY <3>1, <2>1, <2>4 DEF Holding
    <3> QED BY <3>2, <2>1, <2>4 DEF Singles
  <2>7. Held(Allocated(fat, c), H2, single2)
    <3>1. /\ k \in DOMAIN H => H[k] = 0
          /\ DOMAIN H2 = DOMAIN H \cup {k} /\ H2[k] = c
          /\ \A j \in DOMAIN H \ {k} : H2[j] = H[j] /\ (H[j] # 0 /\ j \in single2 => j \in single)
      BY <2>4, <2>5, <2>6
    <3> QED BY <3>1, <2>2, <1>0, <1>1, HeldAllocated
  <2> QED BY <2>1, <2>7, <1>1, <1>8 DEF HeldP, HoldsP
<1>11. SetsP(T0, pc', call') /\ Later(fatOnDevice', fat', SettlingAt(pc'))
  BY <1>0, <1>1, <1>4
<1> QED BY <1>0, <1>1, <1>3, <1>4, <1>5, <1>6, <1>7, <1>9, <1>10, <1>11, IInvNext

-----------------------------------------------------------------------------
Removing(o) == [F!NoCall EXCEPT !.op = "remove", !.old = o]
LEMMA RemovingIs ==
  ASSUME F!DirectoryAssumption, program \in FatPrograms, NEW o \in Objects, NEW u, u = Removing(o)
  PROVE  u \in Calls /\ u.op = "remove" /\ u.old = o /\ u.then = "idle"
<1>1. F!NoCall \in Calls
  BY TypedConstants
<1>2. u = [F!NoCall EXCEPT !.op = "remove", !.old = o]
  BY DEF Removing
<1>3. u.op = "remove" /\ u.old = o /\ u.then = "idle"
  BY <1>2 DEF F!NoCall
<1>4. u \in Calls
  BY <1>1, <1>2 DEF Calls
<1> QED BY <1>3, <1>4

(* The calls of remove() and rmdir() that go on to delete the entry. *)
LEMMA BeginRemoveIs ==
  ASSUME F!DirectoryAssumption, IInv, file.open, F!BeginRemove, NEW k, k = <<file.dir, file.index>>
  PROVE  /\ program' = program /\ fatOnDevice' = fatOnDevice /\ at' = at /\ kept' \subseteq kept
         /\ file' = F!Closed /\ pc' = "del" /\ call' \in Calls /\ call'.op = "remove" /\ call'.old = file
         /\ GoneAt(pc', call') = {k} /\ PendingAt(pc', call') = 0 /\ RawAt(pc', call') = {} /\ Building(pc', call') = {}
         /\ DevXAt(pc', call') = {} /\ SettlingAt(pc') = TRUE
         /\ F!Closed \in Objects /\ FileIs(T0, F!Closed) /\ OldIs(T0, call')
         /\ k \in Entered(T0) /\ k # RootKey /\ k # NewKey /\ EntryFirst(T0, file, k) = file.first
         /\ F!At(T0, k).kind = (IF file.isDir THEN "subdir" ELSE "file")
<1>0. program \in FatPrograms /\ file \in Objects /\ FileIs(T0, file) /\ TreeTyped(T0)
  BY Now
<1>1. /\ program' = program /\ fatOnDevice' = fatOnDevice /\ at' = at /\ kept' = kept \ {file.first}
      /\ file' = F!Closed /\ pc' = "del" /\ call' = Removing(file)
  BY DEF F!BeginRemove, F!Goes, Removing
<1>2. PICK u : u = call' /\ u = Removing(file)
  BY <1>1
<1>3. u \in Calls /\ u.op = "remove" /\ u.old = file /\ u.then = "idle"
  BY <1>0, <1>2, RemovingIs
<1>4. /\ GoneAt(pc', call') = {k} /\ PendingAt(pc', call') = 0 /\ RawAt(pc', call') = {} /\ Building(pc', call') = {}
      /\ DevXAt(pc', call') = {} /\ SettlingAt(pc') = TRUE
  <2>1. GoneAt("del", u) = {k} /\ PendingAt("del", u) = 0 /\ RawAt("del", u) = {} /\ DevXAt("del", u) = {}
    BY <1>3 DEF GoneAt, PendingAt, RawAt, DevXAt, PhaseOf
  <2>2. Building("del", u) = {}
    BY BuildingNone
  <2>3. SettlingAt("del") = TRUE
    BY DEF SettlingAt
  <2> QED BY <2>1, <2>2, <2>3, <1>1, <1>2
<1>5. F!Closed \in Objects /\ FileIs(T0, F!Closed)
  BY <1>0, TypedConstants DEF FileIs
<1>6. Object(T0, file)
  <2>1. file # F!Closed
    BY DEF F!Closed
  <2> QED BY <2>1, <1>0 DEF FileIs
<1>7. OldIs(T0, call')
  BY <1>2, <1>3, <1>6 DEF OldIs, Object
<1>8. k[1] = file.dir /\ k[2] = file.index /\ F!At(T0, k) = T0[file.dir][file.index]
  BY DEF F!At
<1>9. F!At(T0, k).kind = (IF file.isDir THEN "subdir" ELSE "file")
  BY <1>6, <1>8 DEF Object, EntryIs
<1>10. k \in Entered(T0)
  <2>1. k[1] \in DOMAIN T0 /\ k[2] \in UsedOf(T0[k[1]])
    BY <1>6, <1>8 DEF Object, EntryIs, UsedOf, InUse, F!isFatFileOrSubdir
  <2> QED BY <2>1, <1>8, EnteredIs
<1>11. k # RootKey /\ k # NewKey
  BY <1>0, <1>10, EnteredKey
<1>12. EntryFirst(T0, file, k) = file.first
  BY DEF EntryFirst
<1> QED BY <1>1, <1>2, <1>3, <1>4, <1>5, <1>7, <1>9, <1>10, <1>11, <1>12

(* The entry k holds nothing any more. *)
WithoutHolder(H, single, H2, single2, k) ==
  /\ k \in DOMAIN H /\ k # RootKey /\ DOMAIN H2 = DOMAIN H \ {k}
  /\ RootKey \in DOMAIN H /\ H[RootKey] = rootDirStart
  /\ \A j \in DOMAIN H2 : H2[j] = H[j] /\ (j \in single2 => j \in single)
LEMMA FreedHolder ==
  ASSUME F!DirectoryAssumption, program \in FatPrograms, NEW l, Good(l), NEW H, NEW single, NEW H2, NEW single2, NEW k,
         Held(l, H, single), WithoutHolder(H, single, H2, single2, k), NEW c, c = H[k], c # 0
  PROVE  c \in F!Cluster /\ c # rootDirStart /\ c \notin Targets(l) /\ l[c] # 0 /\ Held(Freed(l, c), H2, single2)
<1>1. k \in DOMAIN H /\ k # RootKey /\ RootKey \in DOMAIN H /\ H[RootKey] = rootDirStart
  BY DEF WithoutHolder
<1>2. H[k] \in F!Cluster /\ H[k] \notin Targets(l) /\ l[H[k]] # 0
  BY <1>1, HeldHead
<1>3. H[k] # rootDirStart
  BY <1>1 DEF Held
<1>4. c \in F!Cluster /\ c # rootDirStart /\ H[k] = c
  BY <1>2, <1>3
<1>5. DOMAIN H2 \cup {k} = DOMAIN H /\ (k \in DOMAIN H2 => H2[k] = 0)
  BY <1>1 DEF WithoutHolder
<1>6. \A j \in DOMAIN H2 \ {k} : H2[j] = H[j] /\ (H[j] # 0 /\ j \in single2 => j \in single)
  BY DEF WithoutHolder
<1>7. Held(Freed(l, c), H2, single2)
  BY <1>1, <1>4, <1>5, <1>6, HeldFreed
<1> QED BY <1>2, <1>4, <1>7

LEMMA EmptyHolder ==
  ASSUME NEW l, NEW H, NEW single, NEW H2, NEW single2, NEW k,
         Held(l, H, single), WithoutHolder(H, single, H2, single2, k), H[k] = 0
  PROVE  Held(l, H2, single2)
<1>1. \A j \in DOMAIN H2 : H2[j] # 0 => j \in DOMAIN H /\ H[j] = H2[j] /\ (j \in single2 => j \in single)
  BY DEF WithoutHolder
<1>2. \A j \in DOMAIN H : H[j] # 0 => j \in DOMAIN H2 /\ H2[j] = H[j]
  BY DEF WithoutHolder
<1> QED BY <1>1, <1>2, HeldSame

LEMMA RemovedHolds ==
  ASSUME NEW T, TreeTyped(T), NEW o, NEW k, o.open, k = <<o.dir, o.index>>,
         k \in Entered(T), NEW H, NEW single, H = Holding(T, o, {}, 0), single = Singles(T, H),
         NEW H2, NEW single2, H2 = Holding(T, F!Closed, {k}, 0), single2 = Singles(T, H2)
  PROVE  WithoutHolder(H, single, H2, single2, k) /\ H[k] = o.first
<1>1. k # RootKey /\ k # NewKey /\ k \notin {}
  BY EnteredKey
<1>2. k \in DOMAIN H /\ H[k] = o.first
  BY <1>1, HoldingIs DEF EntryFirst
<1>3. DOMAIN H2 = DOMAIN H \ {k}
  BY <1>1 DEF Holding, HolderKeys
<1>4. ASSUME NEW j \in DOMAIN H2 PROVE j \in DOMAIN H /\ j # k /\ H2[j] = H[j] /\ (j \in single2 => j \in single)
  <2>1. j \in DOMAIN H /\ j # k
    BY <1>3, <1>4
  <2>2. H2[j] = Holder(T, F!Closed, 0, j) /\ H[j] = Holder(T, o, 0, j)
    BY <1>4, <2>1 DEF Holding
  <2>3. H2[j] = H[j]
    BY <2>1, <2>2 DEF Holder, F!Closed
  <2> QED BY <2>1, <2>3 DEF Singles
<1>5. RootKey \in DOMAIN H /\ H[RootKey] = rootDirStart
  BY HoldingIs
<1> QED BY <1>1, <1>2, <1>3, <1>4, <1>5 DEF WithoutHolder

LEMMA RemovedHeld ==
  ASSUME F!DirectoryAssumption, program \in FatPrograms, NEW l, Good(l), NEW T, TreeTyped(T), NEW o, NEW k, o.open, k = <<o.dir, o.index>>,
         k \in Entered(T), NEW H, NEW single, H = Holding(T, o, {}, 0), single = Singles(T, H), Held(l, H, single),
         NEW H2, NEW single2, H2 = Holding(T, F!Closed, {k}, 0), single2 = Singles(T, H2)
  PROVE  /\ o.first = 0 => Held(l, H2, single2)
         /\ o.first # 0 => /\ o.first \in F!Cluster /\ o.first # rootDirStart /\ o.first \notin Targets(l) /\ l[o.first] # 0
                           /\ Held(Freed(l, o.first), H2, single2)
         /\ k \in DOMAIN H /\ H[k] = o.first
<1>1. WithoutHolder(H, single, H2, single2, k) /\ H[k] = o.first
  BY RemovedHolds
<1>2. k \in DOMAIN H /\ DOMAIN H2 = DOMAIN H \ {k}
  BY <1>1 DEF WithoutHolder
<1>3. ASSUME o.first = 0 PROVE Held(l, H2, single2)
  BY <1>1, <1>3, EmptyHolder
<1>4. ASSUME o.first # 0
      PROVE  /\ o.first \in F!Cluster /\ o.first # rootDirStart /\ o.first \notin Targets(l) /\ l[o.first] # 0
             /\ Held(Freed(l, o.first), H2, single2)
  <2>1. PICK c : c = o.first
    OBVIOUS
  <2>2. c = H[k] /\ c # 0
    BY <1>1, <1>4, <2>1
  <2> QED BY <1>1, <2>1, <2>2, FreedHolder
<1> QED BY <1>1, <1>2, <1>3, <1>4

LEMMA RemoveKeeps ==
  ASSUME F!DirectoryAssumption, IInv, F!remove
  PROVE  IInv'
<1>0. /\ program \in FatPrograms /\ call \in Calls /\ file \in Objects /\ FileIs(T0, file) /\ TreeTyped(T0) /\ Good(fat)
      /\ kept \subseteq F!Cluster /\ (\A k \in DOMAIN at : at[k] \in F!Index) /\ Good(fatOnDevice) /\ HeldP(T0, fat, file, pc, call)
      /\ View(F!Contents, fat) /\ Later(fatOnDevice, fat, SettlingAt(pc)) /\ DeviceP(device, fatOnDevice, T0, pc, call)
      /\ T0 = F!Tree(F!Contents, fat, 0)
      /\ Sectored(device) /\ CacheTyped(m_sector, m_buffer)
  BY Now
<1>1. pc = "idle" /\ file.write /\ F!BeginRemove /\ device' = device /\ m_sector' = m_sector /\ m_buffer' = m_buffer
  BY DEF F!remove, F!cache
<1>2. Object(T0, file) /\ file.open /\ file.isDir = FALSE
  <2>1. Object(T0, file)
    BY <1>0, <1>1 DEF FileIs, F!Closed
  <2> QED BY <2>1, <1>0, <1>1 DEF Object, EntryIs, Objects
<1>3. PICK k : k = <<file.dir, file.index>>
  OBVIOUS
<1>4. /\ program' = program /\ fatOnDevice' = fatOnDevice /\ at' = at /\ kept' \subseteq kept
      /\ file' = F!Closed /\ pc' = "del" /\ call' \in Calls /\ call'.op = "remove" /\ call'.old = file
      /\ GoneAt(pc', call') = {k} /\ PendingAt(pc', call') = 0 /\ RawAt(pc', call') = {} /\ Building(pc', call') = {}
      /\ DevXAt(pc', call') = {} /\ SettlingAt(pc') = TRUE
      /\ F!Closed \in Objects /\ FileIs(T0, F!Closed) /\ OldIs(T0, call')
      /\ k \in Entered(T0) /\ F!At(T0, k).kind = "file" /\ k # RootKey /\ k # NewKey
  BY <1>1, <1>2, <1>3, BeginRemoveIs
<1>5. /\ GoneAt(pc, call) = {} /\ PendingAt(pc, call) = 0 /\ SettlingAt(pc) = FALSE /\ DevXAt(pc, call) = {}
      /\ FreeTail(T0, {}) /\ DotKinds(T0, {})
  BY <1>1, IdleNow
<1>6. VolumeNext /\ F!Contents' = F!Contents
  <2>1. VolumeNext
    BY <1>0, <1>1, <1>4, VolumeFrom, PrimedSetting DEF Sectored, CacheTyped
  <2> QED BY <2>1, <1>1 DEF F!Contents
<1>7. PICK H, H2, single, single2 : /\ H = Holding(T0, file, {}, 0) /\ H2 = Holding(T0, F!Closed, {k}, 0)
                                    /\ single = Singles(T0, H) /\ single2 = Singles(T0, H2)
  OBVIOUS
<1>8. Held(fat, H, single) /\ HNow = H /\ SNow = single
  BY <1>7, <1>0, <1>5 DEF HeldP, HoldsP, HNow, SNow
<1>9. /\ file.first = 0 => Held(fat, H2, single2)
      /\ file.first # 0 => Held(Freed(fat, file.first), H2, single2)
      /\ k \in DOMAIN H /\ H[k] = file.first
  BY <1>0, <1>2, <1>3, <1>4, <1>7, <1>8, RemovedHeld
<1>10. fat' = F!FreeChain(file.first)
  BY <1>1 DEF F!BeginRemove
<1>11. /\ Good(fat') /\ T0' = T0 /\ View(F!Contents', fat') /\ Later(fatOnDevice, fat', TRUE) /\ Held(fat', H2, single2)
  <2>0. Later(fatOnDevice, fat, FALSE)
    BY <1>0, <1>5
  <2>1. CASE file.first = 0
    <3>1. fat' = fat
      BY <1>10, <2>1 DEF F!FreeChain
    <3>2. T0' = T0
      BY <3>1, <1>0, <1>4, <1>6, PrimedTree
    <3>3. Later(fatOnDevice, fat', TRUE)
      BY <2>0, <3>1, LaterSettling
    <3> QED BY <3>1, <3>2, <3>3, <2>1, <1>0, <1>4, <1>6, <1>9
  <2>2. CASE file.first # 0
    <3>1. k \in SNow
      BY <1>4, <1>7, <1>8, <1>9, HoldingIs, <1>0
    <3>2. HNow[k] = file.first /\ pc # "del"
      BY <1>1, <1>8, <1>9
    <3>3. PICK c : c = file.first
      OBVIOUS
    <3>4. /\ fat' = Freed(fat, c) /\ Good(fat') /\ T0' = T0 /\ View(F!Contents', fat')
          /\ \A s : Later(fatOnDevice, fat, FALSE) => Later(fatOnDevice, fat', s)
      BY <3>1, <3>2, <3>3, <2>2, <1>4, <1>6, <1>10, FreeFile
    <3> QED BY <3>3, <3>4, <2>0, <2>2, <1>9
  <2> QED BY <2>1, <2>2
<1>12. HeldP(T0', fat', file', pc', call')
  BY <1>4, <1>7, <1>11 DEF HeldP, HoldsP
<1>13. SetsP(T0', pc', call')
  BY <1>4, <1>5, <1>11 DEF SetsP
<1>14. PhaseOK(pc', T0', Inside', file', call', F!Contents', fatOnDevice', fat', m_sector')
  <2>1. DelOK(T0', Inside', file', call', F!Contents', fatOnDevice', fat')
    <3>1. ~call'.old.isDir
      BY <1>2, <1>4
    <3> QED BY <3>1, <1>4, <1>11 DEF DelOK
  <2> QED BY <2>1, <1>4, PhaseIs
<1>15. View(device', fatOnDevice') /\ Below(device', fatOnDevice', 0) \subseteq DOMAIN T0
  BY <1>1, <1>4, <1>5, DeviceKept
<1>16. Later(fatOnDevice', fat', SettlingAt(pc')) /\ Good(fatOnDevice') /\ FileIs(T0', file') /\ file' \in Objects
  BY <1>0, <1>4, <1>11
<1>17. (\A j \in DOMAIN at' : at'[j] \in F!Index) /\ kept' \subseteq F!Cluster
  BY <1>0, <1>4
<1>18. Below(device', fatOnDevice', 0) \subseteq DOMAIN T0' \cup DevXAt(pc', call')
  BY <1>11, <1>15
<1> QED BY <1>0, <1>4, <1>6, <1>11, <1>12, <1>13, <1>14, <1>15, <1>16, <1>17, <1>18, IInvNext

-----------------------------------------------------------------------------
FirstStop(d, size) ==
  F!Min({i \in 0 .. size - 1 : F!Entry(d, i).kind \in {"free", "file", "subdir"}} \cup {size - 1})
LEMMA LeastIs ==
  ASSUME NEW S, S \subseteq Nat, S # {}, NEW m, m = F!Min(S)
  PROVE  m \in S /\ \A i \in S : m <= i
<1>1. \E i \in S : \A j \in S : i <= j
  BY LeastNat
<1> QED BY <1>1 DEF F!Min

(* The open directory, and the open file of a directory. *)
LEMMA OpenDir ==
  ASSUME F!DirectoryAssumption, IInv, file.open, file.isDir, NEW d, d = file.first
  PROVE  /\ d \in DOMAIN T0 /\ d # 0 /\ d \in F!Cluster /\ FirstOf(d) = d /\ Object(T0, file) /\ file.dirty = FALSE
         /\ T0[file.dir][file.index].kind = "subdir" /\ T0[file.dir][file.index].first = d
<1>0. program \in FatPrograms /\ TreeTyped(T0) /\ FileIs(T0, file) /\ file \in Objects
  BY Now
<1>1. Object(T0, file)
  BY <1>0 DEF FileIs, F!Closed
<1>2. file.dirty = FALSE
  BY <1>0, <1>1 DEF Object, Objects
<1>3. /\ T0[file.dir][file.index].kind = "subdir" /\ T0[file.dir][file.index].first = d
      /\ file.dir \in DOMAIN T0 /\ file.index \in DOMAIN T0[file.dir]
  BY <1>1, <1>2 DEF Object, EntryIs
<1>4. T0[file.dir][file.index] \in SlotType
  BY <1>0, <1>3 DEF TreeTyped, DirSlots
<1>5. d # 0
  BY <1>3, <1>4 DEF SlotType
<1>6. d \in DOMAIN T0
  BY InsideWithin
<1>7. d \in F!Cluster
  BY <1>0, <1>5, <1>6 DEF TreeTyped
<1> QED BY <1>1, <1>2, <1>3, <1>5, <1>6, <1>7 DEF FirstOf

LEMMA RmdirEmpty ==
  ASSUME F!DirectoryAssumption, IInv, pc = "idle", file.open, file.isDir, NEW d, d = file.first,
         NEW end, end = FirstStop(d, F!Size(d)), ~F!isFatFileOrSubdir(F!Entry(d, end))
  PROVE  EmptyDir(T0, d)
<1>0. d \in DOMAIN T0
  BY OpenDir
<1>1. PICK n : n = SizeOf(fat, d)
  OBVIOUS
<1>2. /\ DOMAIN T0[d] = 0 .. n - 1 /\ n \in Nat \ {0, 1} /\ F!Size(d) = n
      /\ \A i \in DOMAIN T0[d] : F!Entry(d, i) = T0[d][i]
  BY <1>0, <1>1, SizeNow
<1>3. PICK S : S = {i \in 0 .. n - 1 : F!Entry(d, i).kind \in {"free", "file", "subdir"}} \cup {n - 1}
  OBVIOUS
<1>4. S \subseteq Nat /\ S # {} /\ end = F!Min(S)
  BY <1>2, <1>3 DEF FirstStop
<1>5. end \in S /\ \A i \in S : end <= i
  BY <1>4, LeastIs
<1>6. end \in 0 .. n - 1
  BY <1>2, <1>3, <1>5
<1>7. ASSUME NEW i \in DOMAIN T0[d] PROVE ~InUse(T0[d], i)
  <2>1. i \in 0 .. n - 1 /\ i \in Nat /\ end \in Nat
    BY <1>2, <1>6
  <2>2. CASE i < end
    <3>1. i \notin S
      BY <2>1, <2>2, <1>5
    <3>2. T0[d][i].kind \notin {"free", "file", "subdir"}
      BY <3>1, <2>1, <1>2, <1>3
    <3> QED BY <3>2 DEF InUse, F!isFatFileOrSubdir
  <2>3. CASE i = end
    BY <2>3, <1>2 DEF InUse
  <2>4. CASE i > end
    <3>1. end # n - 1
      BY <2>1, <2>4, <1>2
    <3>2. T0[d][end].kind \in {"free", "file", "subdir"}
      BY <3>1, <1>2, <1>3, <1>5, <1>6
    <3>3. T0[d][end].kind = "free"
      BY <3>2, <1>2, <1>6 DEF F!isFatFileOrSubdir
    <3>4. FreeTail(T0, {})
      BY IdleNow
    <3>5. T0[d][i].kind = "free"
      BY <3>3, <3>4, <2>4, <1>0, <1>2, <1>6, <1>7 DEF FreeTail
    <3> QED BY <3>5 DEF InUse, F!isFatFileOrSubdir
  <2> QED BY <2>1, <2>2, <2>3, <2>4
<1> QED BY <1>0, <1>7 DEF EmptyDir

(* The clusters of an empty directory are freed: it keeps its first one in *)
(* the tree until its entry is deleted.                                    *)
Shrunk(T, U, d) ==
  /\ DOMAIN U = DOMAIN T /\ (\A e \in DOMAIN T : e # d => U[e] = T[e]) /\ PrefixOf(U[d], T[d])
  /\ EmptyDir(T, d) /\ EmptyDir(U, d) /\ TreeTyped(U)
LEMMA FreeDir ==
  ASSUME F!DirectoryAssumption, IInv, pc = "idle", program' = program, fatOnDevice' = fatOnDevice, F!Contents' = F!Contents,
         NEW d \in DOMAIN T0, d # 0, EmptyDir(T0, d), fat' = F!FreeChain(d)
  PROVE  /\ fat' = Freed(fat, d) /\ Good(fat') /\ View(F!Contents', fat') /\ Later(fatOnDevice, fat', TRUE)
         /\ Shrunk(T0, T0', d)
         /\ d \notin Targets(fat') /\ NoneData(F!ChainSet(fatOnDevice, d), F!Contents')
         /\ \A x \in F!ChainSet(fatOnDevice, d) : fat'[x] = 0
         /\ NoneBehind(F!Slots(F!Contents', fatOnDevice, d))
         /\ \A i \in DOMAIN F!Slots(F!Contents', fatOnDevice, d) : ~InUse(F!Slots(F!Contents', fatOnDevice, d), i)
<1>0. /\ program \in FatPrograms /\ Good(fat) /\ T0 = F!Tree(F!Contents, fat, 0) /\ View(F!Contents, fat) /\ TreeTyped(T0)
      /\ Sectored(F!Contents) /\ Later(fatOnDevice, fat, FALSE)
  BY Now, IdleNow
<1>1. \A e : ~RemovedNow(e)
  BY DEF RemovedNow
<1>2. \A e \in DOMAIN T0 : e \in F!Cluster \cup {0} /\ e # rootDirStart /\ FirstOf(e) \notin Targets(fat) /\ fat[FirstOf(e)] # 0
  BY <1>0, <1>1, DirHeld DEF TreeTyped
<1>3. d \in F!Cluster /\ FirstOf(d) = d /\ d # rootDirStart /\ d \notin Targets(fat) /\ fat[d] # 0
  BY <1>2 DEF FirstOf
<1>4. PICK l2 : l2 = fat' /\ l2 = [x \in F!Cluster |-> IF x \in F!ChainSet(fat, d) THEN 0 ELSE fat[x]]
  BY DEF F!FreeChain
<1>5. /\ Good(l2) /\ Targets(l2) \subseteq Targets(fat)
      /\ \A x \in F!Cluster : l2[x] = IF x \in F!ChainSet(fat, d) THEN 0 ELSE fat[x]
      /\ F!Chain(l2, d) = <<d>> /\ d \in F!ChainSet(fat, d)
      /\ \A e \in F!Cluster \cup {0} : FirstOf(e) \notin Targets(fat) /\ FirstOf(e) # d
              => F!Chain(l2, e) = F!Chain(fat, e) /\ F!ChainSet(l2, e) = F!ChainSet(fat, e)
  BY <1>0, <1>3, <1>4, FatFree
<1>6. ASSUME NEW e \in DOMAIN T0, e # d
      PROVE  F!Slots(F!Contents, l2, e) = F!Slots(F!Contents, fat, e) /\ F!ChainSet(l2, e) = F!ChainSet(fat, e)
  <2>1. FirstOf(e) # d
    BY <1>2, <1>3, <1>6, FirstOfDistinct
  <2>2. F!Chain(l2, e) = F!Chain(fat, e) /\ F!ChainSet(l2, e) = F!ChainSet(fat, e)
    BY <2>1, <1>2, <1>5, <1>6
  <2>3. AgreeOn(F!ChainSet(fat, e), F!Contents, F!Contents)
    BY DEF AgreeOn
  <2> QED BY <2>2, <2>3, <1>0, <1>2, <1>6, SlotsAgree
<1>7. /\ DOMAIN T0 = Below(F!Contents, fat, 0) /\ T0[d] = F!Slots(F!Contents, fat, d) /\ NoneData(F!ChainSet(fat, d), F!Contents)
      /\ Subs(F!Contents, fat, d) = SubdirsOf(T0[d])
  BY <1>0, TreeClosed
<1>8. NoneBehind(T0[d]) /\ SubdirsOf(T0[d]) = {}
  BY <1>0 DEF TreeTyped, SubdirsOf, EmptyDir, UsedOf
<1>9. Begins(F!Chain(fat, d), F!Chain(l2, d))
  <2>1. IsChain(fat, d, F!Chain(fat, d))
    BY <1>0, <1>3, ChainIs
  <2>2. Len(F!Chain(fat, d)) \in 1 .. F!MaxDirSectors /\ F!Chain(fat, d)[1] = d
    BY <2>1, <1>3 DEF IsChain
  <2>3. F!MaxDirSectors \in Nat
    BY <1>0, Setting
  <2> QED BY <2>2, <2>3, <1>5 DEF Begins
<1>10. PICK s, t : s = F!Slots(F!Contents, l2, d) /\ t = F!Slots(F!Contents, fat, d)
  OBVIOUS
<1>11. PrefixOf(s, t) /\ F!ChainSet(l2, d) \subseteq F!ChainSet(fat, d)
  BY <1>0, <1>3, <1>9, <1>10, SlotsPrefix
<1>12. NoneBehind(s) /\ F!Subdirs(s) = {}
  <2>1. NoneBehind(t) /\ F!Subdirs(t) = {}
    BY <1>7, <1>8, <1>10 DEF Subs
  <2> QED BY <2>1, <1>11, LivePrefix
<1>13. \A e \in Below(F!Contents, fat, 0) : Subs(F!Contents, l2, e) = Subs(F!Contents, fat, e)
  <2>1. ASSUME NEW e \in DOMAIN T0 PROVE Subs(F!Contents, l2, e) = Subs(F!Contents, fat, e)
    <3>1. CASE e = d
      BY <3>1, <1>7, <1>8, <1>10, <1>12 DEF Subs
    <3>2. CASE e # d
      BY <3>2, <1>6 DEF Subs
    <3> QED BY <3>1, <3>2
  <2> QED BY <2>1, <1>7
<1>14. Below(F!Contents, l2, 0) = DOMAIN T0 /\ F!Tree(F!Contents, l2, 0) = TreeOn(F!Contents, l2, DOMAIN T0)
  <2>1. 0 \in F!Cluster \cup {0}
    OBVIOUS
  <2> QED BY <2>1, <1>0, <1>7, <1>13, TreeKept
<1>15. T0' = F!Tree(F!Contents, l2, 0)
  BY <1>4, PrimedTree
<1>16. /\ DOMAIN T0' = DOMAIN T0 /\ T0'[d] = s
       /\ \A e \in DOMAIN T0 : e # d => T0'[e] = T0[e]
  <2>1. DOMAIN T0' = DOMAIN T0 /\ \A e \in DOMAIN T0 : T0'[e] = F!Slots(F!Contents, l2, e)
    BY <1>14, <1>15 DEF TreeOn
  <2>2. \A e \in DOMAIN T0 : T0[e] = F!Slots(F!Contents, fat, e)
    BY <1>0, TreeClosed
  <2> QED BY <2>1, <2>2, <1>6, <1>10
<1>17. View(F!Contents, l2)
  <2>1. \A e \in DOMAIN T0 : NoneData(F!ChainSet(fat, e), F!Contents) /\ NoneBehind(F!Slots(F!Contents, fat, e))
    BY <1>0, <1>7 DEF View
  <2>2. ASSUME NEW e \in DOMAIN T0 PROVE NoneData(F!ChainSet(l2, e), F!Contents) /\ NoneBehind(F!Slots(F!Contents, l2, e))
    <3>1. CASE e = d
      BY <3>1, <2>1, <1>10, <1>11, <1>12 DEF NoneData
    <3>2. CASE e # d
      BY <3>2, <2>1, <1>6
    <3> QED BY <3>1, <3>2
  <2> QED BY <2>2, <1>14 DEF View
<1>18. EmptyDir(T0', d)
  <2>1. \A i \in DOMAIN s : i \in DOMAIN t /\ s[i] = t[i]
    BY <1>11 DEF PrefixOf
  <2>2. \A i \in DOMAIN t : ~InUse(t, i)
    BY <1>7, <1>10 DEF EmptyDir
  <2> QED BY <2>1, <2>2, <1>16 DEF EmptyDir, InUse
<1>19. TreeTyped(T0')
  BY <1>0, <1>15, <1>17, ViewTree
<1>20. Shrunk(T0, T0', d)
  BY <1>7, <1>10, <1>11, <1>16, <1>18, <1>19 DEF Shrunk
<1>21. Later(fatOnDevice, fat', TRUE)
  <2>1. PICK gone : gone = F!ChainSet(fat, d)
    OBVIOUS
  <2>2. gone \in SUBSET F!Cluster
    BY <2>1, <1>0, <1>3, ChainSetIs
  <2>3. \A x \in gone : fat[x] \in F!Cluster => fat[x] \in gone
    BY <2>1, <1>0, <1>3, ChainFacts
  <2>4. \A x \in F!Cluster : l2[x] = IF x \in gone THEN 0 ELSE fat[x]
    BY <2>1, <1>5
  <2>5. Later(fatOnDevice, l2, TRUE)
    BY ZenonT(60), <2>2, <2>3, <2>4, <1>0, LaterFree
  <2> QED BY <2>5, <1>4
<1>22. /\ NoneData(F!ChainSet(fatOnDevice, d), F!Contents) /\ NoneBehind(F!Slots(F!Contents, fatOnDevice, d))
       /\ F!ChainSet(fatOnDevice, d) \subseteq F!ChainSet(fat, d)
  BY <1>1, MixedDir
<1>23. \A x \in F!ChainSet(fatOnDevice, d) : l2[x] = 0
  BY <1>22, <1>5, <1>0, <1>3, ChainSetIs
<1>24. \A i \in DOMAIN F!Slots(F!Contents, fatOnDevice, d) : ~InUse(F!Slots(F!Contents, fatOnDevice, d), i)
  <2>1. Begins(F!Chain(fat, d), F!Chain(fatOnDevice, d))
    BY <1>0, <1>3, LaterBegins
  <2>2. PICK u : u = F!Slots(F!Contents, fatOnDevice, d)
    OBVIOUS
  <2>3. PrefixOf(u, t)
    BY <2>1, <2>2, <1>0, <1>3, <1>10, SlotsPrefix
  <2>4. \A i \in DOMAIN u : i \in DOMAIN t /\ u[i] = t[i]
    BY <2>3 DEF PrefixOf
  <2>5. \A i \in DOMAIN t : ~InUse(t, i)
    BY <1>7, <1>10 DEF EmptyDir
  <2>6. \A i \in DOMAIN u : ~InUse(u, i)
    BY <2>4, <2>5 DEF InUse
  <2> QED BY <2>2, <2>6
<1>25. Targets(l2) \subseteq Targets(fat) /\ d \notin Targets(l2)
  BY <1>3, <1>5
<1>26. fat' = Freed(fat, d)
  BY <1>4 DEF Freed
<1>27. PICK c2 : c2 = F!Contents' /\ c2 = F!Contents
  OBVIOUS
<1>28. /\ Good(fat') /\ View(c2, fat') /\ d \notin Targets(fat') /\ NoneData(F!ChainSet(fatOnDevice, d), c2)
       /\ \A x \in F!ChainSet(fatOnDevice, d) : fat'[x] = 0
       /\ NoneBehind(F!Slots(c2, fatOnDevice, d))
       /\ \A i \in DOMAIN F!Slots(c2, fatOnDevice, d) : ~InUse(F!Slots(c2, fatOnDevice, d), i)
  BY <1>4, <1>5, <1>17, <1>22, <1>23, <1>24, <1>25, <1>27
<1> QED BY <1>20, <1>21, <1>26, <1>27, <1>28

-----------------------------------------------------------------------------
(* What a tree keeps when an empty directory has lost its clusters. *)
LEMMA ShrunkEntries ==
  ASSUME NEW T, TreeTyped(T), NEW U, NEW d \in DOMAIN T, Shrunk(T, U, d)
  PROVE  /\ Entered(U) = Entered(T) /\ \A k \in Entered(T) : F!At(U, k) = F!At(T, k) /\ k[1] # d
<1>0. TreeTyped(U) /\ EmptyDir(T, d) /\ EmptyDir(U, d) /\ DOMAIN U = DOMAIN T /\ (\A e \in DOMAIN T : e # d => U[e] = T[e])
  BY DEF Shrunk
<1>1. UsedOf(T[d]) = {} /\ UsedOf(U[d]) = {}
  BY <1>0 DEF EmptyDir, UsedOf
<1>2. \A k : k \in Entered(U) <=> k \in Entered(T)
  <2>1. TAKE k
  <2>2. k \in Entered(T) <=> k = <<k[1], k[2]>> /\ k[1] \in DOMAIN T /\ k[2] \in UsedOf(T[k[1]])
    BY EnteredIs
  <2>3. k \in Entered(U) <=> k = <<k[1], k[2]>> /\ k[1] \in DOMAIN U /\ k[2] \in UsedOf(U[k[1]])
    BY EnteredIs
  <2>4. CASE k[1] = d
    BY <2>2, <2>3, <2>4, <1>1
  <2>5. CASE k[1] # d
    BY <2>2, <2>3, <2>5, <1>0
  <2> QED BY <2>4, <2>5
<1>3. ASSUME NEW k \in Entered(T) PROVE F!At(U, k) = F!At(T, k) /\ k[1] # d
  <2>1. k[1] \in DOMAIN T /\ k[2] \in UsedOf(T[k[1]])
    BY EnteredIs
  <2>2. k[1] # d
    BY <2>1, <1>1
  <2> QED BY <2>1, <2>2, <1>0 DEF F!At
<1>4. Entered(U) = Entered(T)
  BY <1>2
<1> QED BY <1>3, <1>4

LEMMA ShrunkSets ==
  ASSUME NEW T, TreeTyped(T), NEW U, NEW d \in DOMAIN T, Shrunk(T, U, d), FreeTail(T, {}), DotKinds(T, {})
  PROVE  FreeTail(U, {}) /\ DotKinds(U, {})
<1>0. TreeTyped(U) /\ DOMAIN U = DOMAIN T /\ (\A e \in DOMAIN T : e # d => U[e] = T[e]) /\ PrefixOf(U[d], T[d])
  BY DEF Shrunk
<1>1. \A e \in DOMAIN U : \A i \in DOMAIN U[e] : i \in DOMAIN T[e] /\ U[e][i] = T[e][i]
  <2>1. \A i \in DOMAIN U[d] : i \in DOMAIN T[d] /\ U[d][i] = T[d][i]
    BY <1>0 DEF PrefixOf
  <2>2. ASSUME NEW e \in DOMAIN U PROVE \A i \in DOMAIN U[e] : i \in DOMAIN T[e] /\ U[e][i] = T[e][i]
    <3>1. CASE e = d
      BY <3>1, <2>1
    <3>2. CASE e # d
      BY <3>2, <1>0
    <3> QED BY <3>1, <3>2
  <2> QED BY <2>2
<1>2. FreeTail(U, {})
  BY <1>0, <1>1 DEF FreeTail
<1>3. \A e \in DOMAIN U : 0 \in DOMAIN U[e] /\ 1 \in DOMAIN U[e]
  BY <1>0 DEF TreeTyped, DirSlots
<1>4. DotKinds(U, {})
  BY <1>0, <1>1, <1>3 DEF DotKinds
<1> QED BY <1>2, <1>4

LEMMA ShrunkEntry ==
  ASSUME NEW T, TreeTyped(T), NEW U, NEW d \in DOMAIN T, Shrunk(T, U, d), NEW o, EntryIs(T, o)
  PROVE  EntryIs(U, o) /\ U[o.dir][o.index] = T[o.dir][o.index]
<1>0. DOMAIN U = DOMAIN T /\ (\A e \in DOMAIN T : e # d => U[e] = T[e]) /\ EmptyDir(T, d)
  BY DEF Shrunk
<1>1. o.dir \in DOMAIN T /\ o.index \in DOMAIN T[o.dir] /\ InUse(T[o.dir], o.index)
  BY DEF EntryIs, InUse, F!isFatFileOrSubdir
<1>2. o.dir # d
  BY <1>0, <1>1 DEF EmptyDir
<1> QED BY <1>0, <1>1, <1>2 DEF EntryIs

LEMMA RmdirKeeps ==
  ASSUME F!DirectoryAssumption, IInv, F!rmdir
  PROVE  IInv'
<1>0. /\ program \in FatPrograms /\ call \in Calls /\ file \in Objects /\ FileIs(T0, file) /\ TreeTyped(T0) /\ Good(fat)
      /\ kept \subseteq F!Cluster /\ (\A k \in DOMAIN at : at[k] \in F!Index) /\ Good(fatOnDevice) /\ HeldP(T0, fat, file, pc, call)
      /\ View(F!Contents, fat) /\ SetsP(T0, pc, call)
      /\ PhaseOK(pc, T0, Inside, file, call, F!Contents, fatOnDevice, fat, m_sector)
  BY Now
<1>1. PICK d, end : /\ d = file.first /\ end = FirstStop(d, F!Size(d)) /\ F!ReadUpTo(d, end) /\ pc = "idle" /\ file.open /\ file.isDir
                    /\ (F!isFatFileOrSubdir(F!Entry(d, end)) /\ UNCHANGED <<program, fat, fatOnDevice, file, pc, call, F!history>>)
                       \/ (~F!isFatFileOrSubdir(F!Entry(d, end)) /\ F!BeginRemove)
  BY DEF F!rmdir, FirstStop
<1>2. VolumeNext /\ F!Contents' = F!Contents /\ (device' = device \/ device' = F!Contents)
  BY <1>1, ReadIs
<1>3. /\ GoneAt(pc, call) = {} /\ PendingAt(pc, call) = 0 /\ SettlingAt(pc) = FALSE /\ DevXAt(pc, call) = {}
      /\ FreeTail(T0, {}) /\ DotKinds(T0, {}) /\ call = F!NoCall
  BY <1>1, IdleNow
<1>4. CASE UNCHANGED <<program, fat, fatOnDevice, file, pc, call, F!history>>
  <2>1. /\ program' = program /\ fat' = fat /\ fatOnDevice' = fatOnDevice /\ file' = file /\ pc' = pc /\ call' = call
        /\ at' = at /\ kept' = kept
    BY <1>4 DEF F!history
  <2>2. F!Ends
    BY <2>1, <1>1, <1>3 DEF F!Ends
  <2>3. device' = F!Contents \/ (device' = device /\ DevXAt(pc, call) = {})
    BY <1>2, <1>3
  <2> QED BY <1>2, <1>3, <2>1, <2>2, <2>3, QuietEnds
<1>5. CASE ~F!isFatFileOrSubdir(F!Entry(d, end)) /\ F!BeginRemove
  <2>1. EmptyDir(T0, d)
    BY <1>1, <1>5, RmdirEmpty
  <2>2. /\ d \in DOMAIN T0 /\ d # 0 /\ d \in F!Cluster /\ FirstOf(d) = d /\ Object(T0, file) /\ file.dirty = FALSE
        /\ T0[file.dir][file.index].kind = "subdir" /\ T0[file.dir][file.index].first = d
    BY <1>1, OpenDir
  <2>3. PICK k : k = <<file.dir, file.index>>
    OBVIOUS
  <2>4. /\ program' = program /\ fatOnDevice' = fatOnDevice /\ at' = at /\ kept' \subseteq kept
        /\ file' = F!Closed /\ pc' = "del" /\ call' \in Calls /\ call'.op = "remove" /\ call'.old = file
        /\ GoneAt(pc', call') = {k} /\ PendingAt(pc', call') = 0 /\ RawAt(pc', call') = {} /\ Building(pc', call') = {}
        /\ DevXAt(pc', call') = {} /\ SettlingAt(pc') = TRUE
        /\ F!Closed \in Objects /\ k \in Entered(T0)
    BY <1>1, <1>5, <2>3, BeginRemoveIs
  <2>5. fat' = F!FreeChain(d)
    BY <1>1, <1>5 DEF F!BeginRemove
  <2>6. /\ fat' = Freed(fat, d) /\ Good(fat') /\ View(F!Contents', fat') /\ Later(fatOnDevice, fat', TRUE)
        /\ Shrunk(T0, T0', d)
        /\ d \notin Targets(fat') /\ NoneData(F!ChainSet(fatOnDevice, d), F!Contents')
        /\ \A x \in F!ChainSet(fatOnDevice, d) : fat'[x] = 0
        /\ NoneBehind(F!Slots(F!Contents', fatOnDevice, d))
        /\ \A i \in DOMAIN F!Slots(F!Contents', fatOnDevice, d) : ~InUse(F!Slots(F!Contents', fatOnDevice, d), i)
    BY <1>1, <1>2, <2>1, <2>2, <2>4, <2>5, FreeDir
  <2>7. PICK U : U = T0'
    OBVIOUS
  <2>8. /\ Shrunk(T0, U, d) /\ TreeTyped(U) /\ EmptyDir(U, d) /\ DOMAIN U = DOMAIN T0
        /\ Entered(U) = Entered(T0) /\ \A j \in Entered(T0) : F!At(U, j) = F!At(T0, j)
    <3>1. Shrunk(T0, U, d)
      BY <2>6, <2>7
    <3>2. Entered(U) = Entered(T0) /\ \A j \in Entered(T0) : F!At(U, j) = F!At(T0, j)
      BY <3>1, <1>0, <2>2, ShrunkEntries
    <3> QED BY <3>1, <3>2 DEF Shrunk
  <2>9. FreeTail(U, {}) /\ DotKinds(U, {})
    BY <1>0, <1>3, <2>2, <2>8, ShrunkSets
  <2>10. EntryIs(U, file) /\ U[file.dir][file.index] = T0[file.dir][file.index] /\ LfnOrdOK(file)
    <3>1. EntryIs(T0, file) /\ LfnOrdOK(file)
      BY <2>2 DEF Object
    <3> QED BY <3>1, <1>0, <2>2, <2>8, ShrunkEntry
  <2>11. HeldP(U, fat', file', pc', call')
    <3>1. PICK H, H2, single, single2 : /\ H = Holding(T0, file, {}, 0) /\ H2 = Holding(T0, F!Closed, {k}, 0)
                                        /\ single = Singles(T0, H) /\ single2 = Singles(T0, H2)
      OBVIOUS
    <3>2. Held(fat, H, single)
      BY <3>1, <1>0, <1>3 DEF HeldP, HoldsP
    <3>3. Held(Freed(fat, file.first), H2, single2)
      BY <1>0, <1>1, <2>2, <2>3, <2>4, <3>1, <3>2, RemovedHeld
    <3>4. Holding(U, F!Closed, {k}, 0) = H2 /\ Singles(U, Holding(U, F!Closed, {k}, 0)) = single2
      BY <3>1, <2>8, <1>0, HeldSameTree
    <3> QED BY <3>3, <3>4, <1>1, <2>4, <2>6 DEF HeldP, HoldsP
  <2>12. SetsP(U, pc', call')
    BY <2>4, <2>9 DEF SetsP
  <2>13. FileIs(U, file') /\ OldIs(U, call')
    BY <2>4, <2>10 DEF FileIs, OldIs
  <2>14. PICK c2, l2, B2, call2 : c2 = F!Contents' /\ l2 = fat' /\ B2 = Inside' /\ call2 = call'
    OBVIOUS
  <2>15. PhaseOK(pc', U, Inside', file', call', F!Contents', fatOnDevice', fat', m_sector')
    <3>1. Emptied(U, c2, fatOnDevice, l2, call2)
      <4>1. call2.old.first = d
        BY <2>4, <2>14, <1>1
      <4> QED BY <4>1, <2>2, <2>6, <2>8, <2>14 DEF Emptied
    <3>2. U[call2.old.dir][call2.old.index].first = call2.old.first
      BY <2>2, <2>4, <2>10, <2>14, <1>1
    <3>3. DelOK(U, B2, F!Closed, call2, c2, fatOnDevice, l2)
      BY <3>1, <3>2, <2>4, <2>13, <2>14 DEF DelOK
    <3>4. DelOK(U, Inside', file', call', F!Contents', fatOnDevice', fat')
      BY <3>3, <2>4, <2>14
    <3> QED BY <3>4, <2>4, PhaseIs
  <2>16. View(device', fatOnDevice') /\ Below(device', fatOnDevice', 0) \subseteq DOMAIN U
    BY <1>2, <1>3, <2>4, <2>8, DeviceKept
  <2>17. Later(fatOnDevice', fat', SettlingAt(pc')) /\ Good(fatOnDevice') /\ file' \in Objects /\ program' = program
    BY <1>0, <2>4, <2>6
  <2>18. (\A j \in DOMAIN at' : at'[j] \in F!Index) /\ kept' \subseteq F!Cluster
    BY <1>0, <2>4
  <2>19. Below(device', fatOnDevice', 0) \subseteq DOMAIN T0' \cup DevXAt(pc', call')
    BY <2>7, <2>16
  <2>20. HeldP(T0', fat', file', pc', call') /\ SetsP(T0', pc', call') /\ FileIs(T0', file')
         /\ PhaseOK(pc', T0', Inside', file', call', F!Contents', fatOnDevice', fat', m_sector')
    BY <2>7, <2>11, <2>12, <2>13, <2>15
  <2> QED BY <1>0, <1>2, <2>4, <2>6, <2>16, <2>17, <2>18, <2>19, <2>20, IInvNext
<1> QED BY <1>1, <1>4, <1>5
=============================================================================
