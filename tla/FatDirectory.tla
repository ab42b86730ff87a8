---------------------------- MODULE FatDirectory ----------------------------
(***************************************************************************)
(* Directories of a FAT32 volume: what open, close, remove, rename, mkdir  *)
(* and rmdir of src/src/FatLib (FatFile.cpp, FatFileLFN.cpp) do to the     *)
(* directory entries, long names included, to the FAT, and to the sectors  *)
(* on the device, in the order the two caches of FatPartition write them.  *)
(*                                                                         *)
(* A call is a sequence of steps.  A step prepares one sector in the data  *)
(* cache, which writes the sector that was there, and changes entries in   *)
(* it; cacheSync writes the data cache first, then the FAT cache.  The     *)
(* power may fail between any two steps, so what the invariants say of the *)
(* device holds for every interruption.  A device that reports an error    *)
(* ends a call at the same places.                                         *)
(*                                                                         *)
(* The build has USE_SEPARATE_FAT_CACHE and USE_LONG_FILE_NAMES; a cluster *)
(* is one sector and the FAT is one sector.  Names differ only in whether  *)
(* they have the form 8.3.                                                 *)
(***************************************************************************)
EXTENDS Integers, Sequences, FiniteSetsExt

CONSTANTS
  rootDirStart,       \* the first cluster of the root, whose m_firstCluster is 0 when open
  EOC,
  ShortNames,         \* names of the form 8.3
  LongNames,          \* other names, which all have the same first short name
  LfnEntries,         \* long name entries that one of LongNames needs
  Basis,              \* the short name makeSFN gives to each of LongNames
  Hashes,             \* the short names that makeUniqueSfn tries
  Programs            \* bound: the volumes and programs that are looked at

Modes == {"read", "write", "trunc"}   \* O_RDONLY, O_RDWR | O_CREAT, and with O_TRUNC
LongSfns == {Basis} \cup Hashes

(* A program has a volume of some clusters with entriesPerSector entries   *)
(* (16 in the code), in which a directory may have maxDirSectors sectors   *)
(* (4095), uses some names and modes of open(), and goes on after a power  *)
(* failure or does not.                                                    *)
DirectoryAssumption ==
  /\ \A p \in Programs :
       /\ IsFiniteSet(p.clusters) /\ rootDirStart \in p.clusters
       /\ {0, EOC} \cap p.clusters = {}
       /\ p.maxDirSectors \in Nat \ {0} /\ p.entriesPerSector \in Nat \ {0, 1}
       /\ p.names \subseteq ShortNames \cup LongNames /\ p.modes \subseteq Modes
       /\ p.restarts \in BOOLEAN
  /\ EOC # 0 /\ LfnEntries \in Nat \ {0}
  /\ ShortNames \cap LongSfns = {} /\ Basis \notin Hashes
  /\ ShortNames \cap LongNames = {}

VARIABLES
  program,    \* the one of Programs that runs
  device,     \* the sectors of the clusters; a file's data is not followed
  fatOnDevice,
  fat,        \* the FAT as m_fatCache has it
  m_sector, m_buffer, \* m_cache while it is dirty; a clean one is as the device, and 0 here
  file,       \* the file object of the program
  pc, call,   \* the call that runs: its step and its variables
  (* History variables: they record what happened and guard nothing. *)
  at,         \* where the program has put each name: <<directory, name>> to index
  kept        \* first clusters of files and directories that were synced

Cluster == program.clusters
MaxDirSectors == program.maxDirSectors
EntriesPerSector == program.entriesPerSector
Names == program.names

volume == <<device, fatOnDevice, fat>>
cache == <<m_sector, m_buffer>>
history == <<at, kept>>
vars == <<program, volume, cache, file, pc, call, history>>

Slot(kind, name, order, sum, first) ==
  [kind |-> kind, name |-> name, order |-> order, sum |-> sum, first |-> first]
Free == Slot("free", Basis, 0, Basis, 0)
DeletedAsFree == Free                                       \* slip: mark of the end
Deleted == Slot("deleted", Basis, 0, Basis, 0)
LongEntry(name, order, sfn) == Slot("lfn", name, order, sfn, 0)
ShortEntry(kind, sfn, first) == Slot(kind, sfn, 0, Basis, first)
Zeroed == [i \in 0 .. EntriesPerSector - 1 |-> Free]
Data == <<>>
Garbage == Slot("garbage", Basis, 0, Basis, 0)    \* a data sector read as entries
isFatFileOrSubdir(slot) == slot.kind \in {"file", "subdir"}

Closed == [open |-> FALSE, isDir |-> FALSE, write |-> FALSE, dirty |-> FALSE, name |-> Basis,
           dir |-> 0, index |-> 0, lfnOrd |-> 0, first |-> 0]
NoCall == [op |-> "none", dir |-> 0, name |-> Basis, sfn |-> Basis, alias |-> FALSE,
           index |-> 0, order |-> 0, trunc |-> FALSE, first |-> 0, old |-> Closed,
           saved |-> Free, then |-> "idle"]

-----------------------------------------------------------------------------
(* A directory d is known by its first cluster, the root by 0.  contents   *)
(* and links are the sectors and the FAT that are looked at: those of the  *)
(* program or those on the device.                                         *)
Chain(links, d) ==
  LET first == IF d = 0 THEN rootDirStart ELSE d
      walk[k \in 1 .. MaxDirSectors] ==
        IF k = 1 THEN <<first>>
        ELSE LET before == walk[k - 1]
                 next == links[before[Len(before)]]
             IN IF next \in Cluster THEN Append(before, next) ELSE before
  IN walk[MaxDirSectors]
ChainSet(links, d) == LET chain == Chain(links, d) IN {chain[i] : i \in DOMAIN chain}
SlotIn(sector, i) == IF sector = Data THEN Garbage ELSE sector[i % EntriesPerSector]
Slots(contents, links, d) ==
  LET sectors == Chain(links, d)
  IN [i \in 0 .. Len(sectors) * EntriesPerSector - 1 |->
        SlotIn(contents[sectors[i \div EntriesPerSector + 1]], i)]

(* As the program sees them: the cached sector in its buffer. *)
Contents == IF m_sector = 0 THEN device ELSE [device EXCEPT ![m_sector] = m_buffer]
Sectors(d) == Chain(fat, d)
SectorOf(d, i) == Sectors(d)[i \div EntriesPerSector + 1]
Entries(d) == Slots(Contents, fat, d)
Entry(d, i) == SlotIn(Contents[SectorOf(d, i)], i)
Size(d) == Len(Sectors(d)) * EntriesPerSector

(* prepare(sector) of the data cache: a dirty sector that is not the one   *)
(* is written.  Store leaves the sector in the cache with a change.        *)
CleanKept == m_sector' = 0 /\ UNCHANGED m_buffer            \* slip: buffer not cleared
Clean == m_sector' = 0 /\ m_buffer' = Data
StoreDropped(sector, content) ==                            \* slip: old sector lost
  UNCHANGED device /\ m_sector' = sector /\ m_buffer' = content
Store(sector, content) ==
  /\ device' = IF sector = m_sector THEN device ELSE Contents
  /\ m_sector' = sector /\ m_buffer' = content
StoreEntry(d, i, slot) ==
  LET s == SectorOf(d, i)
  IN Store(s, [Contents[s] EXCEPT ![i % EntriesPerSector] = slot])

(* Entries are read from the first one to the last: a dirty sector stays   *)
(* in the cache only when it is the only one that is read.                 *)
ReadUpTo(d, last) ==
  IF m_sector = SectorOf(d, last) /\ m_sector = Sectors(d)[1] THEN UNCHANGED <<device, cache>>
  ELSE device' = Contents /\ Clean

FreeChain(c) ==
  LET gone == ChainSet(fat, c)
  IN IF c = 0 THEN fat ELSE [x \in Cluster |-> IF x \in gone THEN 0 ELSE fat[x]]
FreeClusters == {c \in Cluster : fat[c] = 0}

-----------------------------------------------------------------------------
(* open(dirFile, fname): the search for a name.  A long name is taken for  *)
(* found from its last entry (which comes first) down to its first, when   *)
(* the short entry behind has the checksum of the set.                     *)
Lost(name) == name \in LongNames                 \* FNAME_FLAG_LOST_CHARS
makeSFN(name) == IF Lost(name) THEN Basis ELSE name
nameOrd(name) == IF Lost(name) THEN LfnEntries ELSE 1
freeNeed(name) == IF Lost(name) THEN 1 + LfnEntries ELSE 1
Last(slot) == slot.order = nameOrd(slot.name)    \* FAT_ORDER_LAST_LONG_ENTRY

cmpName(slots, index, name, lfnOrd) ==
  \A order \in 1 .. lfnOrd : slots[index - order].name = name

Searching == [at |-> "more", lfnOrd |-> 0, order |-> 0, sum |-> Basis, alias |-> FALSE,
              free |-> 0, freeIndex |-> 0, last |-> 0]
FreeSeen(st, slot, i, need) ==
  IF slot.kind \in {"free", "deleted"}
  THEN [st EXCEPT !.freeIndex = IF st.free = 0 THEN i ELSE @,
                  !.free = IF @ < need THEN @ + 1 ELSE @]
  ELSE [st EXCEPT !.free = IF @ < need THEN 0 ELSE @]

(* Whether the set of an entry goes on, or a set of the right size begins. *)
SetStarts(st, slot, name) == st.lfnOrd = 0 /\ slot.order = nameOrd(name) /\ Last(slot)
SetGoesOn(st, slot) ==
  st.lfnOrd # 0 /\ ~Last(slot) /\ slot.order = st.order - 1 /\ slot.sum = st.sum
LongSeen(st, slots, i, name) ==
  LET slot == slots[i] IN
  IF ~(SetStarts(st, slot, name) \/ SetGoesOn(st, slot)) THEN [st EXCEPT !.lfnOrd = 0]
  ELSE LET ord == nameOrd(name)
       IN [st EXCEPT !.order = slot.order, !.sum = slot.sum,
                     !.lfnOrd = IF slot.order = 1 /\ ~cmpName(slots, i + 1, name, ord)
                                THEN 0 ELSE ord]
ShortSeen(st, slot, name) ==
  IF st.lfnOrd # 0
  THEN [st EXCEPT !.at = IF st.order = 1 /\ slot.name = st.sum THEN "found" ELSE "fail"]
  ELSE IF slot.name # makeSFN(name) THEN st
  ELSE IF Lost(name) THEN [st EXCEPT !.alias = TRUE]
  ELSE [st EXCEPT !.at = "found"]
Seen(st, slots, i, name) ==
  LET slot == slots[i] IN
  CASE slot.kind = "free" -> [st EXCEPT !.at = "create"]
    [] slot.kind \in {"deleted", "dot", "dotdot"} -> [st EXCEPT !.lfnOrd = 0]
    [] slot.kind = "lfn" -> LongSeen(st, slots, i, name)
    [] OTHER -> ShortSeen(st, slot, name)

Search(d, name) ==
  LET slots == Entries(d)
      size == Cardinality(DOMAIN slots)
      scan[i \in 0 .. size] ==
        IF i = 0 THEN Searching
        ELSE LET st == scan[i - 1]
             IN IF st.at # "more" THEN st
                ELSE [Seen(FreeSeen(st, slots[i - 1], i - 1, freeNeed(name)), slots, i - 1, name)
                        EXCEPT !.last = i - 1]
      end == scan[size]
  IN IF end.at # "more" THEN end
     ELSE [end EXCEPT !.at = "create", !.freeIndex = IF end.free = 0 THEN size ELSE @]

-----------------------------------------------------------------------------
(* The directory tree below a directory, as slots by directory.  A         *)
(* directory ends at its first free entry.                                 *)
FirstFree(slots) == Min({i \in DOMAIN slots : slots[i].kind = "free"} \cup {Cardinality(DOMAIN slots)})
Live(slots) ==
  LET end == FirstFree(slots) IN {i \in DOMAIN slots : i < end /\ isFatFileOrSubdir(slots[i])}
Subdirs(slots) == {slots[i].first : i \in {j \in Live(slots) : slots[j].kind = "subdir"}}
Tree(contents, links, top) ==
  LET entries(dirs) == [d \in dirs |-> Slots(contents, links, d)]
      deepest == Cardinality(Cluster) - 1
      level[k \in 0 .. deepest] ==
        IF k = 0 THEN entries({top})
        ELSE LET tree == level[k - 1]
                 more == UNION {Subdirs(tree[d]) : d \in DOMAIN tree}
             IN IF more \subseteq DOMAIN tree THEN tree ELSE entries(DOMAIN tree \cup more)
  IN level[deepest]
Directories == DOMAIN Tree(Contents, fat, 0)

Init ==
  /\ program \in Programs
  /\ device = [c \in Cluster |-> IF c = rootDirStart THEN Zeroed ELSE Data]
  /\ fat = [c \in Cluster |-> IF c = rootDirStart THEN EOC ELSE 0]
  /\ fatOnDevice = fat
  /\ m_sector = 0 /\ m_buffer = Data
  /\ file = Closed
  /\ pc = "idle" /\ call = NoCall
  /\ at = <<>> /\ kept = {}

Ends == pc' = "idle" /\ call' = NoCall
Goes(step, c) == pc' = step /\ call' = c
WithName(d, name, index) ==
  [k \in DOMAIN at \cup {<<d, name>>} |-> IF k = <<d, name>> THEN index ELSE at[k]]
WithoutName(d, name) == [k \in DOMAIN at \ {<<d, name>>} |-> at[k]]

(* openCachedEntry(): O_TRUNC frees the clusters and leaves the entry to   *)
(* the next sync.  A directory is opened only for reading.                 *)
openCachedEntry(d, index, lfnOrd, name, mode, slot) ==
  IF mode # "read" /\ slot.kind = "subdir" THEN UNCHANGED <<file, fat, kept>>
  ELSE LET gone == mode = "trunc" IN
       /\ file' = [open |-> TRUE, isDir |-> slot.kind = "subdir", write |-> mode # "read",
                   dirty |-> gone, name |-> name, dir |-> d, index |-> index,
                   lfnOrd |-> lfnOrd, first |-> IF gone THEN 0 ELSE slot.first]
       /\ fat' = IF gone THEN FreeChain(slot.first) ELSE fat
       /\ kept' = IF gone THEN kept \ {slot.first} ELSE kept

(* The first part of open(): the search, and the entries behind it that    *)
(* are read until there are enough.  rename() has read the old entry.      *)
search ==
  LET r == Search(call.dir, call.name)
      need == freeNeed(call.name)
      size == Size(call.dir)
      enough == r.last + need - r.free
      last == IF r.at # "create" THEN r.last ELSE IF enough < size THEN enough ELSE size - 1 IN
  /\ pc = "search"
  /\ ReadUpTo(call.dir, last)
  /\ \/ /\ r.at = "create" /\ call.op # "read"
        /\ Goes("grow",
                [call EXCEPT !.sfn = makeSFN(call.name), !.alias = r.alias, !.order = 1,
                             !.index = r.freeIndex + need - 1,
                             !.saved = IF call.op = "rename" THEN Entry(file.dir, file.index)
                                       ELSE @])
        /\ UNCHANGED <<file, fat, kept>>
     \/ /\ r.at = "found" /\ call.op \in Modes
        /\ openCachedEntry(call.dir, r.last, r.lfnOrd, call.name, call.op,
                           Entry(call.dir, r.last))
        /\ Ends
     \/ /\ \/ r.at = "fail"
           \/ r.at = "create" /\ call.op = "read"
           \/ r.at = "found" /\ call.op \in {"mkdir", "rename"}         \* O_EXCL
        /\ UNCHANGED <<file, fat, kept>>
        /\ Ends
  /\ UNCHANGED <<program, fatOnDevice, at>>

BeginSearch(d, op, name) ==
  /\ pc = "idle"
  /\ Goes("search", [NoCall EXCEPT !.op = op, !.dir = d, !.name = name])
  /\ UNCHANGED <<program, volume, cache, file, history>>
open(d, name, mode) == ~file.open /\ BeginSearch(d, mode, name)
mkdir(d, name) == BeginSearch(d, "mkdir", name)

(* addDirCluster(): the new sector is filled with free entries in the      *)
(* data cache; its link is in the FAT cache.  A full volume ends the call. *)
addDirCluster ==
  LET sectors == Sectors(call.dir) IN
  /\ pc = "grow" /\ call.index >= Size(call.dir)
  /\ \/ /\ Len(sectors) < MaxDirSectors
        /\ \E c \in FreeClusters :
             /\ fat' = [fat EXCEPT ![sectors[Len(sectors)]] = c, ![c] = EOC]
             /\ Store(c, Zeroed)
        /\ UNCHANGED <<pc, call>>
     \/ /\ Len(sectors) = MaxDirSectors \/ FreeClusters = {}
        /\ Ends
        /\ UNCHANGED <<device, fat, cache>>
  /\ UNCHANGED <<program, fatOnDevice, file, history>>

(* makeUniqueSfn(): a short name that no entry of the directory has.       *)
UsedByFiles(entries) ==                                     \* slip: directories passed over
  {entries[i].name : i \in {j \in Live(entries) : entries[j].kind = "file"}}
Used(entries) == {entries[i].name : i \in Live(entries)}
makeUniqueSfn ==
  LET d == call.dir
      size == Size(d)
      entries == Entries(d)
      end == Min({FirstFree(entries), size - 1})
      used == Used(entries)
      next == IF Lost(call.name) THEN "lfn" ELSE "sfn" IN
  /\ pc = "grow" /\ call.index < size
  /\ IF call.alias
     THEN /\ ReadUpTo(d, end)
          /\ \/ \E sfn \in Hashes \ used : Goes(next, [call EXCEPT !.sfn = sfn])
             \/ Hashes \subseteq used /\ Ends
     ELSE Goes(next, call) /\ UNCHANGED <<device, cache>>
  /\ UNCHANGED <<program, fat, fatOnDevice, file, history>>

(* createLFN(): the entry with order 1 is before the short entry.          *)
createLFN ==
  /\ pc = "lfn"
  /\ StoreEntry(call.dir, call.index - call.order,
                LongEntry(call.name, call.order, call.sfn))
  /\ IF call.order = LfnEntries THEN Goes("sfn", call)
     ELSE Goes("lfn", [call EXCEPT !.order = @ + 1])
  /\ UNCHANGED <<program, fat, fatOnDevice, file, history>>

(* The short entry of a new empty file, which makes it exist.              *)
createSFN ==
  LET slot == ShortEntry("file", call.sfn, 0) IN
  /\ pc = "sfn"
  /\ StoreEntry(call.dir, call.index, slot)
  /\ at' = WithName(call.dir, call.name, call.index)
  /\ CASE call.op = "mkdir" \/ (call.op = "rename" /\ file.isDir) ->
            Goes("newdir", call) /\ UNCHANGED <<file, fat, kept>>
       [] call.op = "rename" /\ ~file.isDir ->
            Goes("copy", call) /\ UNCHANGED <<file, fat, kept>>
       [] OTHER ->
            /\ openCachedEntry(call.dir, call.index, freeNeed(call.name) - 1, call.name,
                               call.op, slot)
            /\ Ends
  /\ UNCHANGED <<program, fatOnDevice>>

-----------------------------------------------------------------------------
(* mkdir() after open(): the first cluster, the entry, then the entries    *)
(* for dot and dot dot.  A full volume leaves the empty file.              *)
newDirectory ==
  /\ pc = "newdir"
  /\ \/ \E c \in FreeClusters :
          /\ fat' = [fat EXCEPT ![c] = EOC]
          /\ Store(c, Zeroed)
          /\ Goes("newentry", [call EXCEPT !.first = c])
     \/ FreeClusters = {} /\ Ends /\ UNCHANGED <<fat, device, cache>>
  /\ UNCHANGED <<program, fatOnDevice, file, history>>

newEntry ==
  /\ pc = "newentry"
  /\ StoreEntry(call.dir, call.index, ShortEntry("subdir", call.sfn, call.first))
  /\ Goes("data", [call EXCEPT !.then = "dots"])
  /\ UNCHANGED <<program, fat, fatOnDevice, file, history>>

newDots ==
  /\ pc = "dots"
  /\ Store(call.first, [Contents[call.first] EXCEPT
                          ![0] = Slot("dot", Basis, 0, Basis, call.first),
                          ![1] = Slot("dotdot", Basis, 0, Basis, call.dir)])
  /\ Goes("data", [call EXCEPT !.then = IF call.op = "mkdir" THEN "idle" ELSE "copy"])
  /\ UNCHANGED <<program, fat, fatOnDevice, file, history>>

(* cacheSync(): the data cache, then the FAT cache. *)
syncData ==
  /\ pc = "data"
  /\ device' = Contents /\ Clean
  /\ pc' = "fat"
  /\ UNCHANGED <<program, fat, fatOnDevice, file, call, history>>

Synced == CASE call.op = "close" -> {file.first} [] call.op = "mkdir" -> {call.first}
            [] OTHER -> {}
syncFat ==
  /\ pc = "fat"
  /\ fatOnDevice' = fat
  /\ IF call.then = "idle"
     THEN /\ Ends
          /\ file' = IF call.op = "close" THEN Closed ELSE file
          /\ kept' = kept \cup (Synced \ {0})
     ELSE Goes(call.then, call) /\ UNCHANGED <<file, kept>>
  /\ UNCHANGED <<program, device, fat, cache, at>>

(* sync(), for close() and at the start of rename(). *)
BeginSyncNoEntry(c) == Goes("data", c)                      \* slip: entry not written
BeginSync(c) == Goes(IF file.dirty THEN "entry" ELSE "data", c)
syncEntry ==
  /\ pc = "entry"
  /\ StoreEntry(file.dir, file.index, [Entry(file.dir, file.index) EXCEPT !.first = file.first])
  /\ file' = [file EXCEPT !.dirty = FALSE]
  /\ pc' = "data"
  /\ UNCHANGED <<program, fat, fatOnDevice, call, history>>

close ==
  /\ pc = "idle" /\ file.open
  /\ BeginSync([NoCall EXCEPT !.op = "close"])
  /\ UNCHANGED <<program, volume, cache, file, history>>

(* write() of the first sector of a file, around the cache. *)
write ==
  /\ pc = "idle" /\ file.write /\ file.first = 0
  /\ \E c \in FreeClusters :
       /\ fat' = [fat EXCEPT ![c] = EOC]
       /\ device' = [device EXCEPT ![c] = Data]
       /\ file' = [file EXCEPT !.first = c, !.dirty = TRUE]
       /\ IF m_sector = c THEN Clean ELSE UNCHANGED cache
  /\ UNCHANGED <<program, fatOnDevice, pc, call, history>>

-----------------------------------------------------------------------------
(* rename(): the new entry is made as for a new file or directory, gets    *)
(* the contents of the old one, and the old one is removed.  The program   *)
(* does not move a directory into itself, which the code would do.         *)
rename(d, name) ==
  /\ pc = "idle" /\ file.open
  /\ ~file.isDir \/ d \notin DOMAIN Tree(Contents, fat, file.first)
  /\ BeginSync([NoCall EXCEPT !.op = "rename", !.dir = d, !.name = name, !.then = "search"])
  /\ UNCHANGED <<program, volume, cache, file, history>>

copyEntry ==
  /\ pc = "copy"
  /\ StoreEntry(call.dir, call.index, [call.saved EXCEPT !.name = call.sfn])
  /\ file' = [file EXCEPT !.dir = call.dir, !.index = call.index, !.name = call.name,
                          !.lfnOrd = freeNeed(call.name) - 1]
  /\ Goes(IF file.isDir THEN "dotdot" ELSE "del", [call EXCEPT !.old = file])
  /\ UNCHANGED <<program, fat, fatOnDevice, history>>

(* The dot dot of the new directory replaces the old one; its cluster is   *)
(* freed.  Preparing that cluster has written the new entry.               *)
DotDot == Contents[call.first][1]
moveDotDot ==
  /\ pc = "dotdot"
  /\ fat' = FreeChain(call.first)
  /\ Store(file.first, [Contents[file.first] EXCEPT ![1] = DotDot])
  /\ Goes("del", call)
  /\ UNCHANGED <<program, fatOnDevice, file, history>>

(* remove(): the clusters, the short entry, then the long name entries.    *)
BeginRemove ==
  /\ fat' = FreeChain(file.first)
  /\ kept' = kept \ {file.first}
  /\ file' = Closed
  /\ Goes("del", [NoCall EXCEPT !.op = "remove", !.old = file])
  /\ UNCHANGED <<program, fatOnDevice, at>>
remove ==
  /\ pc = "idle" /\ file.write
  /\ BeginRemove
  /\ UNCHANGED <<device, cache>>

(* rmdir(): the directory is read up to its first file or its end.         *)
rmdir ==
  LET d == file.first
      size == Size(d)
      end == Min({i \in 0 .. size - 1 : Entry(d, i).kind \in {"free", "file", "subdir"}}
                 \cup {size - 1}) IN
  /\ pc = "idle" /\ file.open /\ file.isDir
  /\ ReadUpTo(d, end)
  /\ IF isFatFileOrSubdir(Entry(d, end)) THEN UNCHANGED <<program, fat, fatOnDevice, file, pc, call, history>>
     ELSE BeginRemove

deleteSFN ==
  LET old == call.old IN
  /\ pc = "del"
  /\ StoreEntry(old.dir, old.index, Deleted)
  /\ at' = WithoutName(old.dir, old.name)
  /\ Goes("data", [call EXCEPT !.saved = Entry(old.dir, old.index), !.order = 1,
                               !.then = IF old.lfnOrd > 0 THEN "unlfn" ELSE "idle"])
  /\ UNCHANGED <<program, fat, fatOnDevice, file, kept>>

deleteLFN ==
  LET index == call.old.index - call.order
      slot == Entry(call.old.dir, index) IN
  /\ pc = "unlfn"
  /\ IF slot.kind # "lfn" \/ slot.order # call.order \/ slot.sum # call.saved.name
     THEN Ends /\ UNCHANGED <<device, cache>>
     ELSE /\ StoreEntry(call.old.dir, index, Deleted)
          /\ IF Last(slot) THEN Goes("data", [call EXCEPT !.then = "idle"])
             ELSE Goes("unlfn", [call EXCEPT !.order = @ + 1])
  /\ UNCHANGED <<program, fat, fatOnDevice, file, history>>

-----------------------------------------------------------------------------
(* A tree in which every cluster in use belongs to one entry, every long   *)
(* name to a short one, every dot dot to its parent.                       *)
EntriesOf(tree) == UNION {{d} \X Live(tree[d]) : d \in DOMAIN tree}
At(tree, e) == tree[e[1]][e[2]]
Reached(tree, links, entries) ==
  ChainSet(links, 0) \cup
  UNION {ChainSet(links, At(tree, e).first) : e \in {x \in entries : At(tree, x).first # 0}}
DotsOf(tree) ==
  \A e \in EntriesOf(tree) :
    LET first == At(tree, e).first
    IN At(tree, e).kind = "subdir" =>
         /\ tree[first][0].kind = "dot" /\ tree[first][0].first = first
         /\ tree[first][1].kind = "dotdot" /\ tree[first][1].first = e[1]

(* The indices of the long name entries that belong to the short entry e. *)
LongNameOf(tree, e) ==
  LET slots == tree[e[1]]
  IN {i \in DOMAIN slots :
        /\ e[2] - LfnEntries <= i /\ i < e[2]
        /\ slots[i] = Slot("lfn", slots[e[2] - 1].name, e[2] - i, slots[e[2]].name, 0)}
NoOrphans(tree) ==
  \A d \in DOMAIN tree : \A i \in DOMAIN tree[d] :
    tree[d][i].kind = "lfn" => \E j \in Live(tree[d]) : i \in LongNameOf(tree, <<d, j>>)
Intact(tree, links) ==
  /\ Reached(tree, links, EntriesOf(tree)) = {c \in Cluster : links[c] # 0}
  /\ \A e, f \in EntriesOf(tree) :
       At(tree, e).first # 0 =>
         /\ At(tree, e).first \notin ChainSet(links, 0)
         /\ At(tree, e).kind = "file" => links[At(tree, e).first] = EOC
         /\ e # f => At(tree, e).first \notin ChainSet(links, At(tree, f).first)
  /\ NoOrphans(tree) /\ DotsOf(tree)

NameOf(tree, e) ==
  IF At(tree, e).name \in LongSfns THEN tree[e[1]][e[2] - 1].name ELSE At(tree, e).name
Listed(tree) ==
  LET entry(k) == CHOOSE e \in EntriesOf(tree) : e[1] = k[1] /\ NameOf(tree, e) = k[2]
  IN [k \in {<<e[1], NameOf(tree, e)>> : e \in EntriesOf(tree)} |-> entry(k)[2]]
OnDevice == Tree(device, fatOnDevice, 0)
InProgram == Tree(Contents, fat, 0)

(* The power fails or the program gives up after an error.  A volume that  *)
(* is not intact is not used as it is: it is formatted.                    *)
restart ==
  LET tree == OnDevice
      intact == Intact(tree, fatOnDevice) IN
  /\ program.restarts
  /\ Clean
  /\ file' = Closed /\ Ends /\ UNCHANGED program
  /\ \/ /\ intact
        /\ fat' = fatOnDevice
        /\ at' = Listed(tree)
        /\ UNCHANGED <<device, fatOnDevice, kept>>
     \/ /\ ~intact
        /\ device' = [c \in Cluster |-> IF c = rootDirStart THEN Zeroed ELSE Data]
        /\ fat' = [c \in Cluster |-> IF c = rootDirStart THEN EOC ELSE 0]
        /\ fatOnDevice' = fat'
        /\ at' = <<>> /\ kept' = {}

(* A call begins when none runs; else the directories need not be found. *)
Next ==
  \/ /\ pc = "idle"
     /\ \E d \in Directories, name \in Names :
          \/ \E mode \in program.modes : open(d, name, mode)
          \/ mkdir(d, name)
          \/ rename(d, name)
  \/ addDirCluster
  \/ makeUniqueSfn
  \/ createLFN
  \/ createSFN
  \/ newDirectory
  \/ newEntry
  \/ newDots
  \/ syncData
  \/ syncFat
  \/ syncEntry
  \/ close
  \/ write
  \/ search
  \/ copyEntry
  \/ moveDotDot
  \/ remove
  \/ rmdir
  \/ deleteSFN
  \/ deleteLFN
  \/ restart

Spec == Init /\ [][Next]_vars

-----------------------------------------------------------------------------
Index == 0 .. MaxDirSectors * EntriesPerSector - 1

(* Types; every entry and every sector is one of the volume. *)
TypeOK ==
  /\ program \in Programs
  /\ \A c \in Cluster : fat[c] \in Cluster \cup {0, EOC} /\ fatOnDevice[c] \in Cluster \cup {0, EOC}
  /\ m_sector \in Cluster \cup {0} /\ (m_sector = 0 <=> m_buffer = Data)
  /\ file.first \in Cluster \cup {0} /\ file.index \in Index
  /\ call.first \in Cluster \cup {0} /\ call.dir \in Cluster \cup {0}
  /\ \A k \in DOMAIN at : at[k] \in Index
  /\ kept \subseteq Cluster

(* Between two calls a name is found, at its entry, exactly when the       *)
(* program has created it and not removed or renamed it since.             *)
LookupAgrees ==
  pc = "idle" =>
    \A d \in Directories, name \in Names :
      LET r == Search(d, name)
      IN IF <<d, name>> \in DOMAIN at THEN r.at = "found" /\ r.last = at[<<d, name>>]
         ELSE r.at = "create"

(* At any moment a file with a long name has all of the name on the device *)
(* and no two entries of a directory have the same short name.             *)
WholeNames ==
  LET tree == OnDevice IN
  \A e \in EntriesOf(tree) :
    At(tree, e).name \in LongSfns => LongNameOf(tree, e) = e[2] - LfnEntries .. e[2] - 1
SfnUnique ==
  LET tree == OnDevice IN
  \A e, f \in EntriesOf(tree) :
    e # f /\ e[1] = f[1] => At(tree, e).name # At(tree, f).name

(* At any moment a file or directory that was synced and is not being      *)
(* removed has an entry on the device that names its cluster, in use in    *)
(* the FAT there, through a rename too; no entry of another file names it, *)
(* but for that of the open file when O_TRUNC has emptied it.  The         *)
(* exception is a rename into a directory that has grown: its cacheSync    *)
(* writes the deletion of the old entry before the link to the sector of   *)
(* the new one.                                                            *)
LinksWritten(d) == Chain(fatOnDevice, d) = Sectors(d)
SettledKept ==
  LET tree == OnDevice
      user == IF call.op = "remove" THEN call.old ELSE file
      stale(c) == IF user.open /\ user.first # c THEN {<<user.dir, user.index>>} ELSE {} IN
  (call.op = "rename" /\ pc = "fat" => LinksWritten(call.dir)) =>
  \A c \in kept :
    LET namers == {e \in EntriesOf(tree) : At(tree, e).first = c} \ stale(c)
    IN /\ namers # {} /\ fatOnDevice[c] # 0
       /\ Cardinality(namers) <= IF call.op = "rename" THEN 2 ELSE 1

(* At any moment what the device has for a directory holds entries, never  *)
(* what a file has left in the sector.                                     *)
NoGarbage ==
  LET tree == OnDevice
  IN \A d \in DOMAIN tree : \A i \in DOMAIN tree[d] : tree[d][i] # Garbage

(* Behind the first free entry of a directory all are free, which open()   *)
(* takes for granted.                                                      *)
FreeBehind ==
  pc = "idle" =>
    LET tree == InProgram
    IN \A d \in DOMAIN tree : \A i \in DOMAIN tree[d] :
         i >= FirstFree(tree[d]) => tree[d][i].kind = "free"

(* Between two calls the dot entries of a directory name it and its parent *)
(* and every cluster in use belongs to a directory or a file.              *)
DotDotRight == pc = "idle" => DotsOf(InProgram)
NothingLeaked ==
  pc = "idle" =>
    LET tree == InProgram
        entries == EntriesOf(tree) \ (IF file.open THEN {<<file.dir, file.index>>} ELSE {})
        own == IF file.open /\ file.first # 0 THEN ChainSet(fat, file.first) ELSE {}
    IN {c \in Cluster : fat[c] # 0} = Reached(tree, fat, entries) \cup own
=============================================================================
