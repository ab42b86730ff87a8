--------------------------- MODULE ExFatDirectory ---------------------------
(***************************************************************************)
(* Directories of an exFAT volume: what open, close, remove, rename, mkdir *)
(* and rmdir of src/src/ExFatLib (ExFatFile.cpp, ExFatFileWrite.cpp) do to *)
(* the entry sets with their checksums, to the allocation bitmap and the   *)
(* FAT, and to the sectors on the device.                                  *)
(*                                                                         *)
(* A file has a set of entries: one for the file, one for its stream and   *)
(* one for each part of its name.  A directory, other than the root, has a *)
(* length and may be contiguous, which an object of it keeps; the root is  *)
(* a chain of the FAT.  A call is a sequence of steps as in FatDirectory:  *)
(* each prepares one sector in the data cache, which has the FAT as well;  *)
(* cacheSync writes the bitmap cache first, then the data cache.  The      *)
(* power may fail between any two steps.                                   *)
(*                                                                         *)
(* The build has USE_EXFAT_BITMAP_CACHE; a cluster is one sector, the FAT  *)
(* and the bitmap are one sector each.  A program keeps its directories in *)
(* the root, a file has at most one cluster, and two names differ in their *)
(* hash.                                                                   *)
(***************************************************************************)
EXTENDS Integers, Sequences, FiniteSetsExt, TLC

CONSTANTS
  AllNames,
  NameEntries,        \* the name entries of a name: one for each 15 characters
  Programs            \* bound: the volumes and programs that are looked at

Modes == {"read", "write", "trunc"}   \* O_RDONLY, O_RDWR | O_CREAT, and with O_TRUNC
FatSector == 1                        \* the sector of the FAT; a cluster's sector is its number
RootCluster == 2

(* A program has a volume with clusters up to lastCluster and              *)
(* entriesPerSector entries in each, of which the first systemEntries of   *)
(* the root are used for the volume; it uses some names and modes, and     *)
(* goes on after a power failure or not.  It never changes the working     *)
(* directory, or uses a directory alone through it, or through other       *)
(* objects too, which no run looks at: see Shares.                         *)
DirectoryAssumption ==
  /\ NameEntries \in [AllNames -> Nat \ {0}]
  /\ \A p \in Programs :
       /\ p.lastCluster \in Nat /\ p.lastCluster > RootCluster
       /\ p.entriesPerSector \in Nat \ {0} /\ p.systemEntries \in 0 .. p.entriesPerSector
       /\ p.names \subseteq AllNames /\ p.modes \subseteq Modes
       /\ p.restarts \in BOOLEAN /\ p.cwd \in {"never", "alone", "shared"}

VARIABLES
  program,    \* the one of Programs that runs
  device,     \* the FAT and the sectors of the clusters; a file's data is not followed
  bitmapOnDevice,
  bitmap,     \* the clusters in use, as m_bitmapCache has them
  m_sector, m_buffer, \* m_dataCache while it is dirty; a clean one is as the device, and 0 here
  m_vwd,      \* the volume working directory
  file,       \* the file object of the program
  pc, call,   \* the call that runs: its step and its variables
  (* History variables: they record what happened and guard nothing. *)
  at,         \* where the program has put each name: <<directory, name>> to index
  kept        \* first clusters of files and directories that were synced

Cluster == RootCluster .. program.lastCluster
EntriesPerSector == program.entriesPerSector
Names == program.names

volume == <<device, bitmapOnDevice, bitmap>>
cache == <<m_sector, m_buffer>>
history == <<at, kept>>
vars == <<program, volume, cache, m_vwd, file, pc, call, history>>

(* The entries: type is what is in byte 0, and n the setCount of a file or *)
(* the number of a part of a name.                                         *)
NoName == "no name"
NoSum == <<FALSE, FALSE, 0, 0, NoName>>
End == [type |-> "end", n |-> 0, sub |-> FALSE, contig |-> FALSE, first |-> 0, length |-> 0,
        name |-> NoName, sum |-> NoSum]
Unused == [End EXCEPT !.type = "unused"]
System == [End EXCEPT !.type = "system"]
Garbage == [End EXCEPT !.type = "garbage"]        \* a data sector read as entries
FileEntry(count) == [End EXCEPT !.type = "file", !.n = count]
StreamEntry(name) == [End EXCEPT !.type = "stream", !.name = name]
NameEntry(name, part) == [End EXCEPT !.type = "name", !.n = part, !.name = name]
IsUsed(slot) == slot.type \notin {"end", "unused"}          \* EXFAT_TYPE_USED
Zeroed == [i \in 0 .. EntriesPerSector - 1 |-> End]
Data == <<>>

(* A file object.  contig, first and length are those of its data; dir,    *)
(* pos and inChain say where its set is and whether the directory it is in *)
(* was a chain when it was opened (m_dirPos).  A directory is known by its *)
(* first cluster, the root by 0.                                           *)
Closed == [open |-> FALSE, sub |-> FALSE, write |-> FALSE, dirty |-> FALSE, contig |-> FALSE,
           first |-> 0, length |-> 0, dir |-> 0, pos |-> 0, inChain |-> FALSE, setCount |-> 0,
           name |-> NoName]
Root == [Closed EXCEPT !.open = TRUE]
NoCall == [op |-> "none", dir |-> Closed, cwd |-> FALSE, name |-> NoName, index |-> 0,
           which |-> "dir", obj |-> Closed, first |-> 0, old |-> Closed, i |-> 0,
           then |-> "idle"]

-----------------------------------------------------------------------------
(* prepare(sector) of the data cache: a dirty sector that is not the one,  *)
(* or that another is read before, is written.  Store leaves the sector in *)
(* the cache with a change.                                                *)
Contents == IF m_sector = 0 THEN device ELSE [device EXCEPT ![m_sector] = m_buffer]
fat == Contents[FatSector]
Clean == m_sector' = 0 /\ m_buffer' = Data
Store(sector, content, others) ==
  /\ device' = IF sector = m_sector /\ ~others THEN device ELSE Contents
  /\ m_sector' = sector /\ m_buffer' = content
Load(sector, others) ==
  IF m_sector = 0 \/ (m_sector = sector /\ ~others) THEN UNCHANGED <<device, cache>>
  ELSE device' = Contents /\ Clean

(* fatGet() from the first cluster of a chain to its end. *)
Chain(links, first) ==
  LET walk[k \in 1 .. Cardinality(Cluster)] ==
        IF k = 1 THEN <<first>>
        ELSE LET before == walk[k - 1]
                 next == links[before[Len(before)]]
             IN IF next \in Cluster THEN Append(before, next) ELSE before
  IN walk[Cardinality(Cluster)]
EXFAT_EOC == 0 - 1

(* The clusters that an object of a directory reads: a contiguous one up   *)
(* to its length, the other up to the end of the chain.                    *)
Sectors(links, o) ==
  IF o.contig THEN [k \in 1 .. o.length |-> o.first + k - 1]
  ELSE Chain(links, IF o.first = 0 THEN RootCluster ELSE o.first)
SlotIn(sector, i) == IF sector = Data THEN Garbage ELSE sector[i % EntriesPerSector]
Slots(contents, o) ==
  LET sectors == Sectors(contents[FatSector], o)
  IN [i \in 0 .. Len(sectors) * EntriesPerSector - 1 |->
        SlotIn(contents[sectors[i \div EntriesPerSector + 1]], i)]
Size(o) == Len(Sectors(fat, o)) * EntriesPerSector

(* The sets of a directory, by the index of the file entry: those that an  *)
(* open() of their name finds.                                             *)
IsSet(slots, i) ==
  /\ slots[i].type = "file" /\ i + slots[i].n \in DOMAIN slots
  /\ slots[i + 1].type = "stream"
  /\ slots[i].n = 1 + NameEntries[slots[i + 1].name]
  /\ \A k \in 2 .. slots[i].n : slots[i + k] = NameEntry(slots[i + 1].name, k - 1)
Sets(slots) == {i \in DOMAIN slots : IsSet(slots, i)}
Opened(slots, dir, i) ==
  [open |-> TRUE, sub |-> slots[i].sub, write |-> FALSE, dirty |-> FALSE,
   contig |-> slots[i + 1].contig, first |-> slots[i + 1].first, length |-> slots[i + 1].length,
   dir |-> dir.first, pos |-> i, inChain |-> ~dir.contig, setCount |-> slots[i].n,
   name |-> slots[i + 1].name]

(* The directories: the root, and those whose set is in the root, as an    *)
(* open() would have them now.                                             *)
Subdirectories(contents) ==
  LET slots == Slots(contents, Root)
  IN {Opened(slots, Root, i) :
        i \in {j \in Sets(slots) : slots[j].sub /\ slots[j + 1].first # 0}}
DirectoriesOf(contents) == {Root} \cup Subdirectories(contents)
Directory(d) == CHOOSE o \in DirectoriesOf(Contents) : o.first = d
Directories == {o.first : o \in DirectoriesOf(Contents)}

(* dirCache(i): to find a later cluster of a chain the FAT is read.        *)
DirSector(o, i) == Sectors(fat, Directory(o.dir))[(o.pos + i) \div EntriesPerSector + 1]
dirSeek(o, i) == o.inChain /\ (o.pos + i) \div EntriesPerSector # o.pos \div EntriesPerSector
Entry(o, i) == SlotIn(Contents[DirSector(o, i)], o.pos + i)
LoadEntry(o, i) == Load(DirSector(o, i), dirSeek(o, i))
StoreEntry(o, i, slot) ==
  LET s == DirSector(o, i)
  IN Store(s, [Contents[s] EXCEPT ![(o.pos + i) % EntriesPerSector] = slot], dirSeek(o, i))

(* The entries of a directory are read up to one, or to the end. *)
ReadUpTo(o, last, atEnd) ==
  Load(Sectors(fat, o)[1], last >= EntriesPerSector \/ (atEnd /\ ~o.contig))

-----------------------------------------------------------------------------
(* openPrivate(dir, fname): the search for a name. *)
freeNeed(name) == 2 + NameEntries[name]

Searching == [at |-> "more", inSet |-> FALSE, part |-> 0, pos |-> 0, free |-> 0,
              freeIndex |-> 0, last |-> 0]
FreeSeen(st, i, need) ==
  [st EXCEPT !.freeIndex = IF st.free = 0 THEN i ELSE @, !.free = IF @ < need THEN @ + 1 ELSE @,
             !.inSet = FALSE]
RunKept(st, need) == st                                     \* slip: run goes on
RunEnds(st, need) == [st EXCEPT !.free = IF @ < need THEN 0 ELSE @]
SetBegins(st, slot, i) ==
  IF slot.type = "file" THEN [st EXCEPT !.inSet = TRUE, !.pos = i, !.part = 0] ELSE st
SetGoesOn(st, slot, name) ==
  CASE slot.type = "stream" -> [st EXCEPT !.inSet = slot.name = name]
    [] slot.type = "name" ->
         IF slot # NameEntry(name, st.part + 1) THEN [st EXCEPT !.inSet = FALSE]
         ELSE [st EXCEPT !.part = @ + 1, !.at = IF st.part + 1 = NameEntries[name]
                                                THEN "found" ELSE "more"]
    [] OTHER -> [st EXCEPT !.inSet = FALSE]
Seen(st, slot, i, name) ==
  LET need == freeNeed(name) IN
  CASE slot.type = "end" -> [FreeSeen(st, i, need) EXCEPT !.at = "create"]
    [] slot.type = "unused" -> FreeSeen(st, i, need)
    [] IsUsed(slot) /\ ~st.inSet -> SetBegins(RunEnds(st, need), slot, i)
    [] OTHER -> SetGoesOn(st, slot, name)

Search(o, name) ==
  LET slots == Slots(Contents, o)
      size == Cardinality(DOMAIN slots)
      scan[i \in 0 .. size] ==
        IF i = 0 THEN Searching
        ELSE LET st == scan[i - 1]
             IN IF st.at # "more" THEN st
                ELSE [Seen(st, slots[i - 1], i - 1, name) EXCEPT !.last = i - 1]
      end == scan[size]
  IN IF end.at # "more" THEN end
     ELSE [end EXCEPT !.at = "create", !.freeIndex = IF end.free = 0 THEN size ELSE @]

-----------------------------------------------------------------------------
Formatted ==
  [s \in {FatSector} \cup Cluster |->
     CASE s = FatSector -> [c \in Cluster |-> IF c = RootCluster THEN EXFAT_EOC ELSE 0]
       [] s = RootCluster ->
            [i \in 0 .. EntriesPerSector - 1 |-> IF i < program.systemEntries THEN System ELSE End]
       [] OTHER -> Data]
Init ==
  /\ program \in Programs
  /\ device = Formatted
  /\ bitmap = {RootCluster} /\ bitmapOnDevice = {RootCluster}
  /\ m_sector = 0 /\ m_buffer = Data
  /\ m_vwd = Root /\ file = Closed
  /\ pc = "idle" /\ call = NoCall
  /\ at = <<>> /\ kept = {}

Ends == pc' = "idle" /\ call' = NoCall
Goes(step, c) == pc' = step /\ call' = c
Fails == Ends /\ file' = IF call.op \in Modes \cup {"close"} THEN Closed ELSE file
Without(k) == [x \in DOMAIN at \ {k} |-> at[x]]

(* The clusters of a file: the count of a contiguous one comes from the    *)
(* length, a chain is followed.                                            *)
ToFreeFirst(o) == IF o.first = 0 THEN {} ELSE {o.first}     \* slip: only the first
ToFree(o) ==
  IF o.first = 0 THEN {}
  ELSE IF o.contig THEN o.first .. o.first + (1 + (o.length - 1)) - 1
  ELSE LET chain == Chain(fat, o.first) IN {chain[k] : k \in DOMAIN chain}
FreeClusters(o) ==
  /\ bitmap' = bitmap \ ToFree(o)
  /\ IF o.contig \/ o.first = 0 THEN UNCHANGED <<device, cache>>
     ELSE Store(FatSector, [c \in Cluster |-> IF c \in ToFree(o) THEN 0 ELSE fat[c]], FALSE)

(* open(dirFile, path): a path names something in the working directory or *)
(* begins at the root.  Each directory on the way is opened, copied to     *)
(* tmpDir and closed, which syncs the caches.  Unless its cwd is "shared"  *)
(* a program does not use a directory through two objects at a time: when  *)
(* a directory grows through one of them, the other has the old length and *)
(* does not find what is behind it.                                        *)
Shares(d) == program.cwd = "shared" \/ (m_vwd.first # d /\ ~(file.open /\ file.first = d))
FollowPath(d, op, name) ==
  LET named == [NoCall EXCEPT !.op = op, !.name = name] IN
  /\ pc = "idle"
  /\ \/ /\ m_vwd.first = d
        /\ Goes("search", [named EXCEPT !.dir = m_vwd, !.cwd = TRUE])
        /\ UNCHANGED <<device, cache>>
     \/ /\ d = 0 /\ m_vwd.first # 0
        /\ Goes("search", [named EXCEPT !.dir = Root])
        /\ UNCHANGED <<device, cache>>
     \/ /\ d # 0 /\ Shares(d)
        /\ ReadUpTo(Root, Directory(d).pos + Directory(d).setCount, FALSE)
        /\ Goes("bitmap", [named EXCEPT !.dir = Directory(d), !.then = "search"])
  /\ UNCHANGED <<program, bitmapOnDevice, bitmap, m_vwd, file, history>>

open(d, name, mode) == ~file.open /\ FollowPath(d, mode, name)
mkdir(name) == FollowPath(0, "mkdir", name)

(* What is found is opened; a directory only for reading.  O_TRUNC frees   *)
(* the clusters and writes the set.                                        *)
openFound(pos) ==
  LET found == Opened(Slots(Contents, call.dir), call.dir, pos)
      object == [found EXCEPT !.write = call.op # "read"]
      emptied == [object EXCEPT !.first = 0, !.length = 0] IN
  CASE call.op # "read" /\ found.sub -> Ends /\ UNCHANGED <<file, bitmap, kept>>
    [] call.op = "trunc" /\ ~found.sub /\ found.first # 0 ->
         /\ file' = emptied /\ bitmap' = bitmap \ ToFree(object)
         /\ kept' = kept \ {found.first}
         /\ Goes("entry", [call EXCEPT !.obj = emptied, !.which = "obj", !.then = "idle"])
    [] OTHER -> file' = object /\ Ends /\ UNCHANGED <<bitmap, kept>>

search ==
  LET r == Search(call.dir, call.name)
      need == freeNeed(call.name)
      size == Size(call.dir)
      wanted == IF r.at = "create" THEN r.last + need - r.free ELSE r.last IN
  /\ pc = "search"
  /\ ReadUpTo(call.dir, IF wanted < size THEN wanted ELSE size - 1, wanted >= size)
  /\ \/ /\ r.at = "create" /\ call.op # "read"
        /\ Goes("grow", [call EXCEPT !.index = r.freeIndex, !.which = "dir", !.then = "idle"])
        /\ UNCHANGED <<file, bitmap, kept>>
     \/ r.at = "found" /\ call.op \in Modes /\ openFound(r.pos)
     \/ /\ \/ r.at = "create" /\ call.op = "read"
           \/ r.at = "found" /\ call.op \in {"mkdir", "rename"}         \* O_EXCL
        /\ Ends
        /\ UNCHANGED <<file, bitmap, kept>>
  /\ UNCHANGED <<program, bitmapOnDevice, m_vwd, at>>

chdir(d) ==
  /\ pc = "idle" /\ program.cwd # "never"
  /\ IF d = 0 THEN UNCHANGED <<device, cache>>
     ELSE ReadUpTo(Root, Directory(d).pos + Directory(d).setCount, FALSE)
  /\ m_vwd' = Directory(d)
  /\ UNCHANGED <<program, bitmapOnDevice, bitmap, file, pc, call, history>>

-----------------------------------------------------------------------------
(* addDirCluster() for the directory that a new set does not fit in, or    *)
(* for the directory that mkdir() makes: a cluster is taken, and linked if *)
(* it is not the next one; it is zeroed; the new length is written.  A     *)
(* full volume ends the call, or the search for a cluster never ends: from *)
(* cluster 2 it does not come back to where it began.                      *)
bitmapFind(last) ==
  LET free == Cluster \ bitmap
      behind == {c \in free : c > last}
  IN CASE free = {} -> {}
       [] free # {} /\ last = 0 -> free
       [] OTHER -> {Min(IF behind = {} THEN free ELSE behind)}
LastCluster(o) ==
  IF call.which = "obj" THEN 0 ELSE Sectors(fat, o)[Len(Sectors(fat, o))]
Linked(o, last, c) ==
  [x \in Cluster |-> CASE x = c -> EXFAT_EOC
                       [] x = last -> c
                       [] o.contig /\ x \in o.first .. last - 1 -> x + 1
                       [] OTHER -> fat[x]]
Referenced(c) == m_vwd' = IF c.cwd THEN c.dir ELSE m_vwd
addCluster ==
  LET o == call[call.which]
      last == LastCluster(o) IN
  /\ \/ pc = "grow" /\ call.index + freeNeed(call.name) > Size(call.dir)
     \/ pc = "newdir"
  /\ \/ \E c \in bitmapFind(last) :
          LET next == last = 0 \/ (o.contig /\ c = last + 1)
              result == [call EXCEPT !.first = c, ![call.which].contig = next,
                                     ![call.which].sub = @ \/ pc = "newdir"] IN
          /\ bitmap' = bitmap \cup {c}
          /\ IF next THEN UNCHANGED <<device, cache>>
             ELSE Store(FatSector, Linked(o, last, c), FALSE)
          /\ Goes("zero", result)
          /\ Referenced(result)
     \/ /\ bitmapFind(last) = {}
        /\ IF call.which = "dir" /\ o.first = 0 THEN Load(FatSector, FALSE)    \* rootLength()
           ELSE UNCHANGED <<device, cache>>
        /\ \/ last # program.lastCluster /\ Ends
           \/ last \in {0, program.lastCluster} /\ Goes("hung", NoCall)
        /\ UNCHANGED <<bitmap, m_vwd>>
  /\ UNCHANGED <<program, bitmapOnDevice, file, history>>

LongerKept(o) == o                                          \* slip: length not updated
Longer(o) == [o EXCEPT !.length = @ + 1]
addDirCluster ==
  LET result == [call EXCEPT ![call.which] = Longer(@), !.i = 0,
                             !.then = IF call.which = "dir" THEN "grow" ELSE "newfirst"] IN
  /\ pc = "zero"
  /\ Store(call.first, Zeroed, FALSE)
  /\ IF call.which = "dir" /\ call.dir.first = 0
     THEN Goes("bitmap", [call EXCEPT !.then = "grow"]) /\ UNCHANGED m_vwd
     ELSE Goes("entry", result) /\ Referenced(result)
  /\ UNCHANGED <<program, bitmapOnDevice, bitmap, file, history>>

(* The set of a new empty file, entry by entry; sync() then completes it.  *)
NewEntry(name, i) ==
  CASE i = 0 -> FileEntry(freeNeed(name) - 1)
    [] i = 1 -> StreamEntry(name)
    [] OTHER -> NameEntry(name, i - 1)
BeginSet ==
  /\ pc = "grow" /\ call.index + freeNeed(call.name) <= Size(call.dir)
  /\ Goes("set", [call EXCEPT
       !.i = 0, !.which = "obj",
       !.obj = [Closed EXCEPT !.open = TRUE, !.write = TRUE, !.dir = call.dir.first,
                              !.pos = call.index, !.inChain = ~call.dir.contig,
                              !.setCount = freeNeed(call.name) - 1, !.name = call.name]])
  /\ UNCHANGED <<program, volume, cache, m_vwd, file, history>>
createSet ==
  LET o == call.obj
      next == CASE call.op = "mkdir" -> "newdir"
                [] call.op = "rename" -> "moved"
                [] OTHER -> "idle" IN
  /\ pc = "set"
  /\ IF IsUsed(Entry(o, call.i))
     THEN LoadEntry(o, call.i) /\ Fails /\ UNCHANGED at
     ELSE /\ StoreEntry(o, call.i, NewEntry(call.name, call.i))
          /\ IF call.i < o.setCount
             THEN Goes("set", [call EXCEPT !.i = @ + 1]) /\ UNCHANGED <<file, at>>
             ELSE /\ Goes("entry", [call EXCEPT !.i = 0, !.then = next])
                  /\ at' = (<<o.dir, call.name>> :> o.pos) @@ at
                  /\ file' = IF call.op \in Modes THEN o ELSE file
  /\ UNCHANGED <<program, bitmapOnDevice, bitmap, m_vwd, kept>>

-----------------------------------------------------------------------------
(* syncDir(): the entries of the set are read, and changed to what the     *)
(* object has, then the checksum of them is set.                           *)
Updated(o, slot) ==
  CASE slot.type = "file" -> [slot EXCEPT !.sub = o.sub]
    [] slot.type = "stream" ->
         [slot EXCEPT !.contig = o.contig, !.first = o.first, !.length = o.length]
    [] OTHER -> slot
syncEntry ==
  LET o == call[call.which]
      slot == Entry(o, call.i) IN
  /\ pc = "entry"
  /\ IF slot.type \in {"file", "stream"} THEN StoreEntry(o, call.i, Updated(o, slot))
     ELSE LoadEntry(o, call.i)
  /\ IF slot.type \notin {"file", "stream", "name"} THEN Fails
     ELSE /\ UNCHANGED file
          /\ IF call.i < o.setCount THEN Goes("entry", [call EXCEPT !.i = @ + 1])
             ELSE Goes("sum", call)
  /\ UNCHANGED <<program, bitmapOnDevice, bitmap, m_vwd, history>>

Sum(file0, stream) == <<file0.sub, stream.contig, stream.first, stream.length, stream.name>>
SumOfEntry(o) == Sum(Entry(o, 0), StreamEntry(o.name))      \* slip: before the change
SumOf(o) == Sum(Entry(o, 0), Entry(o, 1))
setChecksum ==
  LET o == call[call.which] IN
  /\ pc = "sum"
  /\ StoreEntry(o, 0, [Entry(o, 0) EXCEPT !.sum = SumOf(o)])
  /\ Goes("bitmap", call)
  /\ UNCHANGED <<program, bitmapOnDevice, bitmap, m_vwd, file, history>>

(* cacheSync(): the bitmap cache, then the data cache. *)
syncBitmap ==
  /\ pc = "bitmap"
  /\ bitmapOnDevice' = bitmap
  /\ Goes("data", call)
  /\ UNCHANGED <<program, device, bitmap, cache, m_vwd, file, history>>
syncData ==
  /\ pc = "data"
  /\ device' = Contents /\ Clean
  /\ IF call.then = "idle"
     THEN /\ Ends
          /\ file' = IF call.op = "close" THEN Closed ELSE file
          /\ kept' = kept \cup {c \in {call.obj.first} : call.op \in {"close", "mkdir"} /\ c # 0}
     ELSE Goes(call.then, [call EXCEPT !.i = 0]) /\ UNCHANGED <<file, kept>>
  /\ UNCHANGED <<program, bitmapOnDevice, bitmap, m_vwd, at>>

BeginSync ==
  Goes(IF file.dirty THEN "entry" ELSE "bitmap",
       [NoCall EXCEPT !.op = "close", !.obj = file, !.which = "obj"])
close ==
  /\ pc = "idle" /\ file.open
  /\ BeginSync
  /\ UNCHANGED <<program, volume, cache, m_vwd, file, history>>

(* write() of the first sector of a file, around the cache. *)
write ==
  /\ pc = "idle" /\ file.write /\ file.first = 0
  /\ \E c \in bitmapFind(0) :
       /\ bitmap' = bitmap \cup {c}
       /\ device' = [device EXCEPT ![c] = Data]
       /\ file' = [file EXCEPT !.first = c, !.length = 1, !.contig = TRUE, !.dirty = TRUE]
       /\ IF m_sector = c THEN Clean ELSE UNCHANGED cache
  /\ UNCHANGED <<program, bitmapOnDevice, m_vwd, pc, call, history>>

-----------------------------------------------------------------------------
(* mkdir(): the first cluster is written to the set by a second sync().    *)
newFirstCluster ==
  /\ pc = "newfirst"
  /\ Goes("entry", [call EXCEPT !.obj.first = call.first, !.i = 0, !.then = "idle"])
  /\ UNCHANGED <<program, volume, cache, m_vwd, file, history>>

(* rename(): a new empty file is made, its set gets what the file has, and *)
(* the old set is removed.  Directories stay in the root.                  *)
rename(d, name) ==
  /\ file.open
  /\ file.sub => d = 0 /\ (program.cwd = "shared" \/ m_vwd.first # file.first)
  /\ FollowPath(d, "rename", name)
moveSet ==
  LET o == call.obj
      moved == [file EXCEPT !.dir = o.dir, !.pos = o.pos, !.inChain = o.inChain,
                            !.setCount = o.setCount, !.name = o.name, !.dirty = FALSE] IN
  /\ pc = "moved"
  /\ file' = moved
  /\ Goes("entry", [call EXCEPT !.obj = moved, !.old = file, !.i = 0, !.then = "unset"])
  /\ UNCHANGED <<program, volume, cache, m_vwd, history>>

(* remove(): the clusters, then the entries of the set. *)
BeginRemove ==
  /\ FreeClusters(file)
  /\ kept' = kept \ {file.first}
  /\ file' = Closed
  /\ Goes("unset", [NoCall EXCEPT !.op = "remove", !.old = file])
  /\ UNCHANGED <<program, bitmapOnDevice, m_vwd, at>>
remove == pc = "idle" /\ file.write /\ BeginRemove

(* rmdir(): the directory is read up to its first entry in use or its end. *)
rmdir ==
  LET slots == Slots(Contents, file)
      last == Min({i \in DOMAIN slots : slots[i].type # "unused"} \cup {Size(file) - 1}) IN
  /\ pc = "idle" /\ file.open /\ file.sub /\ (program.cwd = "shared" \/ m_vwd.first # file.first)
  /\ IF IsUsed(slots[last])
     THEN /\ ReadUpTo(file, last, FALSE)
          /\ UNCHANGED <<program, bitmap, bitmapOnDevice, m_vwd, file, pc, call, history>>
     ELSE BeginRemove

unsetEntry ==
  LET old == call.old IN
  /\ pc = "unset"
  /\ StoreEntry(old, call.i, Unused)
  /\ IF call.i < old.setCount
     THEN Goes("unset", [call EXCEPT !.i = @ + 1]) /\ UNCHANGED at
     ELSE /\ Goes("bitmap", [call EXCEPT !.then = "idle"])
          /\ at' = Without(<<old.dir, old.name>>)
  /\ UNCHANGED <<program, bitmapOnDevice, bitmap, m_vwd, file, kept>>

-----------------------------------------------------------------------------
(* A tree in which every cluster in use belongs to one entry, every entry  *)
(* to a set, and every set has its checksum.                               *)
FilesOf(contents) ==
  UNION {LET slots == Slots(contents, o) IN {Opened(slots, o, i) : i \in Sets(slots)} :
           o \in DirectoriesOf(contents)}
ClustersOf(links, o) == LET sectors == Sectors(links, o) IN {sectors[k] : k \in DOMAIN sectors}
Holding(files) == {f \in files : f.first # 0}
Reached(links, files) ==
  ClustersOf(links, Root) \cup UNION {ClustersOf(links, f) : f \in Holding(files)}
SumsOf(slots) == \A i \in Sets(slots) : slots[i].sum = Sum(slots[i], slots[i + 1])
InSets(slots) ==
  {i \in DOMAIN slots : slots[i].type \in {"file", "stream", "name", "garbage"}} =
    UNION {i .. i + slots[i].n : i \in Sets(slots)}
Intact(contents, used) ==
  LET links == contents[FatSector]
      files == FilesOf(contents) IN
  /\ Reached(links, files) = used
  /\ \A f \in Holding(files) : ClustersOf(links, f) \cap ClustersOf(links, Root) = {}
  /\ \A f, g \in Holding(files) : f # g => ClustersOf(links, f) \cap ClustersOf(links, g) = {}
  /\ \A f \in files : f.sub => f.first # 0
  /\ \A o \in DirectoriesOf(contents) :
       LET slots == Slots(contents, o) IN SumsOf(slots) /\ InSets(slots)
Listed(files) ==
  [k \in {<<f.dir, f.name>> : f \in files} |->
     (CHOOSE f \in files : <<f.dir, f.name>> = k).pos]

(* The power fails or the program gives up after an error.  A volume that  *)
(* is not intact is not used as it is: it is formatted.                    *)
restart ==
  LET intact == Intact(device, bitmapOnDevice) IN
  /\ program.restarts \/ pc = "hung"
  /\ Clean
  /\ file' = Closed /\ m_vwd' = Root /\ Ends /\ UNCHANGED program
  /\ \/ /\ intact
        /\ bitmap' = bitmapOnDevice
        /\ at' = Listed(FilesOf(device))
        /\ UNCHANGED <<device, bitmapOnDevice, kept>>
     \/ /\ ~intact
        /\ device' = Formatted
        /\ bitmap' = {RootCluster} /\ bitmapOnDevice' = {RootCluster}
        /\ at' = <<>> /\ kept' = {}

(* A call begins when none runs; else the directories need not be found. *)
Next ==
  \/ /\ pc = "idle"
     /\ \/ \E d \in Directories, name \in Names :
             \/ \E mode \in program.modes : open(d, name, mode)
             \/ rename(d, name)
        \/ \E name \in Names : mkdir(name)
        \/ \E d \in Directories : chdir(d)
  \/ search
  \/ addCluster
  \/ addDirCluster
  \/ BeginSet
  \/ createSet
  \/ syncEntry
  \/ setChecksum
  \/ syncBitmap
  \/ syncData
  \/ close
  \/ write
  \/ newFirstCluster
  \/ moveSet
  \/ remove
  \/ rmdir
  \/ unsetEntry
  \/ restart

Spec == Init /\ [][Next]_vars
-----------------------------------------------------------------------------
(* The clusters of objects and entries are in the volume, a clean cache is *)
(* empty, and the sets that the program has placed are in a directory.     *)
TypeOK ==
  /\ program \in Programs
  /\ bitmap \subseteq Cluster /\ bitmapOnDevice \subseteq Cluster
  /\ \A c \in Cluster : fat[c] \in Cluster \cup {0, EXFAT_EOC}
  /\ m_sector \in Cluster \cup {0, FatSector} /\ (m_sector = 0 <=> m_buffer = Data)
  /\ \A o \in {file, m_vwd, call.dir, call.obj, call.old} : o.first \in Cluster \cup {0}
  /\ \A k \in DOMAIN at : at[k] \in Nat
  /\ kept \subseteq Cluster

(* Between two calls a name is found, at its set, exactly when the program *)
(* has created it and not removed or renamed it since: a set is written in *)
(* a run of free entries that goes on from one cluster to the next.  That  *)
(* goes for a directory as an open() has it and for the object of the      *)
(* working directory, whose length is that of the last call through it.    *)
LookupAgrees ==
  pc = "idle" =>
    \A o \in DirectoriesOf(Contents) \cup {m_vwd}, name \in Names :
      LET r == Search(o, name)
          k == <<o.first, name>>
      IN IF k \in DOMAIN at THEN r.at = "found" /\ r.pos = at[k] ELSE r.at = "create"

(* Between two calls each set has the checksum of its entries, those that  *)
(* are in another sector too (syncDir).                                    *)
SumsRight ==
  pc = "idle" =>
    \A o \in DirectoriesOf(Contents) : SumsOf(Slots(Contents, o))

(* Between two calls the length in the set of a directory is that of its   *)
(* clusters: the run of a contiguous one, the chain of the other one after *)
(* it could not grow in place (addDirCluster); the clusters are in use and *)
(* hold entries only.                                                      *)
LengthsRight ==
  pc = "idle" =>
    \A o \in Subdirectories(Contents) :
      LET clusters == ClustersOf(fat, o) IN
      /\ o.length = Cardinality(clusters) /\ o.length > 0
      /\ \A c \in clusters : c \in bitmap /\ Contents[c] # Data

(* At any moment a file or directory that was synced and is not removed is *)
(* named by a set on the device, through a rename too, and its cluster is  *)
(* in use in the bitmap there.                                             *)
SettledKept ==
  kept \subseteq {f.first : f \in FilesOf(device)} \cap bitmapOnDevice

(* At any moment a contiguous directory on the device has entries only: a  *)
(* cluster is zeroed there before the length that has it.  In the others,  *)
(* and in the root, the link in the FAT is there before.                   *)
NoGarbage ==
  \A o \in Subdirectories(device) :
    o.contig => LET slots == Slots(device, o) IN \A i \in DOMAIN slots : slots[i] # Garbage

(* Between two calls a cluster is in use exactly when a directory, the set *)
(* of a file or the open file has it.                                      *)
NothingLeaked ==
  pc = "idle" =>
    bitmap = Reached(fat, FilesOf(Contents)) \cup (IF file.dirty THEN {file.first} ELSE {})

(* Between two calls nothing is in use behind the first entry that ends a  *)
(* directory: a removed set stays in front of the sets behind it.          *)
FreeBehind ==
  pc = "idle" =>
    \A o \in DirectoriesOf(Contents) :
      LET slots == Slots(Contents, o) IN
      \A i, j \in DOMAIN slots : i < j /\ slots[i].type = "end" => slots[j].type = "end"
=============================================================================
