# SdFat in TLA+

SdFat is a FAT12/16/32 and exFAT file system for SD cards on small
controllers. This directory holds TLA+ models of its core, the TLC runs that check
them on small instances, and TLAPS proofs of their main safety properties for all
instances. Every definition is translated from the C++ under `src/`; file
names below are relative to `src/src/`. `PROJECT.json` maps each definition to the
lines it stands for.

## The system

| part | state | operations | used by |
|---|---|---|---|
| `common/FsCache` | one sector buffer, its number, dirty and mirror bits | `prepare`, `sync`, `cacheSafeRead/Write`, `clear`, `init`, `dirty` | every partition (two of them, when the FAT has its own) |
| `FatLib/FatPartition` | the FAT on the device, the search start, the free count | `allocateCluster`, `allocContiguous`, `freeChain`, `fatGet/fatPut`, `freeClusterCount`, `init` | `FatFile` |
| `FatLib/FatFile` | position, current cluster, size, first cluster, flags | `open`, `read`, `write`, `seekSet`, `fsetpos`, `truncate`, `preAllocate`, `contiguousRange`, `sync`, `close` | programs, `FsFile`, streams, `RingBuf` |
| `FatLib/FatFileLFN`, `FatFileSFN`, `FatName` | directory entries on the device, the two caches of the partition | `open` by name, `remove`, `rename`, `mkdir`, `rmdir`, long names | `FatVolume` |
| `ExFatLib` | the same layers for exFAT: bitmap, FAT only for fragmented files, entry sets with a checksum, a valid length | as above | programs, `FsFile` |
| `FsLib` | a pointer to a FAT or an exFAT object | forwards every call | programs |
| `RingBuf.h` | a byte ring, its count, head and tail | `write`, `read` in an interrupt handler; `writeOut`, `readIn`, `sync` in the main program | loggers, players |
| `BufferedPrint.h`, `iostream/` | a small buffer over a file | `print`, `sync`; `fgets`, `fputs`, `fseek` | programs |
| `SdCard/SdSpiCard`, `TeensySdio`, `PioSdio` | the card's transfer state and next sector | `readSectors`, `writeSectors`, `syncDevice`, `begin` | the caches, as `FsBlockDevice` |
| formatters, debug dumps, SPI drivers, text and date conversion | none worth a model | | |

A call goes down: a file asks the partition for clusters and the cache for sectors,
the cache asks the device. Nothing calls back except the optional date callback. The
library is single threaded: one call runs to its end before the next. The only real
concurrency is the interrupt handler of `RingBuf`. What makes the code hard is

* failure at any device access, in the middle of a call that has already changed
  something (nearly every function ends in `fail: return false` without undoing);
* state that must agree in several places: cache and device, two FAT copies, chain and
  size and directory entry, cursor and chain, flags that permit shortcuts;
* long sequences of legal calls: seek, truncate, preallocate, append in any order;
* for `RingBuf`, an interrupt between any two steps.

What makes each part correct:

* **FsCache** - what was stored is what is read, by whatever way; a clean buffer is
  on the device; the FAT copies agree when a sync succeeds.
* **FatPartition** - the chains of the files are disjoint and end; the free count is
  the number of free clusters; a free cluster is found.
* **FatFile** - a position is always translated to the right cluster; a written byte
  stays; the contiguous flag is true; the directory entry is behind only when marked.
* **RingBuf** - a bounded FIFO, whatever the handler does.
* **Directories** - a name is found where it was put; whenever the power fails, what
  was synced is on the device under one of its names, with its long name and its clusters.
* **exFAT** - the bitmap covers the files' clusters; a fragmented file has its chain in
  the FAT; bytes that the file did not store are never read.
* **Buffers over a file** (`RingBuf`, `StdioStream`, `BufferedPrint`) - nothing that was
  accepted is lost, moved or overtaken, whatever the file refuses.
* **Cards** (`SdSpiCard`, `PioSdioCard`, `TeensySdioCard`) - the driver's idea of the open
  transfer is the card's; what it reports as read or written was that.

## Modules

| module | models | checked by | proved in |
|---|---|---|---|
| `FsCache` | `common/FsCache.{h,cpp}`, `fatCachePrepare`, `dataCachePrepare` | `MCFsCache` with `cache.cfg`, `cache_torn.cfg` | `FsCacheProofs` |
| `FatPartition` | allocation in `FatLib/FatPartition.{h,cpp}` and its callers in `FatFile` | `MCFatPartition` with `alloc.cfg`, `alloc_hole.cfg` | `FatPartitionProofs` |
| `FatFile` | an open file, `FatLib/FatFile.{h,cpp}` | `FsFile` with `file.cfg`, `FatFile` with `file_setpos.cfg`, `file_retry.cfg` | `FatFileProofs` |
| `ExFatFile` | an open file and its volume, `ExFatLib/ExFatFile*.cpp`, `ExFatPartition.cpp` | `FsFile` with `file.cfg`, `ExFatFile` with `exfat_remove.cfg` | `FsFileProofs` |
| `FsFile` | `FsLib/FsFile.{h,cpp}` over `FatFile` and `ExFatFile` | `FsFile` with `file.cfg` | `FsFileProofs` |
| `FatDirectory` | directories, `FatLib/FatFile.cpp`, `FatFileLFN.cpp`, with both caches of `FatPartition` | `MCFsDirectory` with `dir.cfg` | `FsDirectoryLemmas`, `FsDirectoryProofs` |
| `ExFatDirectory` | directories, `ExFatLib/ExFatFile.cpp`, `ExFatFileWrite.cpp`, with both caches of `ExFatPartition` and the working directory of `ExFatVolume` | `MCFsDirectory` with `dir.cfg` | - |
| `FsDirectory` | the path calls of `FsLib/FsVolume.{h,cpp}` over `FatDirectory` and `ExFatDirectory` | `MCFsDirectory` with `dir.cfg` | `FsDirectoryProofs`, while the volume is FAT |
| `ByteFifo` | what `RingBuf` promises | as `FifoSpec` of `FileBuffers` | `FileBuffersProofs` |
| `RingBuf` | `RingBuf.h` | `FileBuffers` with `ringbuf.cfg`, `RingBuf` with `ringbuf_read.cfg` | `FileBuffersProofs` |
| `StdioStream` | `iostream/StdioStream.{h,cpp}` | `FileBuffers` with `ringbuf.cfg` | `FileBuffersProofs` |
| `BufferedPrint` | `BufferedPrint.h` | `FileBuffers` with `ringbuf.cfg` | `FileBuffersProofs` |
| `FileBuffers` | a program with one of the three buffers above | with `ringbuf.cfg` | `FileBuffersProofs` |
| `BlockDevice` | what the file system expects of a device | as `DeviceSpec` of `SdCard` | `SdCardProofs` |
| `SdSpiCard` | `SdCard/SdSpiCard/SdSpiCard.{h,cpp}` | `SdCard` with `sdspi.cfg` | `SdCardProofs` |
| `SdCard` | the choice of a driver, `PioSdioCard.cpp`, `TeensySdio.cpp` | `SdCard` with `sdspi.cfg` | `SdCardProofs` |

How they fit together: `FatPartition` promises `FatFile` the clusters that it takes as
given, `FsCache` the sectors, `BlockDevice` is what `FsCache` takes for its device, and what a
file may do to a write (fail after any part) is what the buffers meet. `FsFile`,
`FsDirectory`, `FileBuffers` and `SdCard` compose alternatives of which a program has one: they
instantiate the modules, let a variable choose, and state one property of all.

Definitions keep the names of the code. Some modules have operators marked *slip*:
nothing uses them. Each is a neighbour's form after a plausible bug (a missing reset,
an off-by-one, a dropped test), and putting it in the neighbour's place makes
TLC refute the property named with it under `"mutants"` in `PROJECT.json`.

### FsCache

`disk` is the device, `m_status`, `m_sector` and `m_buffer` are the members of the same
name. A sector's contents are a function from `Cell` to `Val`, so that a client can store a
part. Each call is one action and each device access in it may fail: a failed write
leaves the old or the new contents, a failed read may leave anything in the destination
(`SdSpiCard::readData` stores before it tests the CRC). `sync` that fails leaves the
first copy, both copies or neither on the device and the sector dirty.
`prepare` is split by its outcomes. `content` records what clients have stored, `damaged` the
sectors whose buffer a failed read tore, `dropped` the FAT sectors that `init` dropped
while their copies differed; these three and `got` only record.

The second FAT is never named by a client, as in the code; clients that store in a FAT
sector have prepared it for writing, as every `fatPut` does.

### FatPartition

`fat` is the FAT, abstract from its packing: 0 free, a cluster, or `EOC`. A call is a step,
with each FAT access a possible failure that leaves what was done before. `freeChain` is
one step per cluster, because it may stop anywhere and because a chain that is half freed
is what the properties are about. `truncate` and `remove` start it. `head` is the
first cluster that a directory entry names. A file whose `remove` failed is `gone`: its
entry names clusters that are free, and the model assumes that it is not used again.

The searches are stated by what they find (`Found`, `FirstFit`) instead of by their loops:
the first free cluster after the current one, then from the search start up to it; the
lowest group that fits. `skipped` and `leaked` are history: the free clusters that the
search start has passed, and those that a failed allocation took.

### FatFile

One open file of one volume. `chain` is its clusters in FAT order, `dirFirst` and `dirSize`
its directory entry. `read` and `write` are several steps: the call, then for each
transfer the move to a cluster and the transfer, then the end, so that a failure may
hit after any part. A partial sector goes through the cache, whole sectors around it; a
read may take one sector or all that are left of the cluster, depending on what is
cached. Sector contents are abstracted to one `byte` of the file, any of `Followed`:
`place` is the set of device places that hold its value, `written` says that it was stored
and not cut off. A sector reserved without reading keeps either what was in it or
something else (what was in the buffer), and other files may have the cache between two calls.

Assumptions: allocation may return any cluster that the file does not own
(`FatPartition` proves that no more can be asked); no date callback is set; after a
failed call the program closes the file (not with `Retries`), and a file that a failed
`truncate` or `O_TRUNC` has damaged is removed and created again; `fsetpos` is given a
position saved since the last truncation, and with `EarlySetPos = FALSE` not while
`FILE_FLAG_PREALLOCATE` is set; the torn buffer of a failed read is `FsCache`'s matter.

### ExFatFile

The file of exFAT with the bitmap (`allocated`, `m_bitmapStart`) and the FAT (`fat`) under it,
since here the file decides by its own flag whether the FAT is valid. `addCluster`
allocates behind the current cluster if it can, and otherwise turns a contiguous file
into a chain, entry by entry, before it links; any of it may fail. `write` fills from the
valid length up to the position, cluster by cluster, then transfers. One byte is followed as
in `FatFile`: `place` is where its value is, `own` where something is that this file stored
for it, zeros of a gap included; a cluster that was another file's holds neither.
Other files allocate and free clusters between two calls (`others`). `Devices` has a device
that may fail at any access and one that works, for `SearchReaches`. `bitmapModify` stops at the
first bit that has the value already, and a count of 0 means 2^32, as in the code.

Facts the model makes visible and no property is about: `bitmapFind` from start 0 never
ends when no group fits (`pc = "hung"`), and `ExFatPartition::init` searches from 0, so that a
full volume hangs on `begin()`; a write that finds the disk full leaves
`m_validLength > m_dataLength`; `sync` clears the dirty flag before `syncDir` has written;
a conversion that fails in the middle leaves the flag cleared and the chain partial. After
a failed call the program closes the file and it is repaired or removed (`repair`, external).

### FsFile

`FsBaseFile` forwards to the one of two file objects that lives in its memory. The module
instantiates both, sharing the variables they have in common, and states each property
once. `volume` is what `begin()` found.

### FatDirectory

The entries of all directories on the device, sector by sector, the FAT on the device and
in its cache, and the data cache with its one dirty sector. A call is a sequence of
steps, each of which prepares one sector (so that the dirty one is written) and changes
entries in it; `cacheSync` writes the data cache, then the FAT cache, in two steps. The
power may fail between any two (`restart`), and a device error ends a call at the same places.
`Search` is the loop of `open(dirFile, fname)`: the long name entries of a set from the last to
the first with their checksum, the short name, the run of free entries that a new name
needs. `call` has the locals of the call that runs; `at` and `kept` are history: where the
program has put each name, and the first clusters of what was synced.

Abstractions: a cluster is a sector and the FAT is a sector; the checksum tells short
names apart; only a dirty cache is followed; names of the long kind all have the
same first short name, which is the hard case. The program does not move a directory
into itself (the code does not refuse it). A volume that the power failure left not
intact (lost clusters, orphan entries) is formatted, as nobody promises anything of it.

`SettledKept` has one exception, in the comment there: a rename into a directory that has to
grow. Its `cacheSync` writes the deletion of the old entry before the FAT has the link to
the new sector, so a power failure between the two loses a file that was synced.

What was met and is not explored: orphan long name entries directly before free ones hide a file
that is created right behind them from its long name, `O_CREAT` then makes a second
one, and an orphan followed by another short entry makes `open` fail; `mkdir` and a rename of a
directory on a full volume leave an empty file; an object of the root through which the
root grew is marked dirty and its `sync` writes sector 0; the check "deleted by another open
file object" in `sync` fails to notice when the entry has been used again.

### ExFatDirectory

The same for exFAT, in the same style: the FAT and the sectors of the clusters on the device, one
data cache with one dirty sector, and the bitmap, which has a cache of its own that `cacheSync`
writes first. A file is a set of entries (file, stream, one for each 15 characters of the name) in
consecutive slots, with a checksum that `syncDir` computes entry by entry and stores in the first.
Directories have a length and are contiguous until they cannot grow in place; the root is a chain.
`call.dir` and `m_vwd` are objects as the code has them, with the length and the contiguous flag
of the time they were opened; `Directory(d)` is what an `open()` now would give.

Abstractions: a cluster is a sector, the FAT and the bitmap a sector each; the first cluster of a
file or of a new directory is any free one (`m_bitmapStart` is followed in `ExFatFile`, not here),
so that a search on a full volume either fails or never ends (`pc = "hung"`, left only by a
reset), and a set's checksum is the tuple of what it covers; a file has at most one cluster, and
subdirectories are in the root. A volume that a power failure left not intact is formatted.

A program of the run uses a directory through one object at a time (`Shares`), since reading a
contiguous directory stops at the `m_dataLength` of the object (`ExFatFile.cpp:594`) and growing it
raises that of one object only (`ExFatFileWrite.cpp:141`). With `cwd = "shared"` `LookupAgrees` is
violated: after `chdir("/a")` a file created as `/a/b`, for which `/a` had to grow, is not found
as `b`, and `exists("b")` is false.

`NoGarbage` is about contiguous directories: the link to a new cluster of a chain, the root among
them, reaches the device before the zeroes do. Not explored further: `mkdir` writes the set with a
length and first cluster 0, and the cluster in a second `sync`; on a full volume it leaves an
empty file.

### FsDirectory

`FsVolume` forwards the calls on paths to the one of two volumes that `begin()` has made. As in
`FsFile`, the module instantiates both, shares the variables they have in common and states each
property once. `WholeNames` is about the long names on FAT and about the checksums on exFAT,
`DirectoriesRight` about the dot entries and about the lengths, `SfnUnique` about FAT only.

### RingBuf

`mode` chooses the logger (handler writes, main program `writeOut`) or the player (main
program `readIn`, handler reads). The handler's call is atomic, as interrupts do not
nest; the main program's calls are split at every access to shared state: the count
is read, each segment transferred, head or tail moved, and `m_count += amount` is
`noInterrupts`, load, store, `interrupts`. The handler may run in between whenever
`enabled`. Byte number i of the stream has the value i. The file is external
and may transfer less than it is asked, but reports exactly what it took.

### StdioStream

`stream` is the object with its file: `m_buf` has the bytes from `m_p` on when they were
read ahead, or those up to `m_p` when they are to be written. A transfer of the file may fail
after any part. `fread`, `fgets` and `write` take a step for each pass of their loops. `known`
and `position` are what the program knows: the bytes it has and where the next one is.
The program follows the rules in the comments of `fopen` (a seek or flush between output and input,
a seek or the end of the file between input and output) and closes the stream after an error.

With `Careful = TRUE` it also keeps away from what the code does wrong, where otherwise
`BuffersAgree` is violated at once:

* a stream opened with `+` reads without `S_SRD` until it was written to (`fillBuf`, line 394),
  so that `ftell` counts the bytes read ahead, `ungetc` refuses and `fflush` drops them;
* `fseek` with `SEEK_CUR` passes an absolute position to `seekCur` (line 198);
* `flushBuf` of a stream for appending writes 0 bytes, too, for which the file goes to its
  end: input after output, a seek and a flush finds the end of the file;
* `getc` of a stream for output only, and `putc` of one for input only, leave 255 in
  `m_r` or `m_w`.

### BufferedPrint

What print functions format is a number of bytes, byte number i having the value i. The
file may take a part and say nothing of it, and the program may call again. The same
byte may then be in the file more than once; that none is missing or early is `PrintKeeps`.

### FileBuffers

A program with one of `RingBuf`, `StdioStream` and `BufferedPrint` (`buffer`). It extends
`RingBuf`, whose properties keep their names, and its fairness is that of `RingBuf`.

### SdSpiCard

The driver's members `m_state`, `m_curSector`, `m_spiActive` and `m_dedicatedSpi`, and the
card it talks to: what the card is at (`card`), the sector it sends or receives
next, and its contents. A call is one action; since one call is a chain of exchanges (a
read first stops a write, which waits for the card, which may time out), a call is
described by the set of its outcomes, and `syncDevice`, `cardCommand`, `readStart` and the
others are operators from the condition of driver and card to such a set, nested as the
functions are. Each exchange may fail: a command is not carried out or its answer is
lost, a block does not come or is refused, the card stays busy, and between two calls
it may lose its power. `raw` is a transfer that the program runs itself (`readStart`,
`readData` ..., `readStop`); in it the program calls nothing else, as the header asks.
`last` records the last call about sectors, for the refinement.

Assumptions about the card: a positive answer means that the command was carried
out; a block accepted in a multi-sector write is stored (`writeSector` in shared mode
asks with CMD13 and needs no such assumption); a card that is deselected hears nothing and
its data line reads `0XFF`. The driver is used between a `begin` that succeeded and `end`.

One thing the model makes visible is not a property here, because nothing promises
otherwise in so many words: after a failed `readData` or `writeData` the driver keeps
`m_state` and `m_curSector`, so asking again for the same sector skips the start of
the transfer, talks to a deselected card and fails, again and again, until another sector
is asked for, or `syncDevice` or `begin` is called. Likewise `writeStop` after a refused
block sends its stop token to a deselected card, finds the line ready and reports
success. `StreamAgrees` and `DeviceSpec` say that no wrong data comes of either.

### SdCard

Extends `SdSpiCard` with the two SDIO drivers. They leave a multi-sector transfer open after every
call, as SPI does in dedicated mode, so `m_state` and `m_curSector` of `SdSpiCard` stand for their
members too, and the card is the same. In FIFO mode of the Teensy a write hands its block
over and returns (`controller`, `block`); the error is found by `waitTransferComplete` in
the next call. `lost` records a block that no call has reported.

Neither driver closes a transfer that failed: a call that goes on with it meets a card that
stands at another sector. With `Retries = TRUE` a program repeats such a call, and `DeviceSpec` is
violated in four steps; with `FALSE` it asks for another sector or syncs. `TeensySdioCard::begin`
does not reset `m_transferActive`; `readStart` of `PioSdioCard` does not set `m_curState`, so that
`readStop` sends nothing; `end` of the Teensy does nothing. Not modelled: registers, transfers
that the program runs itself on SDIO, and the block count limit of the older Teensys.

## Runs

| run | shows | bounds |
|---|---|---|
| `cache` | no stored data is lost, clean means on the device, FAT copies agree, reads are right | 6 sectors: two FAT, their mirrors, two data sectors; one cell, two values |
| `cache_torn` | violated: `isCached` true for a buffer that a failed read has torn | same |
| `alloc` | no cross links, count exact, free clusters findable, files isolated | 4 clusters, 2 files |
| `alloc_hole` | violated: "checked all clusters" while one is free | same, no failures |
| `ringbuf` | ring buffer: FIFO refinement, exact count, bytes in place, every byte reaches the file; stream and print buffer: nothing lost or moved | 5 slots, 12 bytes, handler calls of up to 3; stream buffer of 3, file of 4, calls of up to 4; print buffer of 2, 5 bytes |
| `ringbuf_read` | violated: `read(buf, count)` returns bytes not written | 4 slots, 9 bytes |
| `sdspi` | open transfers agree on all drivers, a shared bus is released, late errors are reported, each driver is a block device | 3 sectors, two contents, calls of up to 2 sectors |
| `file` | both file systems: cursor, written bytes, nothing stale, contiguous flag, sizes, directory entry, bitmap | FAT: 3 clusters of 2 sectors of 2 bytes, 2^32 scaled to 10, calls of up to 4 bytes; exFAT: 3 clusters of a sector of 2 bytes, one of them another file's, calls of up to 3 |
| `file_setpos` | violated: written bytes lost after `fsetpos` in a preallocated file | as the FAT part, no failures |
| `file_retry` | violated: a retry after a failed transfer writes outside the file | same, with retries |
| `exfat_remove` | violated: `remove` after a full disk frees another file's clusters | 3 clusters, device that works |
| `dir` | both file systems: names are found, synced files survive a power failure, long names whole, checksums, dot entries and lengths right, nothing leaked | four kinds of volume of FAT, three of exFAT: see below |

Why the bounds are enough. *cache*: two data sectors make a range of two, and the cache
can hold the first, the second, or neither; two FAT sectors let one be evicted for the
other and for a data sector; values are compared only for equality, so the symmetry is
sound. *alloc*: four clusters allow two interleaved files, a hole under the search start, a
group after a hole, and a full volume; files are interchangeable. *ringbuf*: transfers
wrap, fill the buffer exactly and go round it more than twice; 5 is no power of two, so
`advance` wraps by comparison. The unsigned width is 16, larger than the sum of two sizes,
as `size_t` is. *file*: three clusters give a contiguous and two fragmented orders; a call of
4 bytes spans a partial sector, whole sectors and a cluster boundary; the size limit
(10 bytes here) is inside the third cluster, and positions up to it are all tried.
The followed bytes are the first and last of a cluster, inner ones, and one in the
last sector. On exFAT three clusters let a file grow contiguously, be turned into a chain around
another's cluster, and meet a full volume; gaps span a whole cluster.

*dir*: three clusters with directories of up to two sectors of three entries, a short and
a long name (three entries), every mode, with power failures; a long name then
straddles two sectors and a directory grows while it is being renamed into. The rest without
restarts: three long names with one hash to go round, so that the third finds none; two short
names and a long one in two clusters, for runs of free entries around one in use; four clusters
of one sector with two directories that move into one another. Clusters and short names are
interchangeable.

*dir*, exFAT: sectors of four entries and sets of three or four, so that sets straddle clusters and every
second name makes the directory grow. Three clusters with two short names and power failures; a
short and a long name in every mode, which makes runs of free entries that are one too short;
four clusters with the working directory, in which a directory grows in place, or around
another's cluster and becomes a chain, and the volume fills up. Only short names are interchangeable,
as clusters have an order.

*ringbuf*, streams: a buffer of 3 with 1 byte for `ungetc` is refilled twice in a file of 4, and a
write of 4 goes round it; `Uint8` is 16, above any count. A print of 2 or more bytes exceeds
the print buffer's 2.

*sdspi*: three sectors let a call of two be continued by a call of one, let a transfer reach
the end of the card, and always leave a sector that a misplaced block would damage.

Deadlock is checked in every run.

Fairness is used only in `RingBuf`: weak fairness of the main program (a logger's `loop()`
never stops calling `writeOut` or `sync`) and strong fairness of a file write that takes
something (a file that is asked again and again at some time takes a byte). The
handler has none.

## What the violated runs say

* `FsCache.cpp:41`: `prepare` keeps `m_sector` and `m_status` when the read into the buffer
  fails. `FsCache.h:138`: "true if the sector is cached." The next use of the old sector
  takes the torn buffer for it; setting `m_sector` to `0XFFFFFFFF` before the read would do.
* `FatPartition.cpp:317`: `<` should be `<=`. A freed cluster that is the search start is never
  searched: "Can't find space, checked all clusters." (`FatPartition.cpp:45`).
* `RingBuf.h:185`: `bytesFree()` should be `bytesUsed()`.
* `FatFile.cpp:278`: `fsetpos` does not clear `FILE_FLAG_PREALLOCATE` as `seekSet` does.
* `ExFatFileWrite.cpp:261`: `1 + ((m_dataLength - 1) >> shift)` is 0 for a file that has a cluster
  and no length, and `bitmapModify` takes 0 for 2^32. `ExFatFile.h:654`: "The directory entry and
  all data for the file are deleted."
* `FatFile.cpp:1395`: a failed transfer leaves `m_curCluster` advanced but not the position.

The passing runs are those of the same modules under the assumption that keeps the
disagreement out: the torn sectors are excepted (`damaged`), clusters freed at the search
start are (`skipped`), `CallerCaps`, `EarlySetPos = FALSE`, `Retries = FALSE`, `Careful`.

## Proofs

All are checked by `tlapm` for every value of the constants that the `ASSUME`s of the
modules allow, and none uses an unproved fact.

* `CacheCorrect`: `TypeOK`, `Coherent`, `CleanIsOnDevice`, `MirrorAgrees`, `ReadsContent`. The
  invariants are almost inductive together: `Coherent` of an evicted sector needs
  `CleanIsOnDevice`, and `MirrorAgrees` needs that the mirror bit marks exactly the FAT
  sectors (`TypeOK`). `ReadsContent` is preserved by each action from the others. Each of
  the five is also stated by itself as a corollary, and so are the parts of
  `AllocationCorrect` and `RingCorrect`.
* `AllocationCorrect`, `FilesIsolated`, `CountCorrect`. That the chains of two files are disjoint
  is not inductive: it is about reachability. `NoCrossLinks` is, being about single
  entries: no cluster is named twice, none names a free one, and files and
  `freeing` begin at clusters that nobody names. `NoCrossLinksImpliesDisjoint` derives the
  former without induction over chains, because `Chain` is an intersection of closed
  sets: the complement of one chain is such a set for another. `CountExact` goes through
  the cardinality theorems of the library.
* `RingCorrect` and `ImplementsFifo`, for a caller that reads no more than is there
  (`CallerCaps`). The inductive invariant adds `InFlight`: what the main program found
  remains true while the handler runs, and `loaded` is still `m_count` at the store. The
  refinement maps the handler's and the file's transfers to `Put` and `Get` and the rest
  to stuttering.
* `TransferAgrees`, `BusShared` and `ImplementsBlockDevice`. `TypeOK`, `StreamAgrees` and
  `BusReleased` are inductive together. One lemma per exchange says what each of its
  outcomes leaves (`CommandSent`, `ReadStopped`, `WriteStopped`, `Synced`, `Started`,
  `ReadPassed`, `WritePassed`); `OpenedAt` is the core: whether the start of a transfer is
  skipped or not, a selected card is at the sector asked for. A failure is harmless
  because it deselects the card (`AwayInv`), and nothing selects it again before
  `m_state` is idle. Blocks then can only pass at the right sector, which gives the
  refinement.
* `CardTypeCorrect`, `CardTransferAgrees`, `SdioTransferAgrees` and `CardImplementsBlockDevice`:
  the same of `SdCard`, the card with any of its drivers. For SDIO the invariant says which
  sector the card stands at while the driver has a transfer open, and that the driver gives the
  transfer up with the call that failed; that a program does not go on with it (`Retries = FALSE`)
  is a hypothesis, and without it the last two are false.
* `LateErrorReported`: `ErrorsReported` of the Teensy SDIO driver, with `Retries` as without.
  The invariant `ErrorStands` says where a lost block shows: the transfer is still marked
  open, and the controller shows the error or was reset by `begin()`, so that the next call
  that waits for it fails.
* `PrintsKept`: `PrintKeeps` of `BufferedPrint`, which `BuffersAgree` of run `ringbuf` contains.
  The invariant splits what was printed at a byte up to which the file has everything and
  from which the buffer has everything; `PrintTakes` says that a file which takes any part of
  a run that begins there still has its bytes in order.
* `StreamKept`: `StreamAgrees` of `StdioStream`, for every size of buffer, file and call, and a
  file that fails after any part, for a program that keeps away from what the stream does
  wrong (`Careful`, which is a hypothesis: without it `StreamAgrees` is false). It is not
  inductive. `StreamInv` says which of three the stream is. With no direction, or reading
  (`Reader`), the buffer is the piece of the file in front of its position, and `m_w` is 0, so
  that `putc` turns it round. Writing (`Writer`), the buffer completes the file, `m_r` is 0, and
  `m_p + m_w` is the size of the buffer or both are 0. It also says what the last call leaves
  (`last`): only a program that read last may have bytes read ahead, and one that wrote last has a
  buffer for writing. After a failure only one thing is kept, that no byte is left which
  `fclose` would write a second time. There is a lemma for each call, and below them one each for
  `flushBuf` (`MadeWritable`), `fillBuf` (`Filled`), taking (`Takes`) and putting bytes (`Puts`). That
  bytes may be put in the buffer one after the other and written at once is
  `OverwrittenTwice`.
* `BuffersCorrect` and `BuffersImplementFifo`: what run `ringbuf` checks, but for the
  liveness, of a program that has any of the three buffers.

* `FatFileCorrect`: every property of `FatFile` that `file` checks, for every size of volume,
  cluster and call and a device that fails anywhere. None is inductive. `IInv` adds where the
  cursor is (`CursorOK`: between two transfers in the cluster of the byte *before* the
  position, so that a position at the end of a cluster belongs to the cluster behind it), that the
  first cluster is that of the chain and no cluster is in it twice (`ChainOK`), how sizes,
  clusters and position are ordered in each step of a call (`SizesOK`), that the entry has no size
  without a cluster (`EntryOK`), and that what was written is below the size (`WrittenBelow`),
  which is why a truncation at any position cuts off exactly what is behind it. There is a lemma for
  each action; below them is arithmetic of positions (`SameCluster`, `SectorOfOffset`).
* `ExFatFileCorrect`: the same of `ExFatFile`, with its bitmap and FAT. `CountOK` says that a
  contiguous file counts as many clusters as it has, which is what `truncate` and
  `remove` clear bits with; `ContentsOK` that what the *entry* names was stored, so that the file is in
  place when it is opened again. The search of the bitmap and the freeing of a chain
  are minima over sets. The links are put entry by entry and any of them may fail.
* `FsFileTypes`, `TransferInFile`, `NoByteLost`, `CountingIsRight`, `LengthsOrdered`,
  `EntryNotBehind`, `GapsFilled`, `OthersUntouched` and `FreeClustersFound`: the properties as `file`
  checks them, of the file object on either file system. `FatFileProofs` is instantiated for the
  parameters of `FsFile`; the proofs about exFAT are in the module. All suppose `OneCaller`, that
  is `~Retries` and `~EarlySetPos`; the runs `file_retry` and `file_setpos` show that they fail
  without.
* `FatTypes`, `FatNoGarbage`, `FatFreeBehind`, `FatNothingLeaked`, `FatLookupAgrees`,
  `FatWholeNames`, `FatSfnUnique` and `FatDirectoriesRight`: eight of the nine properties that
  `dir` checks, on a FAT volume with any number of clusters, length of directories, entries in a
  sector and of a long name, and any names, through any sequence of calls with a power failure
  between any two of their steps. None is inductive, and `NothingLeaked` least: it compares the
  FAT with every chain that can be reached from the root. `IInv` (`FsDirectoryLemmas`) is:
  * *chains*: the links of the FAT lead to no cluster twice, to none that is free and to no root,
    and grow from a head in steps that are counted (`Good`), which makes `Chain`, a walk of
    bounded length, the chain, and two chains from different heads disjoint;
  * *holders*: a map from the root, the entries in use, the open file and the directory that a
    call is making to first clusters is one to one, and each cluster in use is in the chain of a
    holder (`Held`). The open file counts in place of its entry, which it may be ahead of; an
    entry that `rename` is giving up holds nothing from the moment the new one has the cluster;
  * *directories*: behind the first free entry of each all are free, but for the long name
    entries of the name that is being created (`FreeTail`), entries 0 and 1 of a subdirectory
    are its dots (`DotKinds`), and all its sectors were cleared, as the program and as the
    device has them (`View`);
  * *the device*: the FAT on it differs from the cached one only where links were added to a
    free cluster, or, while a call settles, freed together (`Later`). A directory on the device is
    one that the program has, or the one just removed (`DeviceP`);
  * *the call*: what each step takes for granted (`PhaseOK`). The longest are the steps of
    `rename`: the new entry is made as that of an empty file or directory, gets the old one's
    contents, and only then the old entry goes.

  A change of one entry is a change of one leaf of the tree of directories (`TreeWithIs`,
  `EnteredWith`), and `HeldMoved` says how the holders may change with it. The tree is the last of a sequence of
  sets of directories; that it is closed follows from `UniverseSize` and `GrownLeast`, and that a
  search stops where it should from `ScanFunction`, both without induction over data. There is a lemma for
  every action of `FatDirectory`, `restart` included.

  The last four are about names and rest on a second invariant, `NInv` (`FsDirectoryProofs`), which
  adds to `IInv`:
  * *sets*: no two entries of a directory have the same short name, no two the same name, and an entry
    with a short name made for a long one has all of that in front of it (`Named`), in the tree
    that the program sees and in the device's. Each entry of a long name belongs to a short
    one, or is one that the call writes or deletes (`Owned`);
  * *the history*: `at` has each name of the tree at its entry, and no other (`Agree`);
  * *objects*: the open file, and the old entry of a `rename`, are known by the name and the number of
    long name entries that their entry has (`NameIs`);
  * *dots*: a subdirectory starts with entries that name it and its parent, but in the steps of the
    call that makes or moves it (`Dots`);
  * *the call*: from the search to the short entry, no entry has the name of the call or the short
    name that it will get (`NamePhase`).

  That the last one is true is what the search has to find out. `NameScanned` says what it knows behind
  each entry that it has passed: that no short entry so far has the name; whether the set of long name
  entries that has been running is the beginning of the name; and that the first short name
  of a long name was taken when `alias` says so. It may not mistake the end of one set for the
  middle of another, nor a set whose short entry is another one's: for both, `Owned` is needed, which a
  volume with orphan long name entries does not have (see the hazards). The device's tree
  is the program's of an earlier moment, each directory cut off where a link is still to come
  (`PrefixNames`, `MixedNames`), so that what is true of each directory by itself, as `SfnUnique`
  and `WholeNames` are, is true of both.

Two places of `ExFatFile` came to light in these proofs and are now as in the code: the end of the
data is compared with a count in 64 bits, so that a position behind the end gives no negative
count; and a mount of a volume whose bitmap is full never ends, so that the repair of a
damaged file supposes a free cluster.

Only model-checked: `SettledKept` of `FsDirectory`, which speaks of the history of the device over
several calls, everything about `ExFatDirectory`, and `AllReachFile` (liveness is out of
the prover's reach, as is `ENABLED`). The library's
induction theorems cannot be instantiated with the installed provers. Where a chain is followed
(`Follow`), an argument by a least counterexample takes their place (`LeastNat`, from the well-foundedness
of the natural numbers): a least link that differs has none before it that does. No module uses
`RECURSIVE`.

## Not modelled

* FAT12 packing and the layout arithmetic of the two `init` functions: arithmetic on a boot
  sector, without state afterwards.
* `FatVolume`, `ExFatVolume` but for `chdir`, and the path calls of `FsVolume`: they forward to
  file objects. The comparison and the hash of names: names are model values.
* Opening by index, `openNext`, `ls`, `rmRfStar`, attributes and timestamps; the fixed root of
  FAT16, the build without long names, the build with one cache for data and FAT.
* The iostream classes: text formatting and parsing over a file, no data kept.
* The formatters and debug dumps: straight-line output.
* Registers of the SDIO controllers, SPI drivers, card registers (CID, CSD, SCR), platform glue,
  text, date and name conversion: pure I/O and pure functions. Bits of a date or an
  attribute play no part in any property.
* `examples/` and `extras/`: programs that use the library, and stubs for a static checker.

## Plan

1. Done: `FsCache`, `FatPartition`, `RingBuf`, `SdSpiCard` with runs and proofs; `FatFile`,
   `ExFatFile`, `FsFile`, `FatDirectory`, `ExFatDirectory`, `FsDirectory`, `StdioStream`,
   `BufferedPrint`, `FileBuffers`, `SdCard` with runs.
2. Done: the theorems above, which state every invariant of the runs but those of `dir`, and eight of
   those on FAT volumes. Left to prove: `SettledKept`, for which `NInv` is the ground, and all of
   `dir` on exFAT volumes.
