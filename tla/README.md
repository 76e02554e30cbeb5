# A TLA+ model of gristle

gristle (`src/src/gristle.c`) is a FAT16/FAT32 file system for microcontrollers
with a POSIX-like interface: no heap, one 512-byte buffer per open file, one
shared buffer `fatfs.sysbuf` for the FAT. Beside it the repository has an ext2
driver (`embext.c`) and two block drivers, for SD cards and for image files. These
modules model all of them, check them with TLC on small instances, and prove with
TLAPS what holds for every geometry, card and image. File and line numbers are
those of the repository.

## The system

| part | state | operations | works with |
|---|---|---|---|
| File layer (`gristle.c`) | `file_num[MAX_OPEN_FILES]` of `FileS`, the FAT, the directory entries, the data blocks | `fat_open`, `fat_read`, `fat_write`, `fat_lseek`, `fat_close`, `fat_unlink`, and below them `fat_flush`, `fat_flush_fileinfo`, `fat_next_sector`, `fat_next_cluster`, `fat_select_cluster`, `fat_get_free_cluster`, `fat_free_clusters`, `fat_delete` | calls the block device; shares `sysbuf` and the FAT between handles |
| Mounting (`gristle.c`, `partition.c`) | `fatfs`, `sysbuf`, the list of partitions | `read_partition_table`, `fat_mount`, `fat_mount_fat16`, `fat_mount_fat32` | derives the geometry every other operation uses |
| Directories (`gristle.c`) | directory blocks, read through a `FileS` | `fat_lookup_path`, `fat_mkdir`, `fat_rmdir`, `fat_get_next_dirent`, growth of a directory by `fat_flush_fileinfo` | a directory is a file to `fat_next_sector` |
| 8.3 names (`gristle.c`) | none | `doschar`, `make_dos_name`, `fatname_to_str`, `str_to_fatname` | path lookup |
| FAT times (`gristle.c`) | none | `fat_from_unix_*`, `fat_to_unix_*` | sets `FS_DIRTY` |
| ext2 (`embext.c`) | `ext2context`, the superblock and its copies, inodes, open files with a copy of their inode | mount and umount, open, read, seek, readdir, fstat, close; writes that grow a file inside the blocks it has | the block device |
| SD driver (`block_drivers/block_sd.c`) | card type, card size, SPI state | `block_init`, `block_read`, `block_write` | hardware |
| PC driver (`block_drivers/block_pc.c`) | an image in memory, its size, a read-only switch | the same and `block_halt`, on a host file; snapshots and hashes for the tests | the test programs |
| Test programs (`src/test`) | none of the system's | clients of the API | |

What is hard here:

* **Power loss.** A growing file is three writes in this order: mark the cluster
  used (`fat_get_free_cluster`), link it (`fat_next_cluster`), store the entry
  (`fat_flush_fileinfo`). Deletion is the entry first, then the FAT. Nothing is
  journalled; the order is all that protects the volume.
* **Failing block operations.** A step has often changed the handle before the
  operation it depends on fails, and several results are ignored.
* **Long legal call sequences.** `sector`, `sectors_left`, `cluster`,
  `file_sector`, `cursor` and the buffer have to stay in step over any mix of
  reads, writes and seeks; the cursor may stand *behind* the last byte of the
  buffered sector (the "bodge" at `gristle.c:1555`).
* **A full volume**, met in the middle of a seek or of a write.
* **Several handles**, which know nothing of one another.
* **Termination.** `fat_free_clusters` and the walk in `fat_lseek` follow chains
  until they find an end; the SD driver polls without bound.
* **Directories are files.** They grow through the machinery of files, while an
  entry of theirs is being written, and by clusters nobody blanks.
* **Conversions in two steps.** A name goes through two functions on its way to an
  entry and through a third on its way back; time stamps are split and rejoined.
* **The card** may be taken out, or exchanged for one of another kind, at any poll; nobody tells the driver.

`PROJECT.json` lists each hazard at its line, with the properties that cover it.

## Modules

| module | what it is |
|---|---|
| `FatFs` | the file layer as one sequential machine, at the grain of single block writes |
| `PosixFile` | what a file promises: a sequence of bytes, a position, `open` flags |
| `FatFsRefines` | the refinement mapping from `FatFs` with one handle to `PosixFile` |
| `FatVolume` | properties of chains: sizes covered, nothing leaked, other files untouched, calls return |
| `FatFsInv` | the inductive invariants `TypeInv` and `VolumeInv`, and the usage (`SafeUse`) the second needs |
| `FatFsProofs` | types: every step stays in range (`TypeCorrect`) |
| `FatFsSafety` | no cluster is ever shared (`VolumeInOrder`, `CrossLinkFree`, `NamesStayUnique`); file data stays off metadata as long as no writer seeks, with one exception that is named (`MetadataStays`) |
| `FatFsChains` | chains keep up with files: data goes into the file's own clusters (`OwnClustersWritten`), sizes are covered (`SizesCovered`) |
| `FatFsFiles` | files keep out of each other's way (`OthersStayUntouched`), no cluster is lost (`NoSpaceLost`) |
| `FatFsPosix` | one file used through one handle behaves as `PosixFile` says (`PosixImplemented`) |
| `FatMount` | partition table, mounting, and allocation from the mounted geometry |
| `FatMountProofs` | the mounted geometry, for every device (`MountTypes`, `MountedInDevice`, `AreasFollow`, `BootSectorDecides`) |
| `FatDir` | directories down to sectors of entries: look-up, creating, listing, `mkdir`, `rmdir`, `unlink` |
| `DirTree` | what the directory calls promise: a tree of names |
| `FatName`, `FatTime` | 8.3 names and time stamps; `FatConversions` puts them side by side |
| `FatTimeProofs` | the stamps are kept, for every clock within FAT's calendar (`AccessStampTracked`, `StampsOfWriter`) |
| `BlockDevice` | what `block.h` promises, for the block numbers below `reach` |
| `BlockClient` | the caller's side of `block.h` |
| `BlockSd`, `BlockPc` | the two drivers; `BlockDrivers` is a program built with either |
| `BlockProofs` | both drivers implement `BlockDevice` (`DriversImplement`); the image-file driver stays in its image (`AccessesInImage`); types (`DriverTypes`); the card is known (`CardIsKnown`) |
| `Ext2` | the ext2 driver |
| `VolumeFiles` | what it promises: files by name, handles with a position |
| `MCFile`, `MCVolume`, `MCMount`, `MCDir`, `MCConversions`, `MCBlock`, `MCExt2` | instances for TLC |

### `FatFs`

`fat`, `dir` and `disk` are the device: FAT entries, directory entries, all other
sectors. `file_num` is the table of open files with the fields of `FileS` under
shorter names (`first` is `full_first_cluster`, `entry` is the pair
`entry_sector`, `entry_number`). `pc` and `call` are the running call and its
activation record: `fat_flush`, `fat_next_cluster` and `fat_flush_fileinfo` are
called from several places and `call.flush`, `call.next`, `call.info` say from
which, so `AfterFlush`, `AfterSector`, `AfterNext` and `AfterInfo` are the returns.
An action is the code from one label to the next and makes at most one block
write, so that `Crash`, or a failing block operation, can fall between any two.
`Fault(op)` is the failure of a named block operation. The names of the reads whose failure is
ignored, or takes a turn of its own, are `lookup` (818, 882: an existing file is not found), `first`
(950: the handle starts with the directory's block in its buffer), `slot` (754: the entry's block),
`parent` and `search` (723, 739: a block of the directory in the search for a new entry's slot) and `reread` (1666:
the entry's block in `fat_delete`). After a failed `parent` the search looks at the file's own data and may
write it back over the directory's first block, entry included; after a failed `search` it passes
the block over; if it meets no zero byte it does not end (`InfoLost`, the label `lost`). After a failed `reread` the
first sector of the file goes over the directory block. `DirBlock` says which slots are in one block and `DataSlot` is
what is left of those (`Overwritten`).

| code | actions |
|---|---|
| `fat_open`, `fat_lookup_path` | `OpenNoHandle`, `OpenMissing`, `OpenFound`; `OpenOverlooked`, `OpenUnread` after a failed read |
| `fat_write`, `fat_read` | `Write`, `Read`, then `WriteByte`, `ReadByte`, `BytesDone` per byte |
| `fat_lseek` | `Lseek`, then `SeekOutside`, `SeekFlushed`, `SeekSector`, `SeekCluster`, `SeekRewind`, `WalkNext`, `WalkMove`, `WalkEnd` |
| `fat_close` | `Close`, `CloseInfo` |
| `fat_unlink`, `fat_delete`, `fat_free_clusters` | `Unlink`, `UnlinkRefused`, `UnlinkOverlooked`, `DeleteEntry`, `FreeEntry`, `FreeUnreadable`, `FreeLast` |
| `fat_flush` | `FlushClean`, `FlushNoSpace`, `FlushAllocate`, `FlushWrite`, `FlushWriteFails` |
| `fat_flush_fileinfo` | `InfoSkip`, `InfoWrite`, `InfoWriteFails`; `InfoUnreadable`, `InfoAstray`, `InfoLost` after a failed read, or without a slot |
| `fat_next_sector`, `fat_select_cluster` | `SectorHop`, `SectorEnd`, `SelectCluster` |
| `fat_next_cluster` | `NextLink`, `NextEnd`, `NextUnreadable`, `NextAllocate`, `NextChain`, `NextChainFails` |
| EBADF of every call | `BadHandle` |
| power loss and `fat_mount` | `Crash` |

`owner` is a history variable no guard reads: the head of the chain a cluster was
allocated to. The properties that speak of "another file's cluster" use it.

Abstractions: one directory with room for every entry (`DirRoom`); names are model
values, equal when their 11-byte forms are; times only set `FS_DIRTY`; a block of
metadata read into a file's buffer is `MetaBlock`; a FAT entry at or above
`end_cluster_marker` is the one value `EndMarker`. Calls do not overlap: the code is
called from one thread unless `GRISTLE_SYSLOCK` is given a real lock.

**Usage and faults.** Some ways of calling the API break the volume. They are not
silently left out: each is a member of `Usage` or `Faulty`, excluded from the
passing runs by the configuration, and TLC shows what it breaks.

| excluded | why | seen in |
|---|---|---|
| `unlinkopen`: unlinking an open file | the handle keeps freed clusters | run `unlink_open`; with one file of one cluster and `FairSpec`, `CallsReturn` fails as well: `fat_free_clusters` loops on entry 0 |
| `truncclose`: `O_TRUNC`, then close without a write | the entry keeps a freed first cluster | `file_refine` with `truncclose` and the modes `FileModes`: `ImplementsPosix` fails |
| `riskyseek`: a seek that needs a sector the file cannot get (`RiskySeek`) | the failure is ignored | `file_refine` with `riskyseek`: `ImplementsPosix` fails; `volume_crash` with `riskyseek` and two clusters: `WritesOwnCluster` fails |
| `share`: opening a file twice | both handles create an entry | `volume_crash` with `share`: `VolumeInv` and `UniqueNames` fail |
| volumes mounted read-only (`RoMounts = {TRUE, FALSE}`) | `fat_unlink`, and `fat_close` after a read, write | `volume_crash` with them: `ReadOnlyUntouched` fails |
| fault `next` with seeks | `-1` is taken for a cluster | `volume_fault` with `seek`: `WritesOwnCluster` fails |
| fault `entry` | the handle keeps a slot it did not write | `volume_fault` with `entry` and a third slot: `OthersUntouched` fails |
| faults `zero`, `delete` | a cluster is freed under an entry that stays | allowed in `calls_return` and `any_use` |
| faults `parent`, `search` | file data overwrites a directory block (`parent`), or a slot behind the first empty one is taken; the search may not end | allowed in `any_use`; `volume_fault` with `parent`: `OthersUntouched` fails; `calls_return` with `search`: `CallsReturn` fails (both with `CHECK_DEADLOCK FALSE`: `lost` has no next step) |
| fault `reread` | the file's first sector goes over a directory block | allowed in `any_use`, where `MetadataKept` names it; `volume_fault` with it: `OthersUntouched` fails |

### `FatMount`

The MBR and the boot sectors are on the device (`mbr`, `boot`); `sysbuf` holds the
block read last, because the mount functions ignore the result of `block_read` and
validate what is there. That can be the boot sector of another volume; so
`LayoutOK` and `HintIrrelevant` speak of states in which no read has failed, and
`OwnGeometry`, without that condition, does not hold. Nor does `AllocatesInVolume`:
`fat_get_free_cluster` searches whole blocks of the FAT, and takes entries behind the
last cluster for clusters (`gristle.c:392`). (`mount` with either as an invariant
shows it.) `TryFat16` and `TryFat32` are whole calls: each holds the
system lock from its read to its return. `Mount` is `fat_mount` up to its first
attempt; `try` holds the attempts left. `Allocate` is `fat_get_free_cluster` on
the mounted geometry: the lowest free entry of *all* the FAT's blocks.
Block numbers wrap at `Word`. So does the end of a partition in `read_partition_table`
(`partition.c:43`): an entry that is far longer than the disk is listed if its start and length add
up to more than 2^32; "smaller than the disk" (`partition.c:46`), which is `ListedInDevice`, TLC refutes, for the instance of
`mount` has such an entry. `VolumeInDevice` follows the entry through both checks, of the table and of the boot sector: what is
mounted ends within the device, by the sectors its boot sector counts, unless the end of its partition wraps. And
such a partition is refused as FAT16, as long as every boot sector could be read: the end the root
directory is compared with wraps too. As FAT32 it is mounted. `HintIrrelevant` speaks of volumes whose end does not wrap.

### `FatDir`

`disk` holds the entries of every sector, `fat` the chains; `root_cluster` is 1 for the
fixed root of FAT16. A call is one action, because the code runs one call at a time and
power loss inside it is `FatFs`'s subject. Inside the action the call is a composition of
operators, one per function of the code, each taking a handle `w` (with the volume in it)
to the next: `fat_lookup_path`, `fat_select_cluster`, `fat_next_sector`,
`fat_next_cluster`, `ReadEntry` and `WriteEntry` (`fat_read` and `fat_write` of 32
bytes), `SeekBack` (`fat_lseek` by -32), `StoreNew` (the search in `fat_flush_fileinfo` and what
it stores), `fat_delete`. `Scan` is the loop over the sectors of a directory that
`fat_lookup_path` and `fat_flush_fileinfo` have in common. `Created`, `MadeDir`, `Unlinked` and `RemovedDir`
are the calls. `seen` is what looking up every path then finds, computed with the same
`fat_lookup_path`; the refinement mapping reads it and no call does.

`ImplementsTree` says that the calls do to the tree of paths what `DirTree` says:
success does what the name of the call promises and nothing to any other path, failure
does nothing, and only `create` and `mkdir` on an all but full volume, and `rmdir` of a
file, may fail where the tree allows them. (`fat_rmdir` does remove a file of less than
32 bytes, or one in which every 32nd byte is zero: the tree allows that.) `ListsTree` ties `readdir` to look-up, `OwnClusters`
the chains to one another and to the free clusters, `DotEntries` the first two entries
of a directory to where it is.

Where the code takes a step that loses what these say, the handle collects a risk, and
a call whose risks are not in the constant `Risks` is not made. `dir` has `Risks = {}`;
with any one of them TLC finds a property violated. So what `dir` shows of growth is shown for clusters
that are blank, and what it shows of `mkdir` for names that are new in a parent that is a directory:

| risk | what happens | violated |
|---|---|---|
| `growdirty` | a directory grows by a cluster with old contents, nothing blanks it (`:604`) | `ListsTree` |
| `growcreate` | the directory grows while an entry is stored in it: the entry is stored twice (`:622`) | `ListsTree`, with `LastCluster = 6` |
| `full` | no place for the entry and no room to grow: the search does not end; the model ends it without an entry (`:726`) | `OwnClusters` |
| `rootfull` | the last entry of a fixed root is taken, and reading goes on behind it | `ListsTree` |
| `pastroot` | a fixed root is entered with `sectors_left` one too high (`:536`): a sector of data is taken for entries | `DotEntries`, with `PerSector = 3`, `RootLen = 1` |
| `rootseek` | `mkdir` seeks back over the start of a sector of the fixed root, which is no chain | `OwnClusters`, with `RootLen = 4` |
| `nospace` | the same seek meets a full volume | `ListsTree` |
| `exists` | `mkdir` of a path that exists: a second entry, and the first one's contents overwritten (`:1867`) | `ListsTree` |
| `fileparent` | `mkdir` below a regular file: the file is opened as the parent, the entry written into its data, and its cluster lost when the path is then not found (`:1804`) | `OwnClusters` |
| `rootdir` | `rmdir` of the root (`:1720`) | `ImplementsTree` |

A file is written once, with a few bytes, or with a whole cluster of data or of zero bytes; the rewriting of a
directory's own entry for its time stamps is left out.

### `FatName`, `FatTime`

Characters are kept by the classes `doschar` tells apart; a name is a sequence of them.
`str_to_fatname`, `make_dos_name` and `fatname_to_str` are translated with what they do
at the borders: a final dot, a second dot, shortened names, a character that is left
unassigned on the stack (`Stale`: an uninitialised byte is any of its values).
`entries` is one directory, in which files and directories are made, looked up, and opened again
under the name that `readdir` shows; `holds` says what is behind an entry. A name that is found belongs to
a file or to a directory, and a directory that is opened with `O_CREAT` to be written is refused (`EISDIR`, `:1351`).
`OwnEntry` says that plain 8.3 names are told apart
and found; it excludes a single character before a dot, for which TLC finds it violated
(`gristle.c:240`). `MkdirReopens` is about `fat_mkdir`, which takes names apart in a way of its own
(`:1825`) and then opens the path to fill the new directory (`:1867`): names without a dot or unusual characters come out
the same both ways, so that it is the new directory that is filled, or else an older entry
of the same 8.3 form, file or directory, whose contents are overwritten; never any other. For a name with a dot the two ways
differ: the dot is copied into the name and the extension dropped, so `mkdir("k.d")` fails after it
has written an entry.

`FatTime` follows one file's stamps from the clock through the handle to the entry and
back. The calendar of the C library is external. `AccessTracked` and `WriterStamps` hold
although the time of modification is decoded from the date field (`:948`): a handle that
wrote has set its own. `AccessTracked` would fail on one day
of FAT's calendar: a file that was never read has the stamp 0 (`:1308`), 1970-01-01, which seven bits for the
year turn into 2098-01-01 in the entry. A first read on that day is taken for a repeated one (`:141`), and the
open handle keeps 1970. The run's clock does not show that day and the theorem excludes it (`ClockInFat`).
What a handle that only read stores for the modification time is wrong, and no property claims it.

### `BlockDevice`, `BlockSd`, `BlockPc`

A caller makes one call at a time and `block_init` first. `BlockSd` goes poll by poll:
`pc` names the command whose answer `sd_command` waits for, or the phase of a transfer.
The card and its slot (`Answers`, `CsdBytes`, `Eject`, `Insert`) are external: what the
driver expects of an SD card in SPI mode, and an empty bus of ones. A card may be taken out and another one put in
at any poll, in the middle of a transfer too, and nobody tells the caller to initialise it. It is `inserted` then but not
`listening`: a card is in SPI mode only after a CMD0, so until the next `block_init` the bus reads as ones, as if the slot were
empty. The registers are
put together byte by byte because the driver takes them apart by bits. `BlockPc` copies
blocks with 32-bit byte offsets.

`BlockDevice` puts block n at n * `BLOCK_SIZE` from the start, as `block.h` says (36, 81). It is suspended while the
card is not listening, for the driver reads ones and stores nothing then, and reports success; and for the numbers
from `reach` on, where a driver may serve another block. `block.h` has no such limit: without it the promise is
`ImplementsEveryNumber`, and TLC refutes that, because the byte address is computed in 32 bits
(`block_sd.c:299`, `327`; `block_pc.c:87`, `101`), so that large numbers wrap onto other blocks. `ImplementsDevice` has
the numbers whose byte offset fits, for images and byte-addressed cards, and every number for block-addressed ones. Calls for
larger numbers are made in the run all the same, between the others.

`Misbehave` is what a card may do: `readerror` (an error token in place of data; the
driver polls on for ever) and `busy` (busy for ever after a write, `:355`) are in the run, `reject` (the data
response of a write, which the driver reads and does not look at, `:353`) is not: with it TLC finds
`ImplementsDevice` violated. `Images` are whole blocks: the bound check compares with
`>` where `>=` is meant (`block_pc.c:87`), so of an image that ends one byte short of a
block boundary it admits that block.

### `Ext2`

A handle holds its own copy of the inode, its sector and a cursor; as in `FatDir` the
calls are compositions of the code's functions. A sector has four cells. `Backups` are
the places the ext2 format has copies of the superblock at, `superblock_blocks` what the
driver computes. `Direct` is 3 for 12, `Word` 2^16 for 2^32, so that `sectors_left`
wraps as in the code. `ImplementsFiles` is the refinement of `VolumeFiles`, whose
content is the disk's with what a handle's dirty sector adds; `ListsRecords` follows
`readdir` from record to record. `UmountInPlace` is about `ext2_umount`, which overwrites whole sectors at
places it has computed: on no volume is one of them an inode, a descriptor, a directory or a file; and on a `Regular` volume every copy of the
superblock the format has is written, the one mount reads included. `Regular` means 1024-byte blocks, a last
group that is not full, and at most nine groups if only some have copies. Of other volumes TLC refutes it (`CopiesAlike`): with
larger blocks the first sector of the volume is written, where the boot block is, in place of the superblock
that mount reads (`embext.c:201`); groups 9, 25, 27 and 49 have copies that `is_power` does not know of (`:530`); and a last group that is
full is counted twice, because blocks are counted from 0 where the first is 1 (`:561`). On a device that is read-only it writes too: neither
`ext2_umount` nor the image-file driver's `block_write` looks. `superblock_blocks[i]`, which `ext2_flush_superblock` puts where the group number belongs (`:199`),
and the rest of the superblock's sector are abstracted to the mount count.

| risk | what happens | violated |
|---|---|---|
| `unflushed` | the next sector is loaded over one with appended bytes (`embext.c:515`) | `ImplementsFiles` |
| `overwrite` | bytes that do not enlarge the file never mark the sector for storing (`:784`) | `ImplementsFiles` |
| `astray` | a seek in a block moves `sectors_left` the wrong way (`:871`), and a read goes on behind it | `TypeOK` |
| `overrun` | reading on at the end of the last direct block, with the cursor behind the buffer (`:755`) | TLC runs out of the buffer |
| `indirect` | a seek to a block behind the direct ones is refused | `ImplementsFiles` |
| `noblock` | writing where the file has no block: the driver never allocates one | reached by no file of the instance |
| `shared` | two handles on one file hold different inodes (`:183`) | `ImplementsFiles` |

## Runs

Passing runs:

| run | bounds | what it shows |
|---|---|---|
| `file_refine` | 1 file, sectors of 2 bytes, clusters of 2 sectors, 2 clusters, 5 bytes | `ImplementsPosix`: buffer, sector, cluster arithmetic implement a byte sequence; every kind of boundary (byte, sector, cluster, end of volume) is crossed in both directions; files are opened to read, or to read, write and create |
| `file_full` | sectors and clusters of 1 byte, 3 clusters, 4 bytes | the same with the volume filling up, `O_TRUNC` and `O_APPEND` |
| `volume_crash` | 2 files, 2 handles, 3 clusters, 1 power loss, seeks | `TypeOK`, `VolumeInv`, `NoCrossLink`, `UniqueNames`, `SizeCovered`, `NoLeak`, `WritesOwnCluster`, `OthersUntouched` |
| `volume_fault` | the same with 2 failing operations of twelve kinds, no seeks | `NoCrossLink`, `SizeCovered`, `WritesOwnCluster`, `OthersUntouched` |
| `any_use` | 1 file, 2 handles, 2 clusters, `share`, `unlinkopen`, `truncclose`, one failing FAT or entry write or read of the directory, no seeks by writers | `MetadataKept`: whatever else these uses break, file data does not land on metadata, but for the directory block whose read has just failed |
| `calls_return` | 1 file, 1 handle, 3 clusters, one FAT entry per block, seeks, one failing operation: any but `parent`, `search` and `reread` | `CallsReturn`: the byte loops, the chain walk and the freeing of a chain end |
| `mount` | every boot sector with up to two odd fields; 4 x 5 x 4 partition tables; two volumes; allocation; one failing read | `TypeOK`, `VolumeInDevice`, `LayoutOK`, `HintIrrelevant` |
| `dir` | 4 paths, two deep; 2 entries in a sector, 2 sectors in a cluster, clusters 2 to 5; fixed root of 2 sectors and root chain; calls without risks | `ImplementsTree`, `ListsTree`, `OwnClusters`, `DotEntries` |
| `conversions` | 25 names of every shape, 2 entries made; 7 readings of the clock from 1980 to 2107, 3 stores | `OwnEntry`, `ListedOpens`, `MkdirReopens`, `AccessTracked`, `WriterStamps` |
| `block` | 6 cards (two layouts, protected or not, wrong voltage, no SD card), one put in at any poll, error tokens and endless busy; images of 0, 1, 4 and too many blocks; a word of 2^14 and blocks of 2^4: block numbers inside, outside and behind the wrap of the byte address | `ImplementsDevice`, `CardKnown`, `InImage`, `CallsReturn` |
| `ext2` | 4 volumes (512-byte sectors as 4 cells, small and large blocks, sparse and not, devices read-only and not); 2 handles, 2 mounts, reads of 5 cells, 3 places to seek, appends of 1 and 2 cells | `ImplementsFiles`, `ListsRecords`, `UmountInPlace` |

The bounds are small but reach each case: two files contend for three clusters, so
one of them meets the full volume and reuses what the other freed; a chain of three
clusters has a head, an inside and an end; FAT blocks of one or two entries make a
chain cross FAT blocks, which is what `fat_free_clusters` treats specially; two
faults let a retry fail too. `MaxSize`, `MaxCount`, `MaxCrashes`, `MaxFaults` and
`MaxReadFaults` are the only bounds in the guards of `FatFs` and `FatMount`, with
`DirRoom`. In `dir` four clusters let a directory take a cluster that a file or an older
directory has left, and a volume fill up; in `ext2` the files cross sectors and blocks in both
directions, end inside and at the end of a block, and their inodes are in two groups.
`MaxMade`, `MaxStores`, `MaxSwaps` and `MaxMounts` bound the newer modules.
Every run has deadlock checked except `ext2`, where a volume that was mounted
`MaxMounts` times and unmounted has no further step, and `any_use`, where a search for a slot may go on for
ever (the label `lost`).
`volume_crash`, `volume_fault`, `any_use`, `dir` and `ext2` look at states without the result of the
last call (`WithoutResult`), which no step reads; the first two permute the names, which
no definition tells apart.

One run must find a violation, against what the repository says of itself (quoted in
`PROJECT.json`, "findings"): `unlink_open` (an unlinked open file cross-links the volume).
The other uses, faults and risks that break something are in the tables above, each
with the property that TLC then finds violated.

Every property of a passing run has a mutant in `PROJECT.json`: a definition with a
plausible mistake under which TLC finds it violated. Mutants sit in front of the
definition they replace and are marked as such.

**Fairness.** `FairSpec` is `WF_vars(Step)`: a call that has begun is run to its end
by the thread that made it. The code has no other scheduler. Nothing is assumed of
`Begin` (callers need not call) or `Crash`. A block operation that keeps failing is
covered without fairness: it ends the call, or `MaxFaults` is reached.
The drivers' `FairSpec` has `WF_vars(SdSteps)` and `WF_vars(PcSteps)`: a call runs on,
for it is a loop without a scheduler, and a card that is asked answers sooner or later.
`SF_vars(SdCardReady)` says that a card that is asked again and again does not answer
ACMD41 with "busy" for ever; without it `block_init` need not end. No fairness is given
to `Eject`, `Insert` or callers. `CallsReturn` excepts the states `Hung`: the polls
without bound of a card that has gone or is not in SPI mode, has sent an error token, or stays busy.

## Proofs

`FatFsProofs` proves, for every value of the constants that satisfies the
assumptions of `FatFs`, and for every `Usage`, every `Faulty` and any number of
crashes:

* `TypeCorrect`: `Spec => []TypeOK`. This is more than types. It says that no step
  indexes outside the FAT, the directory, the device or a buffer, although
  `sectors_left` is moved by differences (`gristle.c:1573`) and sectors are computed
  modulo 2^32.

`TypeOK` is not inductive. A directory entry with first cluster 0 would make
`fat_unlink` free entry 0, and `pc = "chain"` writes through `Cur.cluster` and
`call.res`, which are `0 .. Bad` by type. `TypeInv` adds what the code relies on:
no live entry has first cluster 0 (`fat_flush_fileinfo` returns early for it),
the cluster being freed is a FAT index, and where a link is written both ends are.
The proof has one lemma per action (`FlushType`, `InfoType`, `SeekType`, ...), on
top of lemmas about the updates they share (`FileUpdates`, `CallUpdates`), about the
labels a return leads to (`ReturnLabels`) and about the arithmetic (`ModRange`,
`DivNat`, `SectorInCluster`).

`FatFsSafety` proves, for every geometry and any number of names, handles, calls and
crashes,

* `VolumeInOrder`: under `SafeUse`, `Spec => []VolumeInv` (see below), and from it
* `CrossLinkFree`: `Spec => []NoCrossLink`: in every state, in the middle of any call and after a
  power loss at any write, no cluster is referred to twice or is free while referred to;
* `NamesStayUnique`: `Spec => []UniqueNames`: no name is stored twice.

`SafeUse` is a condition on the constants; `volume_crash` is an instance of it:

| condition | without it |
|---|---|
| `share`, `unlinkopen`, `riskyseek` not in `Usage` | see the table above |
| no mode has `TRUNC` | a power loss between `fat_free_clusters` and the next store of the entry leaves an entry whose first cluster is free |
| faults `zero`, `delete` excluded | a cluster is freed under a reference that stays |
| faults `entry`, `flush` excluded | the handle believes in an entry that was not written; a seek goes on without the cluster it needed |
| faults `lookup`, `parent`, `search`, `reread` excluded | a file that is not found is created again; a directory block is overwritten by file data, or a slot is taken out of turn |
| writers do not seek (nor append) where other faults occur | `fat_lseek` ignores the failure and leaves the handle on a sector outside its file; its data could land on the FAT, which the model keeps in a variable of its own. `VolumeInOrder` does not use this condition (without it, it would say more of the model than of the code); `FatFsChains` does |

`NoCrossLink` says nothing of files that are only in memory, nor of a call half done,
so it is not inductive. `VolumeInv` adds, in named parts: `FatInv` (by `owner`, links
stay among one owner's clusters, never lead to the head of a chain and never meet; so
chains are told apart without walking them, which is why no induction over data is
needed), `DirInv` (entries name heads, each once; nothing follows the first empty
slot), `HandleInv` (an open file is in its buffer alone or in its own clusters, and no
entry but its own looks like it), `CallInv` and `SeekInv` (what each label knows: the
cluster in hand at `chain` belongs to the file and nothing leads to it; a file without
clusters gets through `fat_lseek` only to position 0) and `FreeInv` (while
`fat_free_clusters` walks, nobody has the head of the chain, and what is zeroed is
closed under predecessors). TLC checks `VolumeInv` in `volume_crash`. The proof has
one lemma per step (`FlushAllocateSafe`, `InfoWriteSafe`, `NextChainSafe`,
`FreeEntrySafe`, ...) over shared ones: `ClaimKeeps` (allocation), `FileKept` and
`OpenedSafe` (handles), `AfterFlushSafe`, `AfterNextSafe` and `AfterInfoSafe` (what
holds at the label a subroutine returns to), `ZeroesSafe` (freeing).

`FatFsSafety` also proves, with an invariant of its own (`MetaInv`),

* `MetadataStays`: under `NoWriterSeeks`, `Spec => MetadataKept`. `MetadataKept` has one exception, in its second
  conjunct: the directory block that the code writes back although the read of it has just failed. Nothing else is assumed of callers
  or faults: files are shared, unlinked while open and truncated, entries of freed files are written
  back, FAT entry 0 is freed. `MetaInv` keeps what survives all this: a handle that may write is
  on a sector of *some* cluster numbered 2 or above, with the right number of sectors left
  (`WritersInv`, `PlacedAt`); no number 1 and no entry 0 ever becomes a cluster to
  write to (`NumbersInv`); only handles that cannot write seek (`OnlyReadersSeek`). `NextSectorPlaced`
  and `PlacedInData` are the arithmetic.

`FatFsChains` proves, under `SafeUse` - seeks and appends by writers included -

* `ChainsInOrder`: `Spec => []ChainInv`, and from it
* `OwnClustersWritten`: `Spec => WritesOwnCluster`: data goes into clusters of the file written to;
* `SizesCovered`: `Spec => []SizeCovered`: the walk along the FAT from an entry's first cluster
  finds clusters for the whole size in the entry, in every state, power losses included.

`VolumeInv` says to whom a cluster belongs but not where in its chain it is, and neither property
follows from it: to know that `fat_lseek`, which counts links from the first cluster, arrives at a
cluster of the file and loads the sector that `file_sector` stands for, one has to know that the
chain is as long as the size says. `ChainInv` therefore says that there is a *ranking* of the
clusters in use: rank 0 at the first cluster of a chain, one more at each link, no rank twice in one chain
and the end of the chain last (`Chained`). A ranking makes chains acyclic without a word about
walks, and a step of the code changes it in one place: `NewChain`, `ClaimedUnranked` (a
cluster that is marked but not yet linked has none), `ChainGrows`, `ChainFreed`; every other step
keeps it (`ChainsSame`). By the ranks, `SizesInv` bounds the sizes of entries and open files, `StandInv`
says that `cluster`, `sector`, `sectors_left` and `file_sector` of every handle that may write agree with each
other and with the chain, except while `fat_lseek` walks, and `CrossInv` and `SeekerInv` say what
holds in the middle of `fat_next_sector` and of `fat_lseek`: what the walk has reached after `i` links has rank `i`, and the position
sought is in the chain or a free cluster is left for it (`Room`) - which is what `RiskySeek` keeps from
callers. `AccessInv`, `FirstInv` and `FreeingInv` are about labels: who writes, who seeks, and that
`fat_free_clusters` zeroes the first cluster with or before the others, without which the rest of a
chain that is half freed would be ranked from a cluster that is gone. There is one lemma per action again (`FlushAllocateChains`, `NextChainChains`,
`SeekClusterChains`, `WalkEndChains`, `FreeChains`, ...), over `SpotMoves` (the file stays on
its byte), `CurMoves` (it moves), `HandlesMove` (files are opened, closed, deleted) and
`StandingAt` and `SplitPosition` (positions as clusters, sectors and bytes).

For `SizesCovered` the recursive function `ChainFrom` has to be followed. Its existence and its
values are proved with `SetInduction`, an induction over *sets* of numbers that follows from
`WFMin` of `WellFoundedInduction` (whose operator-valued induction rules no installed prover can
use); then the first `rank + 1` steps of the walk are different clusters of the chain
(`WalkThroughRanks`), and `FS_Injection` counts them (`ChainCounts`).

TLC agreed with `ChainInv` before it was proved, on two files with a scratch instance of 3 clusters
each way (seeks without faults; faults without seeks), the ranking as a bound variable; it is not in
the runs because enumerating rankings in every state takes longer than all of them.

`FatFsFiles` proves, under `SafeUse` as well,

* `OthersStayUntouched`: `Spec => OthersUntouched`: no step of a call on one file changes a byte of what
  the FAT and the data sectors hold of another;
* `NoSpaceLost`: `Spec => []NoLeak`: between calls, if no power was lost and no operation has failed, every
  allocated cluster is in the chain of a file.

The first needs no invariant beyond `ChainInv`. `StoredSame` says what is stored of a file depends on: its
entry, the links of the clusters `owner` gives to it, and their sectors. `WalkSame` is the induction along
the walk, over the set of numbers where two walks differ; `ByteInWalk` uses the ranks: each byte within the size is on a cluster
the walk has found. The step then has to leave these three alone, and only the actions that
`OnlyTheseRelink` lists write links or entries: `FreeIsNobodys` (what is allocated was nobody's), `OthersLinks` and
`OthersSectors` (the written sector is in a cluster of the file written to) finish the argument.

The second does. `SpaceInv` says who holds each first cluster (`Held`: an entry, an open handle, or
`fat_free_clusters`; `SavedInv` and `ClosingInv`: a handle with a cluster has it in its entry, or is
dirty and will get one before `fat_close` forgets it) and that no allocated clusters are cut off. The latter is not said
with a ranking, for while `fat_free_clusters` walks, or between the allocation of a cluster and its
linking, not every cluster has a rank: every non-empty set of allocated clusters contains
a place where a chain starts, or a cluster linked from outside the set (`Rooted`, `Starts`). A step that
changes one link changes that for sets with one cluster more or less (`ClaimSpace`, `NextChainSpace`,
`FreeEntrySpace`), without an induction. Between calls, the set of clusters without a rank in `ChainInv`
would have neither, so it is empty (`AllRanked`), and what has a rank is found by the walk (`RankedInChain`). TLC
agreed with `SpaceInv` on the instances of `volume_crash` and `volume_fault` before it was proved.

`FatFsPosix` proves the refinement that `file_refine` checks:

* `PosixImplemented`: `Spec => ImplementsPosix`, under `SoleUse`, for every geometry of the volume, every
  size of file and sequence of calls.

`SoleUse` is `SafeUse` with one name and one handle, as `PosixFile` speaks of one file; no failing block
operations and no power loss, after which the code promises less than `PosixFile` does; no files created
read-only, which `PosixFile` does not have; and `EndReadable`. `file_refine` is an instance of it. `SafeUse`
leaves out `O_TRUNC`, so truncation stays with `file_full`.

The proof asked for `EndReadable`. A handle that only reads and seeks to the end of a file that fills its
last cluster walks off the chain: `fat_next_cluster` returns `0xffffffff`, and `fat_lseek` reads the
sector computed from it (`gristle.c:1598`), `cluster0` - `sectors_per_cluster` modulo 2^32. The seek
succeeds only because that block exists: wherever `cluster0`, which lies two clusters before the first data
sector, is more than one cluster into the device. On a device where it is not, the read fails and with it a
seek to the end of the file, which `PosixFile` does not allow. `EndReadable` is that condition.

`PosixInv` is added to the invariants above. `FlowInv` says which call gets to which label, `PlaceInv` how the
position stands to the size, to the bytes left to move and to the position sought. `ReaderInv` is `StandInv` for
handles that only read: on a sector of the `i`-th cluster of the chain, or behind its end. `BufferInv`
says what a buffer holds that was not written to: its sector. `StoredInv` says that the entry of a handle
that is not dirty has the size of the file, and `PlainInv` that nothing is read-only and files have bytes. None of them is enough
without the others: that a read returns the byte at the position needs the buffer; that the buffer is right after
`fat_next_sector` needs the place in the chain; that the walk is as long as the size says is `ChainInv`.

What the caller finds at a position (`Content`) is in the buffer for the bytes of the handle's sector and on the
disk for the others, at the cluster that the walk from the first one reaches. `WalkRanks` ties that walk to the ranking of
`ChainInv`, `WalkKept` says that it depends only on the links of the file's clusters, and `SplitPosition` finds cluster, sector and
byte of a position. Most steps change none of this (`SteadyRefines`); `WriteByteRefines`, with `fat_write`'s
extension at the end of the file, changes one byte; `FlushWriteRefines` moves a sector from the buffer to the
disk; `InfoWriteRefines` stores the size; `SeekClusterRefines` and `WalkEndRefines` are the ends of `fat_lseek`;
`ReturnRefines` shows of every return that its result is the one `PosixFile` gives. TLC agreed with
`PosixInv` on the instances of `file_refine` and, without `O_TRUNC`, of `file_full` (740521 and 825951
states) before it was proved.

`FatMountProofs` proves, for all devices, partition tables and boot sectors,

* `MountTypes`: `Spec => []TypeOK`: whatever is read, also when a failing read leaves another
  volume's boot sector in the buffer, the geometry's block numbers fit 32 bits;
* `MountedInDevice`: under `FatsFit` (below), `Spec => []VolumeInDevice`. `PlaceInv` follows start and size from the table, or
  from the device itself, to what an attempt has mounted; the loop over the table is a recursive
  function, and again `SetInduction` shows what it computes (`KeepsValid`). `WrappingRefused` is why no wrapping
  partition is mounted as FAT16: if the end of the root directory were below the wrapped end of the volume, the root would have to start before the volume does;
* `AreasFollow`: `Spec => []LayoutOK` and `BootSectorDecides`: `Spec => []HintIrrelevant`, on devices where the
  FATs of a volume end below block 2^32 (`FatsFit`: all that start more than 2^20 blocks below it). `ModShift`
  is the arithmetic of `cluster0` below block 0. `MountInv` keeps, between the attempts, which
  types have been tried and refused.

`BlockProofs` proves of `BlockDrivers`, for all cards, images, block
sizes above one byte and word widths that are a multiple of them,

* `AccessesInImage`: `Spec => []InImage`. The invariant `ImageInv` says that a block is asked
  for only while a whole image is loaded. The arithmetic is that of `AcceptedInside`: the
  block ends at a multiple of the block size, modulo 2^32; if that is 0 the check compares
  2^32 - 1 with a size below 2^31 and refuses; otherwise, of two multiples of the block size,
  one that less 1 is not above the other is not above it at all.
* `DriversImplement`: `Spec => ImplementsDevice`, under `CardsAccept` (no card rejects a write), for cards taken out and put in
  at any poll, and the numbers below `reach`: whose byte offset fits a word, or that the card takes as they are.
  `PromiseInv` ties each label of the driver to its call (`SdInv`) and says what it knows
  there: a card that listens during a transfer is the one that was initialised (a card put in since is
  not `listening`), is addressed in its own unit, and has the block; the image is reachable by its block numbers
  (`PcInv`). Each lemma (`ResetSteps`, `SendDataStep`, `PcImplements`, ...) shows of one step that it
  keeps this and that it is a step of `BlockDevice` or none. `BlockAtOffset` and `InSpace` are the arithmetic: an offset that
  fits a word leads to the block of that number and to no other.
* `CardIsKnown`: `Spec => []CardKnown`, if the cards' fields fit the widths the driver decodes
  (`FieldsFit`: a version 2 card's size has 20 bits there, `block_sd.c:200`).
  `CsdDecoded` shows that the bits are taken apart as the register puts them together.

* `DriverTypes`: `Spec => []TypeOK`, under `FieldsFit`.

TLC agrees with `PromiseInv` and `CardInv` on the instance of `block`, which satisfies all
three conditions.

`FatTimeProofs` proves, for every clock whose days a date field can hold, 1980-01-01 to 2107-12-31,
save 2098-01-01 (`ClockInFat`),

* `AccessStampTracked`: `Spec => []AccessTracked`;
* `StampsOfWriter`: `Spec => []WriterStamps`.

The calendar comes first: `DateOfDay` shows that the year, month and day `gmtime` finds for a day of that
calendar are in range and that counting days gives the day back, over `EraBounds`, `YearBounds` and
`MonthBounds`, leap years and centuries included. So `fat_to_unix_date` undoes `fat_from_unix_date` (`FieldOfDay`), and
no two days have one field (`DayIsUnique`); `FieldOfTime` is the time of day, kept to two seconds. `StampInv` then
follows the stamps: `ReadInv` says that a handle's access stamp is that of the last read, and that the entry has the same
day whenever the handle is not going to be stored; `WriteInv` says that a handle that wrote has a cluster and is dirty, so
that `fat_close` cannot forget its stamps. `ReadStep` is where 2098-01-01 has to be excluded: the proof of
`fat_update_atime` asked for it, and TLC, given that day, shows the violation. TLC agreed with `StampInv` on the instance of
`conversions` before it was proved.

Only model-checked: `ImplementsPosix` with `O_TRUNC` (`file_full`); the refinements of `DirTree` and
`VolumeFiles`, and the invariants of `FatDir` and `Ext2`, whose modules walk chains and records by recursive
operators, with which the provers cannot work; names; `CallsReturn` (liveness).

## Not modelled

* Two threads in the file layer at once, and the lock: the calls of all models run one
  after another, as they do in the repository's programs, where `GRISTLE_SYSLOCK` is 1 by
  default (`gristle.c:47`).
* Power loss and failing block operations inside the calls of `FatDir` and `Ext2`. `FatFs` has them
  for files in one directory; `embext.c` ignores the result of every `block_read`.
* `fat_fstat`, `ext2_isatty` and the getters return fields and change nothing.
* ext2: the allocation of blocks (`change_allocated`, `allocate_block`) is never called;
  the printing functions; `ext2_umount` with open handles.
* The snapshots and hashes of `block_pc.c` read the image for the test programs.
* The test programs, fuzzers and image helpers are clients.

## Plan

1. `FatConcurrent`: `fat_next_cluster` against `fat_get_free_cluster` with and
   without the lock, and the lock that is not released after a failed read
   (`gristle.c:394`). Properties: no lost link, every waiting thread gets the lock.
2. Power loss and failing block operations in `FatDir`, at the grain of `FatFs`: an entry
   whose directory is not filled yet, a new cluster that is not linked (`gristle.c:1778`).
3. `OwnClusters` of `FatDir` as a theorem, with the walks as functions of the volume and
   ownership in place of reachability, as `VolumeInv` has it.
4. `PosixImplemented` for opens that truncate, which needs `ChainInv` for an entry whose first
   cluster has been freed; and what `PosixFile` still promises after a power loss.
5. The types of `FatConversions` and `OwnEntry`: the length of `make_dos_name`'s result, whose
   loop over eight characters is a fold.
