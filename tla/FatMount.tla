------------------------------ MODULE FatMount ------------------------------
(***************************************************************************)
(* From a device to a mounted volume: read_partition_table (partition.c)   *)
(* validates the four entries of the MBR, fat_mount tries a partition as   *)
(* FAT16 and as FAT32 in the order the partition type hints at, and the    *)
(* geometry it derives is what fat_get_free_cluster then allocates from.   *)
(*                                                                         *)
(* Each attempt to mount holds SYSLOCK from its block_read to its return,  *)
(* so it is one step.  The result of that block_read is ignored, which is  *)
(* why sysbuf is state: it holds the boot sector read last, or NoBoot.     *)
(* Numbers of blocks wrap at Word as uint32_t does.  fatfs.read_only, which *)
(* both attempts copy from the driver, is part of FatFs.                   *)
(***************************************************************************)
EXTENDS Integers, Sequences

CONSTANTS
  Word,          \* 2^32
  BlockSize,     \* 512
  DirentSize,    \* 32
  EntryLen16,    \* bytes of a FAT16 entry, 2
  EntryLen32,    \* bytes of a FAT32 entry, 4
  DeviceSize,    \* block_get_volume_size()
  Starts,        \* blocks that partitions start at; 0 is the device itself
  Devices,       \* what may be on the device: its partition entries (mbr) and
                 \* the boot sectors at Starts (boot)
  NoBoot,        \* a block that is no boot sector
  MaxReadFaults  \* bound: failing reads of boot sectors

ASSUME DeviceAssumption ==
  /\ Word \in Nat \ {0} /\ DeviceSize \in 1 .. Word - 1
  /\ BlockSize \in Nat \ {0} /\ DirentSize \in 1 .. BlockSize
  /\ EntryLen16 \in 1 .. BlockSize /\ EntryLen32 \in 1 .. BlockSize
  /\ 0 \in Starts /\ Starts \subseteq 0 .. Word - 1 /\ MaxReadFaults \in Nat

VARIABLES
  mbr,      \* partition entries on the device
  boot,     \* boot[s]: the boot sector at block s
  used,     \* used[s]: allocated entries of the FAT of the volume at s
  list,     \* retval of read_partition_table
  sysbuf,   \* fatfs.sysbuf
  fatfs,    \* the geometry of the volume
  volume,   \* arguments of the last fat_mount
  try,      \* the types it has still to try, <<>> when it has returned
  result,   \* of the last fat_mount: "none", "mounted" or "failed"
  last,     \* the last cluster allocated since then, 0 if none
  faults

vars == <<mbr, boot, used, list, sysbuf, fatfs, volume, try, result, last, faults>>

FAT16 == "FAT16"
FAT32 == "FAT32"
PartitionEntry == [start: 0 .. Word - 1, length: 0 .. Word - 1, type: {FAT16, FAT32}]
BootSector ==
  [sector_size: Nat, cluster_size: Nat, reserved_sectors: Nat, num_fats: Nat,
   root_entries: Nat, total_sectors: Nat, big_total_sectors: Nat,
   short_sectors_per_fat: Nat, sectors_per_fat: Nat, root_start: Nat]
ASSUME DevicesAssumption ==
  /\ NoBoot \notin BootSector
  /\ \A d \in Devices : /\ d.mbr \in Seq(PartitionEntry)
                       /\ d.boot \in [Starts -> BootSector \cup {NoBoot}]
Returned == try = <<>>
Unmounted ==
  [type |-> "none", part_start |-> 0, sectors_per_cluster |-> 0, cluster0 |-> 0,
   active_fat_start |-> 0, sectors_per_fat |-> 0, root_len |-> 0, root_start |-> 0,
   root_cluster |-> 0, total_sectors |-> 0]

Init ==
  /\ \E d \in Devices : mbr = d.mbr /\ boot = d.boot
  /\ used = [s \in Starts |-> {0, 1}]
  /\ list = <<>> /\ sysbuf = NoBoot /\ fatfs = Unmounted
  /\ volume = [start |-> 0, size |-> 0] /\ try = <<>>
  /\ result = "none" /\ last = 0 /\ faults = 0

(***************************************************************************)
(* The partition table.                                                    *)
(***************************************************************************)
\* Mutant: the end of the partition is not compared with the device.
ListedUnbounded(e) == e.start < DeviceSize /\ e.start > 0 /\ e.length > 0
Listed(e) ==
  /\ e.start < DeviceSize /\ (e.start + e.length) % Word <= DeviceSize
  /\ e.start > 0 /\ e.length > 0
\* The entries that pass, in the order of the table.
Validated(table) ==
  LET kept[i \in 0 .. Len(table)] ==
        IF i = 0 THEN << >>
        ELSE IF Listed(table[i]) THEN Append(kept[i - 1], table[i])
        ELSE kept[i - 1]
  IN kept[Len(table)]
ReadTable ==
  /\ Returned
  /\ list' = Validated(mbr)
  /\ UNCHANGED <<mbr, boot, used, sysbuf, fatfs, volume, try, result, last, faults>>

(***************************************************************************)
(* The boot sector.                                                        *)
(***************************************************************************)
ClusterSizes == {1, 2, 4, 8, 16, 32, 64, 128}
Total(b) == IF b.total_sectors = 0 THEN b.big_total_sectors ELSE b.total_sectors
\* The checks the two attempts share.
ValidBoot(b, size) ==
  /\ b.sector_size = BlockSize /\ b.cluster_size \in ClusterSizes
  /\ b.reserved_sectors >= 1 /\ b.reserved_sectors < size
  /\ b.num_fats >= 1 /\ b.num_fats < 15
  /\ Total(b) <= size
RootEntriesUnchecked(b) == TRUE    \* Mutant: FAT16 accepts any root directory.
RootEntries16(b) ==
  b.root_entries # 0 /\ b.root_entries % (BlockSize \div DirentSize) = 0
RootBlocks(b) == (b.root_entries * DirentSize) \div BlockSize

\* Mutant: the FAT copies are counted once.
FatsOnce(b, spf) == spf
Fats(b, spf) == spf * b.num_fats
Geometry16(start, b) ==
  LET fat  == (start + b.reserved_sectors) % Word
      root == (fat + Fats(b, b.short_sectors_per_fat)) % Word
  IN [fatfs EXCEPT
        !.sectors_per_cluster = b.cluster_size, !.root_len = RootBlocks(b),
        !.active_fat_start = fat, !.sectors_per_fat = b.short_sectors_per_fat,
        !.root_start = root,
        !.cluster0 = (root + RootBlocks(b) - 2 * b.cluster_size) % Word]
\* Mutant: cluster0 is computed in an int that does not wrap.
Geometry32Unwrapped(start, b) ==
  LET fat == (start + b.reserved_sectors) % Word
  IN [fatfs EXCEPT
        !.sectors_per_cluster = b.cluster_size, !.active_fat_start = fat,
        !.sectors_per_fat = b.sectors_per_fat,
        !.cluster0 = fat + Fats(b, b.sectors_per_fat) - 2 * b.cluster_size,
        !.root_cluster = b.root_start, !.total_sectors = Total(b),
        !.type = FAT32, !.part_start = start]
Geometry32(start, b) ==
  LET fat == (start + b.reserved_sectors) % Word
  IN [fatfs EXCEPT
        !.sectors_per_cluster = b.cluster_size, !.active_fat_start = fat,
        !.sectors_per_fat = b.sectors_per_fat,
        !.cluster0 = (fat + Fats(b, b.sectors_per_fat) - 2 * b.cluster_size) % Word,
        !.root_cluster = b.root_start, !.total_sectors = Total(b),
        !.type = FAT32, !.part_start = start]

(***************************************************************************)
(* fat_mount.                                                              *)
(***************************************************************************)
Mount(start, size, hint) ==
  /\ Returned
  /\ volume' = [start |-> start, size |-> size]
  /\ try' = IF hint = FAT16 THEN <<FAT16, FAT32>> ELSE <<FAT32, FAT16>>
  /\ result' = "none" /\ last' = 0
  /\ UNCHANGED <<mbr, boot, used, list, sysbuf, fatfs, faults>>
MountDevice == \E hint \in {FAT16, FAT32} : Mount(0, DeviceSize, hint)
MountListed ==
  \E i \in DOMAIN list :
    list[i].start \in Starts /\ Mount(list[i].start, list[i].length, list[i].type)

Trying(type) == try # <<>> /\ Head(try) = type
ReadBoot ==
  \/ sysbuf' = boot[volume.start] /\ UNCHANGED faults
  \/ faults < MaxReadFaults /\ faults' = faults + 1 /\ UNCHANGED sysbuf
Mounted == try' = <<>> /\ result' = "mounted"
Rejected ==
  try' = Tail(try) /\ result' = IF try' = <<>> THEN "failed" ELSE result

\* A root directory beyond the volume is found out only after the geometry of
\* the volume mounted before has been overwritten.
TryFat16 ==
  /\ Trying(FAT16) /\ ReadBoot
  /\ LET b == sysbuf'
         g == Geometry16(volume.start, b)
     IN IF ~(b # NoBoot /\ ValidBoot(b, volume.size) /\ RootEntries16(b))
        THEN Rejected /\ UNCHANGED fatfs
        ELSE IF g.root_start > (volume.start + volume.size) % Word
        THEN Rejected /\ fatfs' = g
        ELSE Mounted /\ fatfs' = [g EXCEPT !.total_sectors = Total(b), !.type = FAT16,
                                           !.part_start = volume.start,
                                           !.root_cluster = 1]
  /\ UNCHANGED <<mbr, boot, used, list, volume, last>>
TryFat32 ==
  /\ Trying(FAT32) /\ ReadBoot
  /\ LET b == sysbuf'
     IN IF b # NoBoot /\ ValidBoot(b, volume.size) /\ b.root_entries = 0
        THEN Mounted /\ fatfs' = Geometry32(volume.start, b)
        ELSE Rejected /\ UNCHANGED fatfs
  /\ UNCHANGED <<mbr, boot, used, list, volume, last>>

(***************************************************************************)
(* fat_get_free_cluster on the mounted volume: the first free entry of all *)
(* the blocks of the FAT.                                                  *)
(***************************************************************************)
EntriesPerBlock ==
  BlockSize \div (IF fatfs.type = FAT16 THEN EntryLen16 ELSE EntryLen32)
FatEntries == 0 .. fatfs.sectors_per_fat * EntriesPerBlock - 1
Allocate ==
  /\ Returned /\ result = "mounted"
  /\ \E k \in FatEntries \ used[fatfs.part_start] :
       /\ \A j \in FatEntries \ used[fatfs.part_start] : k <= j
       /\ used' = [used EXCEPT ![fatfs.part_start] = @ \cup {k}]
       /\ last' = k
  /\ sysbuf' = NoBoot
  /\ UNCHANGED <<mbr, boot, list, fatfs, volume, try, result, faults>>

Next == ReadTable \/ MountDevice \/ MountListed \/ TryFat16 \/ TryFat32 \/ Allocate
Spec == Init /\ [][Next]_vars

(***************************************************************************)
(* Properties.                                                             *)
(***************************************************************************)
TypeOK ==
  /\ DOMAIN boot = Starts
  /\ used \in [Starts -> SUBSET Nat] /\ last \in Nat /\ faults \in 0 .. MaxReadFaults
  /\ fatfs.cluster0 \in 0 .. Word - 1 /\ fatfs.root_start \in 0 .. Word - 1
  /\ fatfs.active_fat_start \in 0 .. Word - 1
  /\ fatfs.type \in {"none", FAT16, FAT32}
  /\ result \in {"none", "mounted", "failed"}
  /\ volume.start \in Starts /\ volume.size \in 0 .. Word - 1

\* read_partition_table and the check of the boot sector together: what is
\* mounted, from an entry of the table or from the bare device, lies within the
\* device, up to the last sector its boot sector counts.  The end of a partition
\* is a uint32_t in read_partition_table and may wrap around (partition.c:43).
\* Such a partition is listed; as FAT16 it is refused, because the end of the
\* volume that the root directory is compared with wraps too, but as FAT32 it is
\* mounted.
EndWraps(start, length) == start + length >= Word
VolumeInDevice ==
  result = "mounted" =>
    \/ fatfs.part_start + fatfs.total_sectors <= DeviceSize
    \/ EndWraps(volume.start, volume.size) /\ (fatfs.type = FAT32 \/ faults > 0)

\* "smaller than the disk" (partition.c:46).  TLC finds it violated, by an entry
\* whose end wraps around.
ListedInDevice == \A i \in DOMAIN list : list[i].start + list[i].length <= DeviceSize

\* No FAT of a volume tried as FAT16 reaches the last block number.  The fields
\* are 16 bits wide and ValidBoot allows 14 FATs, so this holds of every volume
\* that starts more than 2^20 blocks below block 2^32.
FatsFit ==
  \A d \in Devices, s \in Starts :
    LET b == d.boot[s]
    IN b # NoBoot =>
         s + b.reserved_sectors + b.short_sectors_per_fat * b.num_fats < Word

SectorOf(c) == (c * fatfs.sectors_per_cluster + fatfs.cluster0) % Word
\* After fat_mount the boot sector, the FATs, the FAT16 root directory and
\* cluster 2 follow one another, although cluster0 may lie before the
\* partition and even below block 0, where it wraps.  (A boot sector that
\* could not be read is not noticed, so no block_read has failed here.)
LayoutOK ==
  result = "mounted" /\ faults = 0 =>
    LET b       == boot[fatfs.part_start]
        fatEnd  == fatfs.active_fat_start + fatfs.sectors_per_fat * b.num_fats
        rootEnd == IF fatfs.type = FAT16 THEN fatfs.root_start + fatfs.root_len ELSE fatEnd
    IN /\ fatfs.active_fat_start > fatfs.part_start
       /\ fatfs.type = FAT16 => fatfs.root_start = fatEnd
       /\ SectorOf(2) = rootEnd % Word

Mountable16(b) ==
  /\ b # NoBoot /\ ValidBoot(b, volume.size) /\ RootEntries16(b)
  /\ b.reserved_sectors + b.short_sectors_per_fat * b.num_fats <= volume.size
Mountable32(b) == b # NoBoot /\ ValidBoot(b, volume.size) /\ b.root_entries = 0
\* A volume is mounted with the geometry of its own boot sector.
OwnGeometry ==
  LET b == boot[volume.start]
  IN result = "mounted" =>
       /\ b # NoBoot
       /\ fatfs.part_start = volume.start /\ fatfs.total_sectors = Total(b)
       /\ fatfs.sectors_per_cluster = b.cluster_size

\* What fat_mount makes of a volume depends on its boot sector alone, never on
\* the partition type in the MBR nor on what was mounted or tried before, as
\* long as the boot sectors can be read.  (Of a volume whose end wraps around
\* the attempt as FAT16 compares the root directory with that wrapped end.)
HintIrrelevant ==
  faults = 0 /\ ~EndWraps(volume.start, volume.size) =>
  LET b == boot[volume.start]
  IN /\ result = "failed" => ~Mountable16(b) /\ ~Mountable32(b)
     /\ result = "mounted" =>
          /\ fatfs.type = FAT16 => Mountable16(b) /\ ~Mountable32(b)
          /\ fatfs.type = FAT32 => Mountable32(b) /\ ~Mountable16(b)
          /\ OwnGeometry

\* A cluster that fat_get_free_cluster returns lies within the volume.
AllocatesInVolume ==
  last # 0 => SectorOf(last) + fatfs.sectors_per_cluster
                <= fatfs.part_start + fatfs.total_sectors
=============================================================================
