------------------------------- MODULE FatFs -------------------------------
(***************************************************************************)
(* The file layer of gristle (src/src/gristle.c): open files, the FAT, the *)
(* directory entries and the data blocks, as one sequential machine.       *)
(*                                                                         *)
(* A call of the API is a sequence of steps.  A step holds at most one     *)
(* block_write, so that a crash (power loss) or a failing block operation  *)
(* can fall between any two writes.  pc names the point the running call   *)
(* has reached and call is its activation record: the fields flush, next   *)
(* and info say who called fat_flush, fat_next_cluster and                 *)
(* fat_flush_fileinfo, and so where those return to.                       *)
(*                                                                         *)
(* Abstractions: one directory (the root, not extended here), names are    *)
(* model values, times are left out except for the dirty flag they set,    *)
(* sectors hold SectorSize symbolic bytes, and sector numbers wrap at Word *)
(* as uint32_t does.  A block of the FAT or of the directory read into a   *)
(* file's buffer is MetaBlock.  A cluster number outside the FAT is taken  *)
(* for the address of a block behind the end of the device.  File data     *)
(* taken for a block of the directory never shows the name looked for, and *)
(* no step meets two failing block operations.                             *)
(***************************************************************************)
EXTENDS Integers, Sequences, FiniteSets

CONSTANTS
  Names,              \* file names
  NoName,             \* the name of a closed handle
  MaxOpen,            \* MAX_OPEN_FILES
  Bytes,              \* payload bytes
  Nul, Meta,          \* a zero byte; a byte of file-system metadata
  SectorSize,         \* 512
  SectorsPerCluster,  \* fatfs.sectors_per_cluster
  LastCluster,        \* highest cluster number of the volume
  Cluster0,           \* fatfs.cluster0: sector of the (virtual) cluster 0
  Word,               \* 2^32: sector and cluster numbers wrap here
  EntriesPerFatBlock, \* 512 / fatfs.fat_entry_len
  EntriesPerDirBlock, \* 512 / sizeof(direntS)
  DirSlots,           \* entries of the directory
  Modes,              \* sets of open() flags the callers use
  RoModes,            \* subset of BOOLEAN: open() creates read-only files?
  RoMounts,           \* subset of BOOLEAN: values of read_only after a mount
  Usage,              \* risky ways of calling the API that callers use
  Faulty,             \* block operations that may fail
  MaxSize, MaxCount,  \* bounds: file size, bytes per read or write
  MaxCrashes, MaxFaults

Handles   == 0 .. MaxOpen - 1
FatIndex  == 0 .. LastCluster
Clusters  == 2 .. LastCluster
EndMarker == LastCluster + 1      \* any entry >= fatfs.end_cluster_marker
Bad       == Word - 1             \* (uint32_t)-1
ClusterBytes == SectorsPerCluster * SectorSize
Cells     == Bytes \cup {Nul, Meta}
Block     == [0 .. SectorSize - 1 -> Cells]
MetaBlock == [i \in 0 .. SectorSize - 1 |-> Meta]
NulBlock  == [i \in 0 .. SectorSize - 1 |-> Nul]
Slots     == 1 .. DirSlots

SectorOf(c) == (c * SectorsPerCluster + Cluster0) % Word
LastSector  == LastCluster * SectorsPerCluster + Cluster0 + SectorsPerCluster - 1
Sectors     == 1 .. LastSector
FirstData   == 2 * SectorsPerCluster + Cluster0
\* The cluster a data sector belongs to.
ClusterOf(s) == (s - Cluster0) \div SectorsPerCluster
\* The block of the directory a slot is in.
DirBlock(s) == (s - 1) \div EntriesPerDirBlock

OpenFlags == {"READ", "WRITE", "CREAT", "EXCL", "APPEND", "TRUNC"}
FileFlags == {"OPEN", "READ", "WRITE", "APPEND", "DIRTY", "FS_DIRTY"}
UsageKinds == {"seek", "share", "unlinkopen", "truncclose", "riskyseek"}
BlockOps  == {"flush", "data", "entry", "info", "next", "chain", "sector", "select",
              "seek", "free", "zero", "delete",
              "lookup", "first", "slot", "parent", "search", "reread"}
NoBlock   == -1                   \* MAX_BLOCK: no FAT block in sysbuf yet

ASSUME NamesAssumption == NoName \notin Names
ASSUME GeometryAssumption ==
  /\ MaxOpen \in Nat \ {0}
  /\ SectorSize \in Nat \ {0}
  /\ SectorsPerCluster \in 1 .. 255
  /\ LastCluster \in Nat /\ LastCluster >= 2
  /\ Cluster0 \in Nat
  /\ EntriesPerFatBlock \in Nat \ {0} /\ EntriesPerDirBlock \in Nat \ {0}
  /\ DirSlots \in Nat
  /\ Word \in Nat /\ LastSector < Word /\ LastCluster + 1 < Word
ASSUME CallersAssumption ==
  /\ Modes \subseteq SUBSET OpenFlags
  /\ RoModes \subseteq BOOLEAN /\ RoMounts \subseteq BOOLEAN
  /\ Usage \subseteq UsageKinds /\ Faulty \subseteq BlockOps
ASSUME BoundsAssumption ==
  MaxSize \in Nat /\ MaxCount \in Nat /\ MaxCrashes \in Nat /\ MaxFaults \in Nat

VARIABLES
  fat,        \* the active FAT on disk
  dir,        \* the directory entries on disk
  disk,       \* every sector the FAT and directory variables do not hold
  file_num,   \* the table of open files
  read_only,  \* fatfs.read_only
  pc, call,   \* the running call
  ret,        \* the result of the last call
  crashes, faults,
  owner       \* auxiliary: owner[c] is the first cluster of the chain that
              \* c was allocated to, 0 while c is free; read by no step

diskVars == <<fat, dir, disk>>
vars == <<fat, dir, disk, file_num, read_only, pc, call, ret, crashes, faults, owner>>

(***************************************************************************)
(* State.                                                                  *)
(***************************************************************************)
\* "data": 32 bytes of a file's data, no zero byte first.
DirEntry == [kind: {"end", "deleted", "file", "data"}, name: Names \cup {NoName},
             first: FatIndex, size: Nat, ro: BOOLEAN]
EmptySlot == [kind |-> "end", name |-> NoName, first |-> 0, size |-> 0, ro |-> FALSE]
DataSlot == [EmptySlot EXCEPT !.kind = "data"]

FileS == [flags: SUBSET FileFlags, name: Names \cup {NoName}, ro: BOOLEAN,
          buffer: Block, sector: 0 .. Bad, cluster: 0 .. Bad,
          sectors_left: 0 .. 255, cursor: 0 .. SectorSize, size: Nat,
          first: FatIndex, entry: 0 .. DirSlots, file_sector: Nat]
\* A closed handle.  fat_open() overwrites every field but the buffer, and what
\* that holds shows only where OpenOverlooked and OpenUnread say.
Closed == [flags |-> {}, name |-> NoName, ro |-> FALSE, buffer |-> MetaBlock,
           sector |-> 0, cluster |-> 0, sectors_left |-> 0, cursor |-> 0,
           size |-> 0, first |-> 0, entry |-> 0, file_sector |-> 0]

Payloads == UNION {[1 .. n -> Bytes] : n \in 1 .. MaxCount}
Labels == {"idle", "flush", "data", "info", "sector", "next", "chain", "select",
           "seek", "case", "walk", "walked", "byte", "closing", "delete",
           "free", "freed", "done", "fail", "lost"}
Calls == [op: {"none", "open", "write", "read", "lseek", "close", "unlink"},
          fd: Handles, flush: {"none", "sector", "next", "seek", "close"},
          next: {"none", "sector", "walk"}, info: {"none", "flush", "next", "close"},
          seeking: BOOLEAN, todo: Seq(Bytes), n: Nat, got: Seq(Cells),
          old: Nat, new: Nat, i: Nat, res: 0 .. Bad, slot: 0 .. DirSlots,
          zeroed: SUBSET FatIndex, block: Int]
NoCall == [op |-> "none", fd |-> 0, flush |-> "none", next |-> "none",
           info |-> "none", seeking |-> FALSE, todo |-> <<>>, n |-> 0,
           got |-> <<>>, old |-> 0, new |-> 0, i |-> 0, res |-> 0, slot |-> 0,
           zeroed |-> {}, block |-> NoBlock]
Results == [op: {"none", "open", "write", "read", "lseek", "close", "unlink"},
            err: {"OK", "EBADF", "ENFILE", "ENOENT", "EROFS", "EEXIST",
                  "EACCES", "EIO", "ESEEK"},
            fd: Handles, got: Seq(Cells), new: Nat]
Result(op, err) == [op |-> op, err |-> err, fd |-> 0, got |-> <<>>, new |-> 0]

Init ==
  /\ fat = [c \in FatIndex |-> IF c < 2 THEN EndMarker ELSE 0]
  /\ dir = [s \in Slots |-> EmptySlot]
  /\ disk = [s \in Sectors |-> IF s < FirstData THEN MetaBlock ELSE NulBlock]
  /\ file_num = [h \in Handles |-> Closed]
  /\ read_only = FALSE
  /\ pc = "idle" /\ call = NoCall /\ ret = Result("none", "OK")
  /\ crashes = 0 /\ faults = 0
  /\ owner = [c \in FatIndex |-> 0]

(***************************************************************************)
(* Helpers of the running call.                                            *)
(***************************************************************************)
Cur == file_num[call.fd]
SetCur(f) == file_num' = [file_num EXCEPT ![call.fd] = f]
Pos(f) == f.file_sector * SectorSize + f.cursor
\* Mutant: notices the end of the sector one byte late.
SectorUsedUpLate(f) == f.cursor > SectorSize
SectorUsedUp(f) == f.cursor = SectorSize
\* Mutant: hops to one sector more than the cluster has.
MoreSectorsLate(f) == f.sectors_left >= 0
MoreSectors(f) == f.sectors_left > 0
IsOpen(h) == "OPEN" \in file_num[h].flags
Quiet == UNCHANGED <<read_only, ret, crashes>>
NoWrite == UNCHANGED <<fat, dir, disk, owner>>

\* A block operation of the kind op fails.
Fault(op) == op \in Faulty /\ faults < MaxFaults /\ faults' = faults + 1
Works == UNCHANGED faults

\* fat_get_free_cluster: the first zero entry of the FAT.
FreeCluster(k) == fat[k] = 0 /\ \A c \in 0 .. k - 1 : fat[c] # 0
VolumeFull == \A c \in FatIndex : fat[c] # 0
\* Mutant: returns the free cluster without marking it in the FAT.
ClaimUnmarked(k, first) ==
  UNCHANGED fat /\ owner' = [owner EXCEPT ![k] = first]
Claim(k, first) ==
  fat' = [fat EXCEPT ![k] = EndMarker] /\ owner' = [owner EXCEPT ![k] = first]

\* Mutant: fat_write and fat_read try again after a failing fat_next_sector.
AfterSectorBlind(ok) == IF call.seeking THEN "case" ELSE "byte"
\* Where fat_next_sector, fat_next_cluster, fat_flush and fat_flush_fileinfo
\* return to.
AfterSector(ok) ==
  IF call.seeking THEN "case"
  ELSE IF ok THEN "byte"
  ELSE IF call.op = "read" THEN "done" ELSE "fail"
AfterNext(c) ==
  IF call.next = "walk" THEN "walked"
  ELSE IF c # Bad THEN "select" ELSE AfterSector(FALSE)
AfterFlush(ok) ==
  IF call.flush = "seek" THEN "seek"
  ELSE IF call.flush = "sector" THEN (IF ok THEN "sector" ELSE AfterSector(FALSE))
  ELSE IF call.flush = "next" THEN (IF ok THEN "next" ELSE AfterNext(Bad))
  ELSE IF ok THEN "closing" ELSE "fail"
AfterInfo(ok) ==
  IF call.info = "flush" THEN AfterFlush(TRUE)
  ELSE IF call.info = "next" THEN AfterNext(call.res)
  ELSE IF ok THEN "done" ELSE "fail"

(***************************************************************************)
(* fat_flush: write the buffer back; a file that has no cluster yet gets   *)
(* its first one, and then its directory entry.                            *)
(***************************************************************************)
FlushClean ==
  /\ pc = "flush" /\ "DIRTY" \notin Cur.flags
  /\ pc' = AfterFlush(TRUE)
  /\ Quiet /\ NoWrite /\ Works /\ UNCHANGED <<file_num, call>>

FlushNoSpace ==
  /\ pc = "flush" /\ "DIRTY" \in Cur.flags /\ Cur.sector = 0
  /\ \/ VolumeFull /\ Works
     \/ Fault("flush")
  /\ pc' = AfterFlush(FALSE)
  /\ Quiet /\ NoWrite /\ UNCHANGED <<file_num, call>>

\* Mutant: takes whatever cluster fat_get_free_cluster returns.
FlushAllocateAny(k) ==
  /\ pc = "flush" /\ "DIRTY" \in Cur.flags /\ Cur.sector = 0
  /\ FreeCluster(k)
  /\ Claim(k, k)
  /\ pc' = "data"
  /\ SetCur([Cur EXCEPT !.first = k, !.cluster = k, !.sector = SectorOf(k),
                        !.sectors_left = SectorsPerCluster - 1,
                        !.flags = @ \cup {"FS_DIRTY"}])
  /\ Quiet /\ Works /\ UNCHANGED <<dir, disk, call>>

\* fat_get_free_cluster returns 0 for "none", so a free entry 0 is no success.
FlushAllocate(k) ==
  /\ pc = "flush" /\ "DIRTY" \in Cur.flags /\ Cur.sector = 0
  /\ FreeCluster(k)
  /\ Claim(k, k)
  /\ IF k = 0
     THEN pc' = AfterFlush(FALSE) /\ UNCHANGED file_num
     ELSE /\ pc' = "data"
          /\ SetCur([Cur EXCEPT !.first = k, !.cluster = k,
                                !.sector = SectorOf(k),
                                !.sectors_left = SectorsPerCluster - 1,
                                !.flags = @ \cup {"FS_DIRTY"}])
  /\ Quiet /\ Works /\ UNCHANGED <<dir, disk, call>>

FlushWrite ==
  /\ \/ pc = "data"
     \/ pc = "flush" /\ "DIRTY" \in Cur.flags /\ Cur.sector # 0
  /\ Cur.sector \in Sectors
  /\ disk' = [disk EXCEPT ![Cur.sector] = Cur.buffer]
  /\ SetCur([Cur EXCEPT !.flags = @ \ {"DIRTY"}])
  /\ IF pc = "data"
     THEN pc' = "info" /\ call' = [call EXCEPT !.info = "flush"]
     ELSE pc' = AfterFlush(TRUE) /\ UNCHANGED call
  /\ Quiet /\ Works /\ UNCHANGED <<fat, dir, owner>>

FlushWriteFails ==
  /\ \/ pc = "data"
     \/ pc = "flush" /\ "DIRTY" \in Cur.flags /\ Cur.sector # 0
  /\ \/ Cur.sector \notin Sectors /\ Works
     \/ Cur.sector \in Sectors /\ Fault("data")
  /\ pc' = AfterFlush(FALSE)
  /\ Quiet /\ NoWrite /\ UNCHANGED <<file_num, call>>

(***************************************************************************)
(* fat_flush_fileinfo: write the directory entry.  Its own fat_flush finds *)
(* the buffer clean: every caller has just flushed it.                     *)
(***************************************************************************)

\* Mutant: takes the first entry of the directory, used or not.
FirstSlot(s) == s = 1
FirstEmptySlot(s) ==
  dir[s].kind = "end" /\ \A t \in 1 .. s - 1 : dir[t].kind # "end"
EntrySlot(s) == IF Cur.entry # 0 THEN s = Cur.entry ELSE FirstEmptySlot(s)
EntryOf(f) == [kind |-> "file", name |-> f.name, first |-> f.first,
               size |-> f.size, ro |-> f.ro]
\* Mutant: forgets entry_sector and entry_number after writing the entry.
SavedNowhere(f, s) == [f EXCEPT !.buffer = disk[f.sector],
                                !.flags = @ \ {"FS_DIRTY"}]
Saved(f, s) == [f EXCEPT !.entry = s, !.buffer = disk[f.sector],
                         !.flags = @ \ {"FS_DIRTY"}]
NothingToSave(f) == \/ f.entry = 0 /\ "WRITE" \notin f.flags
                    \/ f.first = 0

InfoSkip ==
  /\ pc = "info" /\ NothingToSave(Cur)
  /\ pc' = AfterInfo(TRUE)
  /\ Quiet /\ NoWrite /\ Works /\ UNCHANGED <<file_num, call>>

InfoWrite(s) ==
  /\ pc = "info" /\ ~NothingToSave(Cur) /\ EntrySlot(s)
  /\ dir' = [dir EXCEPT ![s] = EntryOf(Cur)]
  /\ \/ /\ Cur.sector \in Sectors
        /\ SetCur(Saved(Cur, s))
        /\ pc' = AfterInfo(TRUE) /\ Works
     \/ /\ SetCur([Cur EXCEPT !.entry = s, !.buffer = MetaBlock])
        /\ pc' = AfterInfo(FALSE)
        /\ IF Cur.sector \in Sectors THEN Fault("info") ELSE Works
  /\ Quiet /\ UNCHANGED <<fat, disk, owner, call>>

\* The block of a file's entry cannot be read.
InfoUnreadable ==
  /\ pc = "info" /\ ~NothingToSave(Cur) /\ Cur.entry # 0
  /\ Fault("slot")
  /\ pc' = AfterInfo(FALSE)
  /\ Quiet /\ NoWrite /\ UNCHANGED <<file_num, call>>

\* A new file's search for a slot ignores that block b of the directory cannot
\* be read.  A block behind the first one is passed over; in place of the first
\* one the search looks at the file's own data.
Unread(b) == Fault(IF b = 0 THEN "parent" ELSE "search")
EmptyElsewhere(s, b) ==
  /\ dir[s].kind = "end" /\ DirBlock(s) > b
  /\ \A t \in 1 .. s - 1 : dir[t].kind = "end" => DirBlock(t) = b
\* Block b holds file data, with a zero byte where the slots Z begin.
Overwritten(b, Z) ==
  [s \in Slots |-> IF DirBlock(s) # b THEN dir[s]
                   ELSE IF s \in Z THEN EmptySlot ELSE DataSlot]
InfoAstray(s) ==
  /\ pc = "info" /\ ~NothingToSave(Cur) /\ Cur.entry = 0
  /\ \/ \E b \in 0 .. DirSlots : /\ Unread(b) /\ EmptyElsewhere(s, b)
                                /\ dir' = [dir EXCEPT ![s] = EntryOf(Cur)]
     \/ /\ Unread(0) /\ DirBlock(s) = 0
        /\ \E Z \in SUBSET (s + 1 .. DirSlots) :
             dir' = [Overwritten(0, Z) EXCEPT ![s] = EntryOf(Cur)]
  /\ IF Cur.sector \in Sectors
     THEN SetCur(Saved(Cur, s)) /\ pc' = AfterInfo(TRUE)
     ELSE /\ SetCur([Cur EXCEPT !.entry = s, !.buffer = MetaBlock])
          /\ pc' = AfterInfo(FALSE)
  /\ Quiet /\ UNCHANGED <<fat, disk, owner, call>>

\* The search meets no empty slot.  At the end of the directory fat_next_sector
\* fails, which it ignores too, so it looks at the last block for ever.
InfoLost ==
  /\ pc = "info" /\ ~NothingToSave(Cur) /\ Cur.entry = 0
  /\ \/ Works /\ \A s \in Slots : dir[s].kind # "end"
     \/ \E b \in {DirBlock(s) : s \in Slots} :
          Unread(b) /\ \A s \in Slots : dir[s].kind = "end" => DirBlock(s) = b
  /\ pc' = "lost"
  /\ Quiet /\ NoWrite /\ UNCHANGED <<file_num, call>>

\* The entry's block cannot be written: the handle keeps the slot it chose.
InfoWriteFails(s) ==
  /\ pc = "info" /\ ~NothingToSave(Cur) /\ EntrySlot(s)
  /\ Fault("entry")
  /\ SetCur([Cur EXCEPT !.entry = s, !.buffer = MetaBlock])
  /\ pc' = AfterInfo(FALSE)
  /\ Quiet /\ NoWrite /\ UNCHANGED call

(***************************************************************************)
(* fat_next_sector, after its fat_flush.                                   *)
(***************************************************************************)
SectorHop ==
  /\ pc = "sector" /\ MoreSectors(Cur)
  /\ LET s == (Cur.sector + 1) % Word
         f == [Cur EXCEPT !.sectors_left = @ - 1, !.file_sector = @ + 1,
                          !.cursor = 0, !.sector = s]
     IN \/ /\ s \in Sectors /\ Works
           /\ SetCur([f EXCEPT !.buffer = disk[s]])
           /\ pc' = AfterSector(TRUE)
        \/ /\ IF s \in Sectors THEN Fault("sector") ELSE Works
           /\ SetCur(f)
           /\ pc' = AfterSector(FALSE)
  /\ Quiet /\ NoWrite /\ UNCHANGED call

SectorEnd ==
  /\ pc = "sector" /\ ~MoreSectors(Cur)
  /\ pc' = "next" /\ call' = [call EXCEPT !.next = "sector", !.res = Bad]
  /\ Quiet /\ NoWrite /\ Works /\ UNCHANGED file_num

\* fat_select_cluster on the cluster fat_next_cluster returned.
SelectCluster ==
  /\ pc = "select"
  /\ LET s == SectorOf(call.res)
         f == [Cur EXCEPT !.file_sector = @ + 1, !.sector = s,
                          !.sectors_left = SectorsPerCluster - 1,
                          !.cluster = call.res, !.cursor = 0]
     IN \/ /\ s \in Sectors /\ Works
           /\ SetCur([f EXCEPT !.buffer = disk[s]])
           /\ pc' = AfterSector(TRUE)
        \/ /\ s \in Sectors /\ Fault("select")
           /\ SetCur(f)
           /\ pc' = AfterSector(FALSE)
  /\ Quiet /\ NoWrite /\ UNCHANGED call

(***************************************************************************)
(* fat_next_cluster, after its fat_flush.  The FAT block is read into the  *)
(* file's own buffer.  A cluster number outside the FAT makes the block    *)
(* read fail.                                                              *)
(***************************************************************************)
NextReturn(c) == pc' = AfterNext(c) /\ call' = [call EXCEPT !.res = c]

NextLink ==
  /\ pc = "next" /\ Cur.cluster \in FatIndex
  /\ LET j == fat[Cur.cluster]
     IN /\ j < EndMarker
        /\ NextReturn(IF j < 2 THEN Bad ELSE j)
  /\ SetCur([Cur EXCEPT !.buffer = MetaBlock])
  /\ Quiet /\ NoWrite /\ Works

NextEnd ==
  /\ pc = "next" /\ Cur.cluster \in FatIndex /\ fat[Cur.cluster] = EndMarker
  /\ \/ "WRITE" \notin Cur.flags /\ Works
     \/ "WRITE" \in Cur.flags /\ VolumeFull /\ Works
     \/ "WRITE" \in Cur.flags /\ Fault("next")
  /\ NextReturn(Bad)
  /\ SetCur([Cur EXCEPT !.buffer = MetaBlock])
  /\ Quiet /\ NoWrite

NextUnreadable ==
  /\ pc = "next"
  /\ IF Cur.cluster \in FatIndex THEN Fault("next") ELSE Works
  /\ NextReturn(Bad)
  /\ Quiet /\ NoWrite /\ UNCHANGED file_num

NextAllocate(k) ==
  /\ pc = "next" /\ Cur.cluster \in FatIndex /\ fat[Cur.cluster] = EndMarker
  /\ "WRITE" \in Cur.flags /\ FreeCluster(k)
  /\ Claim(k, IF k = 0 THEN 0 ELSE Cur.first)
  /\ IF k = 0
     THEN NextReturn(Bad)
     ELSE pc' = "chain" /\ call' = [call EXCEPT !.res = k]
  /\ SetCur([Cur EXCEPT !.buffer = MetaBlock])
  /\ Quiet /\ Works /\ UNCHANGED <<dir, disk>>

\* Mutant: the link from the old end of the chain is not written.
NextUnchained ==
  /\ pc = "chain"
  /\ pc' = "info" /\ call' = [call EXCEPT !.info = "next"]
  /\ Quiet /\ Works /\ NoWrite /\ UNCHANGED file_num

\* The old end of the chain is pointed at the new cluster; the directory
\* entry is saved "periodically", here.
NextChain ==
  /\ pc = "chain"
  /\ fat' = [fat EXCEPT ![Cur.cluster] = call.res]
  /\ pc' = "info" /\ call' = [call EXCEPT !.info = "next"]
  /\ Quiet /\ Works /\ UNCHANGED <<dir, disk, owner, file_num>>

\* Mutant: goes on with the new cluster although the link was not written.
NextChainFailsBlind ==
  /\ pc = "chain" /\ Fault("chain")
  /\ NextReturn(call.res)
  /\ Quiet /\ NoWrite /\ UNCHANGED file_num

NextChainFails ==
  /\ pc = "chain" /\ Fault("chain")
  /\ NextReturn(Bad)
  /\ Quiet /\ NoWrite /\ UNCHANGED file_num

(***************************************************************************)
(* fat_lseek.  Callers compute old and new before the flush, which moves   *)
(* neither; a failing flush is ignored.                                    *)
(***************************************************************************)
AfterSeek(ok) == IF call.op = "write" THEN "byte" ELSE IF ok THEN "done" ELSE "fail"
EndSeek(ok) == pc' = AfterSeek(ok) /\ call' = [call EXCEPT !.seeking = FALSE]
InFile(f, p) == p <= f.size

\* "ESEEK" stands for the return value ptr - 1, with errno left at 0.
SeekOutside ==
  /\ pc = "seek" /\ ~InFile(Cur, call.new)
  /\ EndSeek(FALSE)
  /\ Quiet /\ NoWrite /\ Works /\ UNCHANGED file_num

\* The cursor has run off the sector: load the next one before moving.
SeekFlushed ==
  /\ pc = "seek" /\ InFile(Cur, call.new)
  /\ IF SectorUsedUp(Cur)
     THEN pc' = "flush" /\ call' = [call EXCEPT !.flush = "sector"]
     ELSE pc' = "case" /\ UNCHANGED call
  /\ Quiet /\ NoWrite /\ Works /\ UNCHANGED file_num

SeekSector ==                                  \* case 1
  /\ pc = "case" /\ call.old \div SectorSize = call.new \div SectorSize
  /\ SetCur([Cur EXCEPT !.cursor = call.new % SectorSize])
  /\ EndSeek(TRUE)
  /\ Quiet /\ NoWrite /\ Works

\* Load sector s of the file and end the seek.
SeekLoad(f, s) ==
  \/ /\ s \in Sectors /\ Works
     /\ SetCur([f EXCEPT !.sector = s, !.buffer = disk[s]])
     /\ EndSeek(TRUE)
  \/ /\ IF s \in Sectors THEN Fault("seek") ELSE Works
     /\ SetCur([f EXCEPT !.sector = s])
     /\ EndSeek(FALSE)

\* Mutant: old and new position the wrong way round.
SectorsLeftSwapped(f, o, n) == (f.sectors_left + n - o) % 256
SectorsLeft(f, o, n) == (f.sectors_left - n + o) % 256
SeekCluster ==                                 \* case 2
  /\ pc = "case"
  /\ LET o == call.old \div SectorSize
         n == call.new \div SectorSize
         f == [Cur EXCEPT !.file_sector = n, !.cursor = call.new % SectorSize,
                          !.sectors_left = SectorsLeft(Cur, o, n)]
     IN /\ o # n
        /\ call.old \div ClusterBytes = call.new \div ClusterBytes
        /\ SeekLoad(f, (Cur.sector + n - o) % Word)
  /\ Quiet /\ NoWrite

SeekRewind ==                                  \* otherwise walk the chain
  /\ pc = "case" /\ call.old \div ClusterBytes # call.new \div ClusterBytes
  /\ SetCur([Cur EXCEPT !.cluster = Cur.first])
  /\ pc' = "walk" /\ call' = [call EXCEPT !.i = 0]
  /\ Quiet /\ NoWrite /\ Works

WalkNext ==
  /\ pc = "walk" /\ call.i < call.new \div ClusterBytes
  /\ pc' = "flush"
  /\ call' = [call EXCEPT !.flush = "next", !.next = "walk", !.res = Bad]
  /\ Quiet /\ NoWrite /\ Works /\ UNCHANGED file_num

WalkMove ==
  /\ pc = "walked"
  /\ SetCur([Cur EXCEPT !.cluster = call.res])
  /\ pc' = "walk" /\ call' = [call EXCEPT !.i = @ + 1]
  /\ Quiet /\ NoWrite /\ Works

WalkEnd ==
  /\ pc = "walk" /\ call.i = call.new \div ClusterBytes
  /\ LET sec == (call.new % ClusterBytes) \div SectorSize
         f == [Cur EXCEPT !.file_sector = call.new \div SectorSize,
                          !.cursor = call.new % SectorSize,
                          !.sectors_left = SectorsPerCluster - sec - 1]
     IN SeekLoad(f, (SectorOf(Cur.cluster) + sec) % Word)
  /\ Quiet /\ NoWrite

(***************************************************************************)
(* The byte loops of fat_write and fat_read.                               *)
(***************************************************************************)
NeedSector ==
  /\ pc' = "flush" /\ call' = [call EXCEPT !.flush = "sector"]
  /\ UNCHANGED file_num

WriteByte ==
  /\ pc = "byte" /\ call.op = "write" /\ call.todo # <<>>
  /\ IF SectorUsedUp(Cur) THEN NeedSector
     ELSE LET grows == Pos(Cur) = Cur.size
          IN /\ SetCur([Cur EXCEPT
                   !.buffer = [@ EXCEPT ![Cur.cursor] = Head(call.todo)],
                   !.cursor = @ + 1,
                   !.size = IF grows THEN @ + 1 ELSE @,
                   !.flags = @ \cup {"DIRTY"} \cup
                             (IF grows THEN {"FS_DIRTY"} ELSE {})])
             /\ call' = [call EXCEPT !.todo = Tail(@)]
             /\ UNCHANGED pc
  /\ Quiet /\ NoWrite /\ Works

ReadByte ==
  /\ pc = "byte" /\ call.op = "read" /\ call.n > 0 /\ Pos(Cur) < Cur.size
  /\ IF SectorUsedUp(Cur) THEN NeedSector
     ELSE /\ SetCur([Cur EXCEPT !.cursor = @ + 1])
          /\ call' = [call EXCEPT !.n = @ - 1,
                                  !.got = Append(@, Cur.buffer[Cur.cursor])]
          /\ UNCHANGED pc
  /\ Quiet /\ NoWrite /\ Works

BytesDone ==
  /\ pc = "byte"
  /\ \/ call.op = "write" /\ call.todo = <<>>
     \/ call.op = "read" /\ (call.n = 0 \/ Pos(Cur) >= Cur.size)
  /\ pc' = "done"
  /\ Quiet /\ NoWrite /\ Works /\ UNCHANGED <<file_num, call>>

(***************************************************************************)
(* fat_free_clusters: zero the chain that starts at call.res.  Zeroes stay *)
(* in sysbuf until the walk leaves the FAT block they are in.  Failing     *)
(* writes are ignored, a failing read ends the walk.                       *)
(***************************************************************************)
FatBlock(c) == c \div EntriesPerFatBlock
Zero(f, S) == [c \in FatIndex |-> IF c \in S THEN 0 ELSE f[c]]
Leaving == call.block \notin {NoBlock, FatBlock(call.res)}
WriteZeroes ==
  fat' = Zero(fat, call.zeroed) /\ owner' = Zero(owner, call.zeroed)

FreeEntry ==
  /\ pc = "free"
  /\ \/ ~Leaving /\ Works /\ UNCHANGED <<fat, owner>>
     \/ Leaving /\ Works /\ WriteZeroes
     \/ Leaving /\ Fault("zero") /\ UNCHANGED <<fat, owner>>
  /\ LET here == IF Leaving THEN {} ELSE call.zeroed
         j == IF call.res \in here THEN 0 ELSE fat[call.res]
     IN /\ call' = [call EXCEPT !.zeroed = here \cup {call.res},
                                !.block = FatBlock(call.res),
                                !.res = IF j < EndMarker THEN j ELSE @]
        /\ pc' = IF j < EndMarker THEN "free" ELSE "freed"
  /\ Quiet /\ UNCHANGED <<dir, disk, file_num>>

FreeUnreadable ==
  /\ pc = "free" /\ call.block # FatBlock(call.res) /\ Fault("free")
  /\ IF Leaving THEN WriteZeroes ELSE UNCHANGED <<fat, owner>>
  /\ call' = [call EXCEPT !.zeroed = {}]
  /\ pc' = "done"
  /\ Quiet /\ UNCHANGED <<dir, disk, file_num>>

FreeLast ==
  /\ pc = "freed"
  /\ \/ Works /\ WriteZeroes
     \/ Fault("zero") /\ UNCHANGED <<fat, owner>>
  /\ call' = [call EXCEPT !.zeroed = {}]
  /\ pc' = "done"
  /\ Quiet /\ UNCHANGED <<dir, disk, file_num>>

\* Mutant: deletes the entry and forgets the clusters.
DeleteEntryOnly ==
  /\ pc = "delete"
  /\ Works /\ dir' = [dir EXCEPT ![call.slot].kind = "deleted"]
  /\ pc' = "done"
  /\ Quiet /\ UNCHANGED <<fat, disk, owner, file_num, call>>

\* fat_delete: mark the entry deleted, whether or not the write succeeds go on
\* to free the clusters.  When the entry's block cannot be read, the buffer still
\* holds the first sector of the file, and that is what is written over it.
DeleteEntry ==
  /\ pc = "delete"
  /\ \/ Works /\ dir' = [dir EXCEPT ![call.slot].kind = "deleted"]
     \/ Fault("delete") /\ UNCHANGED dir
     \/ /\ Fault("reread")
        /\ \E Z \in SUBSET Slots :
             dir' = [Overwritten(DirBlock(call.slot), Z) EXCEPT
                       ![call.slot] = [DataSlot EXCEPT !.kind = "deleted"]]
  /\ pc' = "free"
  /\ Quiet /\ UNCHANGED <<fat, disk, owner, file_num, call>>

(***************************************************************************)
(* The end of a call.                                                      *)
(***************************************************************************)
\* fat_close between its two flushes.
CloseInfo ==
  /\ pc = "closing"
  /\ IF "FS_DIRTY" \in Cur.flags
     THEN pc' = "info" /\ call' = [call EXCEPT !.info = "close"]
     ELSE pc' = "done" /\ UNCHANGED call
  /\ Quiet /\ NoWrite /\ Works /\ UNCHANGED file_num

\* Mutant: the handle keeps the sector and cluster that were freed.
TruncatedInPlace(f) == [f EXCEPT !.size = 0, !.first = 0, !.file_sector = 0,
                                 !.flags = @ \cup {"FS_DIRTY"}]
\* O_TRUNC, once the clusters are freed.
Truncated(f) == [f EXCEPT !.size = 0, !.first = 0, !.sector = 0, !.cluster = 0,
                          !.sectors_left = 0, !.file_sector = 0,
                          !.flags = @ \cup {"FS_DIRTY"}]

\* fat_update_atime marks the file only when the date has changed.
Finished(op) ==
  \/ op = "open" /\ SetCur(Truncated(Cur))
  \/ op = "write" /\ SetCur([Cur EXCEPT !.flags = @ \cup {"FS_DIRTY"}])
  \/ /\ op = "read"
     /\ \/ UNCHANGED file_num
        \/ call.got # <<>> /\ SetCur([Cur EXCEPT !.flags = @ \cup {"FS_DIRTY"}])
  \/ op \in {"lseek", "unlink"} /\ UNCHANGED file_num
  \/ op = "close" /\ SetCur(Closed)

Return ==
  /\ \/ pc = "done" /\ Finished(call.op)
     \/ pc = "fail" /\ UNCHANGED file_num
  /\ ret' = [op |-> call.op, fd |-> call.fd, got |-> call.got,
             err |-> IF pc = "done" THEN "OK"
                     ELSE IF call.op = "lseek" THEN "ESEEK" ELSE "EIO",
             new |-> IF pc = "done" THEN call.new ELSE 0]
  /\ pc' = "idle" /\ call' = NoCall
  /\ NoWrite /\ Works /\ UNCHANGED <<read_only, crashes>>

(***************************************************************************)
(* The calls of the API.                                                   *)
(***************************************************************************)
Start(c, label) == pc' = label /\ call' = c /\ UNCHANGED <<ret, file_num>>
Refuse(op, err) ==
  ret' = Result(op, err) /\ UNCHANGED <<pc, call, file_num>>
Ready == pc = "idle" /\ NoWrite /\ UNCHANGED <<read_only, crashes>>
Idle == Ready /\ Works

\* fat_get_next_file
NextFile(h) == ~IsOpen(h) /\ \A g \in 0 .. h - 1 : IsOpen(g)
TableFull == \A h \in Handles : IsOpen(h)

\* fat_lookup_path within one directory.
IsNamed(s, n) == dir[s].kind = "file" /\ dir[s].name = n
Lookup(s, n) ==
  IsNamed(s, n) /\ \A t \in 1 .. s - 1 : dir[t].kind # "end" /\ ~IsNamed(t, n)
Missing(n) == \A s \in Slots : ~Lookup(s, n)

\* Bound: the directory has an empty slot for every file not yet in it.
DirRoom == Cardinality({h \in Handles : IsOpen(h) /\ file_num[h].entry = 0})
             < Cardinality({s \in Slots : dir[s].kind = "end"})
NotInUse(n) == \A h \in Handles : file_num[h].name # n

AccessFlags(m) == {"OPEN"} \cup (m \cap {"READ", "WRITE", "APPEND"})
NewFile(n, m, ro) == [Closed EXCEPT !.flags = AccessFlags(m), !.name = n,
                                    !.ro = ro, !.buffer = NulBlock]
OldFile(s, m) == [Closed EXCEPT
  !.flags = AccessFlags(m), !.name = dir[s].name, !.ro = dir[s].ro,
  !.size = dir[s].size, !.first = dir[s].first, !.entry = s,
  !.cluster = dir[s].first, !.sector = SectorOf(dir[s].first),
  !.sectors_left = SectorsPerCluster - 1, !.buffer = disk[SectorOf(dir[s].first)]]

OpenNoHandle(n) == Idle /\ TableFull /\ Refuse("open", "ENFILE")

CreateIn(h, n, m, ro) ==
  IF "CREAT" \notin m THEN Refuse("open", "ENOENT")
  ELSE IF read_only THEN Refuse("open", "EROFS")
  ELSE /\ DirRoom
       /\ file_num' = [file_num EXCEPT ![h] = NewFile(n, m, ro)]
       /\ ret' = [Result("open", "OK") EXCEPT !.fd = h]
       /\ UNCHANGED <<pc, call>>
OpenMissing(n, m, ro) ==
  /\ Idle /\ Missing(n) /\ ("share" \in Usage \/ NotInUse(n))
  /\ \E h \in Handles :
       /\ NextFile(h)
       /\ CreateIn(h, n, m, ro)

\* A block of the directory cannot be read: the search passes it over, or ends
\* there, and fat_open takes an existing file for a missing one.
OpenOverlooked(n, m, ro) ==
  /\ Ready /\ Fault("lookup") /\ ~Missing(n) /\ ("share" \in Usage \/ NotInUse(n))
  /\ \E h \in Handles : NextFile(h) /\ CreateIn(h, n, m, ro)

\* Handle h becomes f, the file of slot s.
OpenIn(h, s, m, f) ==
  IF {"CREAT", "EXCL"} \subseteq m THEN Refuse("open", "EEXIST")
  ELSE IF "WRITE" \in m /\ read_only THEN Refuse("open", "EROFS")
  ELSE IF "WRITE" \in m /\ dir[s].ro THEN Refuse("open", "EACCES")
  ELSE /\ file_num' = [file_num EXCEPT ![h] = f]
       /\ IF {"WRITE", "TRUNC"} \subseteq m
          THEN /\ pc' = "free" /\ UNCHANGED ret
               /\ call' = [NoCall EXCEPT !.op = "open", !.fd = h,
                                         !.res = dir[s].first]
          ELSE /\ ret' = [Result("open", "OK") EXCEPT !.fd = h]
               /\ UNCHANGED <<pc, call>>
OpenFound(n, m) ==
  /\ Idle /\ ("share" \in Usage \/ NotInUse(n))
  /\ \E h \in Handles, s \in Slots :
       NextFile(h) /\ Lookup(s, n) /\ OpenIn(h, s, m, OldFile(s, m))

\* The file's first sector cannot be read, which fat_lookup_path ignores: the
\* buffer still holds the directory block.
OpenUnread(n, m) ==
  /\ Ready /\ Fault("first") /\ ("share" \in Usage \/ NotInUse(n))
  /\ \E h \in Handles, s \in Slots :
       /\ NextFile(h) /\ Lookup(s, n)
       /\ OpenIn(h, s, m, [OldFile(s, m) EXCEPT !.buffer = MetaBlock])

\* Seeks that need a sector the file may not have.  A handle that cannot
\* extend the file has none behind the last one; on a volume without room
\* neither has a file that ends with its last sector, nor any file whose first
\* sector is still unstored.
RiskySeek(f, new) ==
  IF "WRITE" \notin f.flags
  THEN f.cursor = SectorSize /\ Pos(f) = new /\ new = f.size
  ELSE /\ Cardinality({c \in FatIndex : fat[c] = 0}) < 2
       /\ \/ f.sector = 0 /\ "DIRTY" \in f.flags
          \/ new = f.size /\ new # 0 /\ new % SectorSize = 0
MaySeek(f, new) == "riskyseek" \in Usage \/ ~RiskySeek(f, new)

Has(h, flags) == flags \subseteq file_num[h].flags
Write(h, bs) ==
  /\ Idle /\ Has(h, {"OPEN", "WRITE"})
  /\ LET f == file_num[h]
         c == [NoCall EXCEPT !.op = "write", !.fd = h, !.todo = bs]
     IN IF "APPEND" \in f.flags
        THEN /\ f.size + Len(bs) <= MaxSize /\ MaySeek(f, f.size)
             /\ Start([c EXCEPT !.seeking = TRUE, !.flush = "seek",
                                !.old = Pos(f), !.new = f.size], "flush")
        ELSE Pos(f) + Len(bs) <= MaxSize /\ Start(c, "byte")

Read(h, n) ==
  /\ Idle /\ Has(h, {"OPEN", "READ"})
  /\ Start([NoCall EXCEPT !.op = "read", !.fd = h, !.n = n], "byte")

\* whence: SEEK_SET, SEEK_CUR or SEEK_END; positions are unsigned.
SeekBase(f, whence) ==
  CASE whence = "SET" -> 0 [] whence = "CUR" -> Pos(f) [] whence = "END" -> f.size
Lseek(h, ptr, whence) ==
  /\ Idle /\ Has(h, {"OPEN"}) /\ ("seek" \in Usage \/ ~Has(h, {"WRITE"}))
  /\ LET f == file_num[h]
         new == (SeekBase(f, whence) + ptr) % Word
     IN /\ MaySeek(f, new)
        /\ Start([NoCall EXCEPT !.op = "lseek", !.fd = h, !.seeking = TRUE,
                                !.flush = "seek", !.old = Pos(f), !.new = new],
                 "flush")

\* A file truncated by open() and not written to since.
Emptied(f) == f.entry # 0 /\ f.first = 0
Close(h) ==
  /\ Idle /\ Has(h, {"OPEN"})
  /\ "truncclose" \in Usage \/ ~Emptied(file_num[h]) \/ Has(h, {"DIRTY"})
  /\ Start([NoCall EXCEPT !.op = "close", !.fd = h, !.flush = "close"], "flush")

BadHandle(h) ==
  /\ Idle
  /\ \/ ~Has(h, {"OPEN", "WRITE"}) /\ Refuse("write", "EBADF")
     \/ ~Has(h, {"OPEN", "READ"}) /\ Refuse("read", "EBADF")
     \/ ~Has(h, {"OPEN"}) /\ \E op \in {"lseek", "close"} : Refuse(op, "EBADF")

\* fat_unlink opens the file for reading, deletes it, and closes it again; the
\* handle it uses is free before and after.
UnlinkRefused(n) ==
  /\ Idle
  /\ \/ TableFull /\ Refuse("unlink", "ENFILE")
     \/ ~TableFull /\ Missing(n) /\ Refuse("unlink", "ENOENT")
UnlinkOverlooked(n) ==
  /\ Ready /\ ~TableFull /\ ~Missing(n)
  /\ Fault("lookup") /\ Refuse("unlink", "ENOENT")
Unlink(n) ==
  /\ Idle /\ ~TableFull /\ ("unlinkopen" \in Usage \/ NotInUse(n))
  /\ \E s \in Slots :
       /\ Lookup(s, n)
       /\ Start([NoCall EXCEPT !.op = "unlink", !.slot = s, !.res = dir[s].first],
                "delete")

\* Power loss and the next mount: memory is lost, the disk stays as it is.
Crash ==
  /\ crashes < MaxCrashes /\ crashes' = crashes + 1
  /\ file_num' = [h \in Handles |-> Closed]
  /\ pc' = "idle" /\ call' = NoCall /\ ret' = Result("none", "OK")
  /\ read_only' \in RoMounts
  /\ NoWrite /\ Works

(***************************************************************************)
(* The specification.                                                      *)
(***************************************************************************)
FlushStep == \/ FlushClean \/ FlushNoSpace \/ FlushWrite \/ FlushWriteFails
             \/ \E k \in FatIndex : FlushAllocate(k)
InfoStep  == \/ InfoSkip
             \/ \E s \in Slots : InfoWrite(s) \/ InfoWriteFails(s) \/ InfoAstray(s)
             \/ InfoUnreadable \/ InfoLost
NextStep  == \/ SectorHop \/ SectorEnd \/ SelectCluster
             \/ NextLink \/ NextEnd \/ NextUnreadable
             \/ NextChain \/ NextChainFails
             \/ \E k \in FatIndex : NextAllocate(k)
SeekStep  == \/ SeekOutside \/ SeekFlushed \/ SeekSector \/ SeekCluster
             \/ SeekRewind \/ WalkNext \/ WalkMove \/ WalkEnd
ByteStep  == WriteByte \/ ReadByte \/ BytesDone
FreeStep  == FreeEntry \/ FreeUnreadable \/ FreeLast \/ DeleteEntry
\* The steps of a running call.
Step == FlushStep \/ InfoStep \/ NextStep \/ SeekStep \/ ByteStep \/ FreeStep
          \/ CloseInfo \/ Return
\* The beginnings of calls.
Begin ==
  \/ \E n \in Names :
       \/ OpenNoHandle(n) \/ Unlink(n) \/ UnlinkRefused(n) \/ UnlinkOverlooked(n)
       \/ \E m \in Modes :
            \/ OpenFound(n, m) \/ OpenUnread(n, m)
            \/ \E ro \in RoModes : OpenMissing(n, m, ro) \/ OpenOverlooked(n, m, ro)
  \/ \E h \in Handles :
       \/ Close(h) \/ BadHandle(h)
       \/ \E bs \in Payloads : Write(h, bs)
       \/ \E n \in 1 .. MaxCount : Read(h, n)
       \/ \E w \in {"SET", "CUR", "END"}, p \in -MaxSize .. MaxSize : Lseek(h, p, w)
Next == Step \/ Begin \/ Crash

Spec == Init /\ [][Next]_vars
\* A call that has begun is run to its end by its caller's thread.
FairSpec == Spec /\ WF_vars(Step)

(***************************************************************************)
(* Properties.                                                             *)
(***************************************************************************)
TypeOK ==
  /\ fat \in [FatIndex -> 0 .. EndMarker]
  /\ dir \in [Slots -> DirEntry]
  /\ disk \in [Sectors -> Block]
  /\ file_num \in [Handles -> FileS]
  /\ read_only \in BOOLEAN
  /\ pc \in Labels /\ call \in Calls /\ ret \in Results
  /\ crashes \in Nat /\ faults \in Nat
  /\ owner \in [FatIndex -> FatIndex]

Live(s) == dir[s].kind = "file"

\* No cluster is referred to twice, by directory entries or by FAT entries,
\* and none that is referred to is marked free: in every state, in the middle
\* of fat_flush, fat_next_cluster and fat_free_clusters as well as after a
\* power loss at any of their block writes.
NoCrossLink ==
  /\ \A s \in Slots : Live(s) => dir[s].first \in Clusters /\ fat[dir[s].first] # 0
  /\ \A c \in Clusters : fat[c] \in {0, EndMarker} \cup Clusters
  /\ \A c \in Clusters : fat[c] \in Clusters => fat[fat[c]] # 0
  /\ \A s, t \in Slots : Live(s) /\ Live(t) /\ s # t => dir[s].first # dir[t].first
  /\ \A c, d \in Clusters : fat[c] \in Clusters /\ c # d => fat[c] # fat[d]
  /\ \A s \in Slots, c \in Clusters : Live(s) => fat[c] # dir[s].first

\* fat_open creates a file only where fat_lookup_path finds none, and
\* fat_flush_fileinfo gives it one entry: no name is ever in the directory
\* twice.
UniqueNames ==
  \A s, t \in Slots : Live(s) /\ Live(t) /\ s # t => dir[s].name # dir[t].name

\* fat_flush writes a file's data into clusters allocated to that file, never
\* into another file's and never into the boot sector, FAT or directory area.
WritesOwnCluster ==
  [][\A s \in Sectors : disk'[s] # disk[s] =>
       s >= FirstData /\ owner[ClusterOf(s)] = Cur.first]_vars

\* However files are shared, unlinked while open or truncated, fat_flush writes
\* no file's data over the boot sector, the FAT or the directory: even when
\* fat_free_clusters has freed FAT entry 0, cluster 0 is never a file's.  And a
\* step changes one entry of the directory at most, unless the read before it
\* has just failed.
MetadataKept ==
  [][/\ \A s \in Sectors : disk'[s] # disk[s] => s >= FirstData
     /\ \A s, t \in Slots : dir'[s] # dir[s] /\ dir'[t] # dir[t] =>
          s = t \/ faults' > faults]_vars

\* A volume mounted read-only (fatfs.read_only) is not written to: neither the
\* FAT nor the directory nor the data changes.
ReadOnlyUntouched == [][read_only => UNCHANGED diskVars]_vars
=============================================================================
