-------------------------------- MODULE Ext2 --------------------------------
(***************************************************************************)
(* The ext2 driver, embext.c: mounting, handles on inodes, reading and     *)
(* appending, seeking, directory records, and what umount writes.          *)
(*                                                                         *)
(* One call at a time; two handles on the one volume.  A sector holds a    *)
(* few cells: file data, the headers and names of directory records, group *)
(* descriptors or inodes.  Time stamps are the fact that an inode has to   *)
(* be stored.                                                              *)
(*                                                                         *)
(* As in FatDir, a step that loses what the properties are about collects  *)
(* a risk, and a call whose risks are not among Risks is not made.         *)
(***************************************************************************)
EXTENDS Integers, Sequences, SequencesExt, FiniteSetsExt

CONSTANTS
  Volumes,             \* [log, blocks, per_group, sparse, read_only]
  Image, Home,         \* the sectors of every volume; the place of every inode
  Tree,                \* path |-> inode number of the volume's regular files
  Paths, Modes,        \* of the calls of open, the paths by handle
  Handles, PerSector, DescPerSector, InodesPerSector, s_inodes_per_group,
  part_start, RootIno,
  Direct,              \* blocks an inode names itself (12)
  Word,                \* what sectors_left wraps at (2^32)
  Lengths, Seeks,      \* of reads; positions sought, from the start or the end
  NewData,             \* what is written
  MaxMounts,           \* bound
  Risks

VARIABLES
  volume,   \* the mounted volume's parameters, fixed
  disk,     \* the cells of every sector of the image
  supers,   \* the mount count in every sector that holds a superblock
  context,  \* struct ext2context
  fe,       \* the handles
  call,     \* the last call and its result
  seen      \* the contents of every file then

vars == <<volume, disk, supers, context, fe, call, seen>>

Spb == 2 ^ (volume.log + 1)
First(b) == b * Spb + part_start

-----------------------------------------------------------------------------
(* Handles: every operator returns the next handle, with the disk in it. *)

NoInode == [size |-> 0, dir |-> FALSE, block |-> [i \in 0..Direct |-> 0]]
Closed == [flags |-> {}, cursor |-> 0, inode_number |-> 0, sector |-> 0,
           file_sector |-> 0, sectors_left |-> 0, block_index |-> 0, buffer |-> <<>>,
           inode |-> NoInode, disk |-> <<>>, got |-> <<>>, ok |-> TRUE, risk |-> {}]
Take(h) == [fe[h] EXCEPT !.disk = disk, !.ok = TRUE]

Risk(w, name, when) == IF when THEN [w EXCEPT !.risk = @ \cup {name}] ELSE w

block_read(w, s) ==
  [w EXCEPT !.sector = s,
            !.buffer = IF s \in DOMAIN w.disk THEN w.disk[s] ELSE [i \in 1..PerSector |-> 0]]
\* A device that says it is read-only is written to like any other.
block_write(d, s, cells) == [t \in DOMAIN d \cup {s} |-> IF t = s THEN cells ELSE d[t]]

ext2_flush(w) ==
  IF "DIRTY" \notin w.flags \/ w.sector = 0 THEN w
  ELSE [w EXCEPT !.disk = block_write(w.disk, w.sector, w.buffer), !.flags = @ \ {"DIRTY"}]

\* The sector of an inode and its place in it, by the first descriptor table.
Place(d, ino) ==
  LET group == (ino - 1) \div s_inodes_per_group
      index == (ino - 1) % s_inodes_per_group
      desc  == First(context.superblock_block + 1) + group \div DescPerSector
      table == d[desc][(group % DescPerSector) + 1]
  IN  <<First(table) + index \div InodesPerSector, (index % InodesPerSector) + 1>>

Inode(d, ino) == d[Place(d, ino)[1]][Place(d, ino)[2]]

StoreInode(w, at) ==
  [w EXCEPT !.disk = block_write(w.disk, at[1], [w.disk[at[1]] EXCEPT ![at[2]] = w.inode]),
            !.flags = @ \ {"FS_DIRTY"}]
ext2_flush_inode(w) ==
  IF "FS_DIRTY" \notin w.flags THEN w
  ELSE StoreInode(ext2_flush(w), Place(ext2_flush(w).disk, w.inode_number))

OpenAt(w, ino, inode) ==
  [block_read(w, First(inode.block[0])) EXCEPT
     !.inode = inode, !.inode_number = ino, !.flags = {"READ"}, !.cursor = 0,
     !.file_sector = 0, !.sectors_left = Spb - 1, !.block_index = 0]
ext2_open_inode(w, ino) == OpenAt(w, ino, Inode(w.disk, ino))

\* Mutant: the block behind the direct ones taken for one of them.
ext2_next_blockAll(w) ==
  LET k == w.block_index + 1
  IN  IF w.block_index >= Direct THEN [w EXCEPT !.ok = FALSE]
      ELSE IF w.inode.block[k] = 0 THEN [w EXCEPT !.ok = FALSE, !.block_index = k]
      ELSE [block_read(w, First(w.inode.block[k])) EXCEPT
              !.sectors_left = Spb - 1, !.cursor = 0, !.block_index = k,
              !.file_sector = @ + 1]

\* Where it fails the handle keeps a cursor behind its sector.
ext2_next_block(w) ==
  LET k == w.block_index + 1
  IN  IF w.block_index >= Direct - 1 THEN [w EXCEPT !.ok = FALSE]
      ELSE IF w.inode.block[k] = 0 THEN [w EXCEPT !.ok = FALSE, !.block_index = k]
      ELSE [block_read(w, First(w.inode.block[k])) EXCEPT
              !.sectors_left = Spb - 1, !.cursor = 0, !.block_index = k,
              !.file_sector = @ + 1]

\* Nothing stores the sector that is left.
Leaving(w) == Risk(Risk(w, "unflushed", "DIRTY" \in w.flags), "astray",
                   w.sectors_left # Spb - 1 - (w.file_sector % Spb))
NextOfBlock(w) == [block_read(w, w.sector + 1) EXCEPT !.sectors_left = @ - 1, !.cursor = 0,
                                                      !.file_sector = @ + 1]
ext2_next_sector(w) == IF w.sectors_left > 0 THEN NextOfBlock(Leaving(w))
                       ELSE ext2_next_block(Leaving(w))

Position(w) == w.cursor + w.file_sector * PerSector

-----------------------------------------------------------------------------
(* Reading, writing, seeking.  What is read is appended to got. *)

RECURSIVE ext2_read(_, _), PutCells(_, _), LookIn(_, _)

\* A sector read or written to its end is left at once.
OnFromEnd(w) == IF w.cursor = PerSector THEN ext2_next_sector(w) ELSE w

GetCell(w) ==
  [Risk(w, "overrun", w.cursor >= PerSector) EXCEPT
     !.got = Append(@, IF w.cursor < PerSector THEN w.buffer[w.cursor + 1] ELSE 0),
     !.cursor = @ + 1, !.flags = @ \cup {"FS_DIRTY"}]
ext2_read(w, n) == IF n = 0 \/ Position(w) >= w.inode.size THEN w
                   ELSE ext2_read(OnFromEnd(GetCell(w)), n - 1)

\* Mutant: the sector within the block forgotten.
SectorSoughtFirst(w, block, sec) == First(w.inode.block[block])
SectorSought(w, block, sec) == First(w.inode.block[block]) + sec

\* The hop within a block counts the sectors left the wrong way round.
SeekInBlock(w, new, hop) ==
  [block_read(w, w.sector + hop) EXCEPT
     !.file_sector = new \div PerSector, !.cursor = new % PerSector,
     !.sectors_left = (@ + hop) % Word]
SeekToBlock(w, new, block, sec) ==
  IF block >= Direct THEN [Risk(w, "indirect", TRUE) EXCEPT !.ok = FALSE]
  ELSE [block_read(w, SectorSought(w, block, sec)) EXCEPT
          !.block_index = block, !.file_sector = new \div PerSector,
          !.cursor = new % PerSector, !.sectors_left = Spb - sec - 1]
SeekFrom(w, old, new) ==
  IF new \div PerSector = old \div PerSector THEN [w EXCEPT !.cursor = new % PerSector]
  ELSE IF new \div (Spb * PerSector) = old \div (Spb * PerSector)
  THEN SeekInBlock(ext2_flush(w), new, (new \div PerSector) - (old \div PerSector))
  ELSE SeekToBlock(ext2_flush(w), new, new \div (Spb * PerSector), (new \div PerSector) % Spb)

ext2_lseek(w, new) ==
  CASE new = Position(w) -> w
    [] new # Position(w) /\ new \notin 0..w.inode.size -> [w EXCEPT !.ok = FALSE]
    [] new # Position(w) /\ new \in 0..w.inode.size -> SeekFrom(w, Position(w), new)

\* Only a byte that enlarges the file marks the buffer to be stored.
PutRisks(w) == Risk(Risk(Risk(w, "overrun", w.cursor >= PerSector), "noblock",
                         w.inode.block[w.block_index] = 0),
                    "overwrite", Position(w) < w.inode.size)
Enlarge(w) == IF Position(w) # w.inode.size THEN w
              ELSE [w EXCEPT !.inode.size = @ + 1, !.flags = @ \cup {"DIRTY"}]
PutCell(w, cell) ==
  [Enlarge(PutRisks(w)) EXCEPT
     !.buffer = IF w.cursor < PerSector THEN [@ EXCEPT ![w.cursor + 1] = cell] ELSE @,
     !.cursor = @ + 1]
PutCells(w, cells) ==
  IF ~w.ok THEN w
  ELSE IF cells = <<>> THEN [w EXCEPT !.flags = @ \cup {"FS_DIRTY"}]
  ELSE PutCells(OnFromEnd(PutCell(w, Head(cells))), Tail(cells))

ext2_write(w, cells) ==
  PutCells(IF "APPEND" \in w.flags THEN ext2_lseek(w, w.inode.size) ELSE w, cells)

-----------------------------------------------------------------------------
(* Directories: a record is a header, the cells of its name and padding up to *)
(* rec_len.  An unused record ends the listing, as the end of the file does.  *)

NoRecord == [inode |-> 0, rec_len |-> 0, name_len |-> 0, name |-> <<>>]

\* Mutant: rec_len kept in one byte, which holds 16 cells here.
PaddingByte(r) == (r.rec_len % 16) - 1 - r.name_len
Padding(r) == r.rec_len - 1 - r.name_len

\* Behind its header and name, the padding of a record r is skipped.
SkipPadding(w, r) == ext2_lseek(w, Position(w) + Padding(r))
ReadName(w, r) ==
  IF r.inode = 0 THEN [w EXCEPT !.got = <<NoRecord>>]
  ELSE [SkipPadding(ext2_read(w, r.name_len), r) EXCEPT !.got = <<r>>]
ReadRecord(w) == ReadName(w, IF w.got = <<>> THEN NoRecord ELSE w.got[1])
ext2_readdir(w) == ReadRecord(ext2_read([w EXCEPT !.got = <<>>], 1))

\* w is behind a record: on to an unused one or one of the name.
LookIn(w, name) == IF w.got[1].inode = 0 \/ w.got[1].name = name THEN w
                   ELSE LookIn(ext2_readdir(w), name)

NamedBy(w) == [w EXCEPT !.inode_number = w.got[1].inode, !.ok = w.got[1].inode # 0]
StepInto(w, name) ==
  IF ~w.ok THEN w
  ELSE NamedBy(LookIn(ext2_readdir(ext2_open_inode(w, w.inode_number)), name))

OpenIfFound(w) == IF w.ok THEN ext2_open_inode(w, w.inode_number) ELSE w
ext2_lookup_path(w, path) ==
  OpenIfFound(FoldLeft(StepInto, [w EXCEPT !.inode_number = RootIno], path))

CeilDiv(a, b) == (a + b - 1) \div b

-----------------------------------------------------------------------------
(* What a file's bytes are: the disk's, but for the dirty sector of a handle. *)

InodeOf(d, ino) == d[Home[volume][ino][1]][Home[volume][ino][2]]
Holders(hs, ino) == {h \in Handles : hs[h].inode_number = ino}
SectorCells(d, holders, s) ==
  LET dirty == {w \in holders : "DIRTY" \in w.flags /\ w.sector = s}
  IN  IF dirty = {} THEN d[s] ELSE (CHOOSE w \in dirty : TRUE).buffer
Contents(d, hs, ino) ==
  LET inode   == InodeOf(d, ino)
      holders == {hs[h] : h \in Holders(hs, ino)}
      size    == Max({inode.size} \cup {w.inode.size : w \in holders})
      At(k)   == First(inode.block[(k - 1) \div Spb]) + ((k - 1) % Spb)
      sectors == [k \in 1..CeilDiv(size, PerSector) |-> SectorCells(d, holders, At(k))]
  IN  SubSeq(FlattenSeq(sectors), 1, size)
Observed(d, hs) == [n \in DOMAIN Tree |-> Contents(d, hs, Tree[n])]

-----------------------------------------------------------------------------
(* Mounting.  The superblock is copied to some of the block groups. *)

RECURSIVE is_power(_, _)
is_power(x, ofy) == IF x % ofy = 0 THEN is_power(x \div ofy, ofy) ELSE x = 1

num_blockgroups == CeilDiv(volume.blocks, volume.per_group)
superblock_block == IF volume.log = 0 THEN 1 ELSE 0

\* Mutant: groups counted from block 0 in every volume.
superblock_blocksFromZero ==
  {i * volume.per_group :
     i \in {g \in 0..(num_blockgroups - 1) :
             volume.sparse => g \in {0, 1} \/ \E p \in {3, 5, 7} : is_power(p, g)}}

\* The arguments of is_power the wrong way round: true for 3, 5 and 7 alone.
superblock_blocks ==
  {i * volume.per_group + superblock_block :
     i \in {g \in 0..(num_blockgroups - 1) :
             volume.sparse => g \in {0, 1} \/ \E p \in {3, 5, 7} : is_power(p, g)}}

\* By the format: groups start behind the first data block, and the copies are in
\* groups 0 and 1 and the powers of 3, 5 and 7.
Groups == CeilDiv(volume.blocks - superblock_block, volume.per_group)
Backups ==
  LET power(g) == \E p \in {3, 5, 7}, k \in 1..g : p ^ k = g
  IN  {IF g = 0 THEN part_start + 2 ELSE First(superblock_block + g * volume.per_group) :
         g \in {i \in 0..(Groups - 1) : volume.sparse => i \in {0, 1} \/ power(i)}}

NotMounted == [mounted |-> FALSE, superblock_block |-> 0, superblock_blocks |-> {}, s_mnt_count |-> 0]
Primary == part_start + 2

ext2_mount ==
  /\ ~context.mounted /\ supers[Primary] < MaxMounts
  /\ context' = [mounted |-> TRUE, superblock_block |-> superblock_block,
                 superblock_blocks |-> superblock_blocks,
                 s_mnt_count |-> supers[Primary] + 1]
  /\ call' = [op |-> "mount", got |-> <<>>]
  /\ UNCHANGED <<volume, disk, supers, fe, seen>>

\* The whole sector of every copy is written, block 0's first if blocks are large.
\* Of what is written only the mount count is kept here: not s_block_group_nr, which
\* is given the block's number, nor the bytes behind the superblock, which are zero.
ext2_umount ==
  LET to == {First(b) : b \in context.superblock_blocks}
  IN  /\ context.mounted /\ \A h \in Handles : fe[h] = Closed
      /\ supers' = [s \in DOMAIN supers \cup to |->
                       IF s \in to THEN context.s_mnt_count ELSE supers[s]]
      /\ disk' = [s \in DOMAIN disk |->
                     IF s \in to THEN [i \in 1..PerSector |-> 0] ELSE disk[s]]
      /\ context' = NotMounted /\ call' = [op |-> "umount", got |-> <<>>]
      /\ UNCHANGED <<volume, fe>> /\ seen' = Observed(disk', fe)

-----------------------------------------------------------------------------
(* Calls.  A handle that was closed is Closed again. *)

Return(h, w, result) ==
  /\ w.risk \subseteq Risks /\ call' = result
  /\ disk' = w.disk
  /\ \E hs \in {[fe EXCEPT ![h] = [w EXCEPT !.disk = <<>>, !.got = <<>>, !.ok = TRUE,
                                  !.risk = {}]]} :
       fe' = hs /\ seen' = Observed(w.disk, hs)
  /\ UNCHANGED <<volume, supers, context>>

Refused(h, op, arg, err) ==
  [op |-> "refused", by |-> h, of |-> op, arg |-> arg, err |-> err, got |-> <<>>]
Others(h, ino) == {o \in Handles \ {h} : fe[o].inode_number = ino}
Writing(flags) == flags \cap {"WRONLY", "RDWR"} # {}
Access(flags) == {"READ"} \cup (IF Writing(flags) THEN {"WRITE"} ELSE {})
                 \cup (flags \cap {"APPEND"})

\* A file is opened again while another handle holds what is not on the disk.
Sharing(w, h) ==
  Risk(w, "shared", w.ok /\ \E o \in Others(h, w.inode_number) :
                      fe[o].inode.size # w.inode.size \/ "DIRTY" \in fe[o].flags)
Opened(h, path) == Sharing(ext2_lookup_path(Take(h), path), h)

ext2_open(h, path) ==
  /\ context.mounted /\ fe[h] = Closed
  /\ \E w \in {Opened(h, path)}, flags \in Modes :
       LET no(err) == Return(h, [Closed EXCEPT !.disk = disk, !.risk = w.risk],
                             Refused(h, "open", path, err))
           yes == Return(h, [w EXCEPT !.flags = Access(flags)],
                         [op |-> "open", got |-> <<>>, name |-> path])
       IN  \/ ~w.ok /\ no(IF "CREAT" \in flags /\ volume.read_only THEN "EROFS" ELSE "ENOENT")
           \/ w.ok /\ flags \cap {"CREAT", "EXCL"} # {} /\ no("EEXIST")
           \/ w.ok /\ flags \cap {"CREAT", "EXCL"} = {} /\ ~Writing(flags) /\ yes
           \/ /\ w.ok /\ flags \cap {"CREAT", "EXCL"} = {} /\ Writing(flags)
              /\ \/ volume.read_only /\ no("EROFS")
                 \/ ~volume.read_only /\ w.inode.dir /\ no("EISDIR")
                 \/ ~volume.read_only /\ ~w.inode.dir /\ "TRUNC" \in flags /\ no("none")
                 \/ ~volume.read_only /\ ~w.inode.dir /\ "TRUNC" \notin flags /\ yes

ext2_close(h) ==
  /\ fe[h] # Closed
  /\ \E w \in {ext2_flush_inode(ext2_flush(Take(h)))} :
       Return(h, [Closed EXCEPT !.disk = w.disk], [op |-> "close", got |-> <<>>])

File(h) == fe[h] # Closed /\ ~fe[h].inode.dir

Read(h, n) ==
  /\ File(h)
  /\ \E w \in {ext2_read(Take(h), n)} :
       Return(h, w, [op |-> "read", got |-> w.got, short |-> Len(w.got) < n])

Write(h, cells) ==
  /\ File(h)
  /\ \/ "WRITE" \notin fe[h].flags /\ Return(h, Take(h), Refused(h, "write", 0, "EBADF"))
     \/ /\ "WRITE" \in fe[h].flags
        /\ \E w \in {Risk(ext2_write(Take(h), cells), "shared",
                          Others(h, fe[h].inode_number) # {})} :
             Return(h, w, IF w.ok THEN [op |-> "write", got |-> cells]
                          ELSE Refused(h, "write", 0, "EIO"))

Lseek(h, new) ==
  /\ File(h)
  /\ \E w \in {ext2_lseek(Take(h), new)} :
       Return(h, w, IF w.ok THEN [op |-> "lseek", got |-> <<>>, new |-> new]
                    ELSE Refused(h, "lseek", new, "none"))

Fstat(h) ==
  /\ File(h)
  /\ Return(h, Take(h), [op |-> "fstat", got |-> <<>>, size |-> fe[h].inode.size])

Readdir(h) ==
  /\ fe[h] # Closed /\ fe[h].inode.dir
  /\ \E w \in {ext2_readdir(Take(h))} :
       Return(h, w, [op |-> "readdir", got |-> w.got, ino |-> fe[h].inode_number,
                     at |-> Position(fe[h]), next |-> Position(w)])

Init ==
  /\ volume \in Volumes
  /\ disk = Image[volume]
  /\ supers = [s \in Backups |-> 0]
  /\ context = NotMounted
  /\ fe = [h \in Handles |-> Closed]
  /\ call = [op |-> "none", got |-> <<>>]
  /\ seen = Observed(disk, fe)

Next ==
  \/ ext2_mount \/ ext2_umount
  \/ \E h \in Handles :
       \/ \E path \in Paths[h] : ext2_open(h, path)
       \/ ext2_close(h) \/ Fstat(h) \/ Readdir(h)
       \/ \E n \in Lengths : Read(h, n)
       \/ \E cells \in NewData : Write(h, cells)
       \/ \E new \in Seeks \cup {fe[h].inode.size} : Lseek(h, new)

Spec == Init /\ [][Next]_vars

-----------------------------------------------------------------------------
(* Properties. *)

\* The cursor, which may stand behind the sector it has read to the end, the
\* block index, which next_block and lseek must keep among the direct blocks, and
\* the sectors they read.
TypeOK ==
  \A h \in Handles :
    /\ fe[h].cursor \in 0..PerSector /\ fe[h].block_index \in 0..(Direct - 1)
    /\ fe[h].sectors_left \in 0..(Word - 1)
    /\ fe[h] # Closed => fe[h].sector \in DOMAIN disk \cup {part_start}
    /\ fe[h].flags \subseteq {"READ", "WRITE", "APPEND", "DIRTY", "FS_DIRTY"}

NameOf(ino) == CHOOSE n \in DOMAIN Tree : Tree[n] = ino
Promise == INSTANCE VolumeFiles WITH
  Names <- DOMAIN Tree,
  content <- seen,
  handle <- [h \in Handles |->
     IF fe[h] = Closed \/ fe[h].inode.dir THEN [name |-> <<>>, pos |-> 0, write |-> FALSE]
     ELSE [name |-> NameOf(fe[h].inode_number), pos |-> Position(fe[h]),
           write |-> "WRITE" \in fe[h].flags]],
  answer <- call

\* A file opened by its path is that file; reads return its next bytes, up to its
\* end; appended bytes stay in it, over flushes and closes of this and other
\* handles; a seek goes where it was asked to.
ImplementsFiles == Promise!Spec

\* A call of readdir returns the record the last one left off at, as it lies on
\* the disk, and the handle goes to where the next one starts.
ListsRecords ==
  [][\A d \in {call'} :
       (d.op = "readdir" /\ d.at < InodeOf(disk, d.ino).size) =>
         /\ d.got = <<Contents(disk, fe, d.ino)[d.at + 1]>>
         /\ d.next = d.at + d.got[1].rec_len]_vars

\* umount writes over no inode, descriptor, directory or file, of any volume; and on
\* a volume of small blocks whose groups it counts right and whose copies is_power
\* knows (at most nine groups, where only some have one), it adds one to the
\* mount count of every copy of the superblock the format has, the one mount read
\* included, and of nothing else.
Umounts == context.mounted /\ ~context'.mounted
CopiesWritten ==
  /\ DOMAIN supers' = Backups
  /\ \A s \in Backups : supers'[s] = supers[Primary] + 1
Regular ==
  /\ volume.log = 0
  /\ (volume.blocks - 1) % volume.per_group # 0
  /\ volume.sparse => Groups <= 9
UmountInPlace == [][Umounts => UNCHANGED disk /\ (Regular => CopiesWritten)]_vars

\* The same of every volume.  TLC refutes it: of large blocks umount writes the first
\* sector of the volume, where the boot block is, in place of the superblock that
\* mount reads (embext.c:201); group 9 is no copy to is_power (530); and a last group
\* that is full is counted twice (561).
CopiesAlike == [][Umounts => CopiesWritten]_vars
=============================================================================
