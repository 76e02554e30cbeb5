---------------------------- MODULE FatFsRefines ----------------------------
(***************************************************************************)
(* FatFs with one handle and one name implements PosixFile: the contents   *)
(* of the file are read off the disk along the FAT chain, overlaid by the  *)
(* sector the handle has changed and not yet written back.                 *)
(***************************************************************************)
EXTENDS FatVolume

Handle == file_num[0]

StoredContent(first, size) == [i \in 1 .. size |-> StoredByte(first, i - 1)]

InBuffer(f, p) ==
  /\ p \div SectorSize = f.file_sector
  /\ "DIRTY" \in f.flags
OpenContent(f) ==
  [i \in 1 .. f.size |-> IF InBuffer(f, i - 1) THEN f.buffer[(i - 1) % SectorSize]
                         ELSE StoredByte(f.first, i - 1)]

LiveSlots == {s \in Slots : dir[s].kind = "file"}
Truncating == call.op = "open"

Content ==
  IF Truncating THEN <<>>
  ELSE IF IsOpen(0) THEN OpenContent(Handle)
  ELSE IF LiveSlots = {} THEN <<>>
  ELSE LET s == CHOOSE s \in LiveSlots : TRUE IN StoredContent(dir[s].first, dir[s].size)
Exists ==
  IF IsOpen(0) THEN Handle.entry # 0 \/ Handle.size > 0 ELSE LiveSlots # {}

Phase ==
  IF call.op = "write" /\ call.seeking THEN "append"
  ELSE IF call.op = "lseek" /\ ~call.seeking
  THEN (IF pc = "done" THEN "moved" ELSE "refused")
  ELSE call.op
Job == [op |-> Phase, todo |-> call.todo, n |-> call.n, got |-> call.got,
        new |-> IF call.op = "lseek" THEN call.new ELSE 0]

Posix == INSTANCE PosixFile WITH
  exists <- Exists, content <- Content,
  flags <- Handle.flags \ {"DIRTY", "FS_DIRTY"},
  pos <- Pos(Handle), job <- Job

\* Every behaviour of the buffered, clustered file (fat_open, fat_read,
\* fat_write, fat_lseek, fat_close, fat_unlink) is a behaviour of a byte
\* sequence with a position: reads return the bytes last written, seeks land
\* where they say, and only a write at the end of the file may fail.
ImplementsPosix == Posix!Spec
=============================================================================
