------------------------------ MODULE FatFsInv ------------------------------
(***************************************************************************)
(* The inductive invariants that make FatFs safe: TypeInv, proved in       *)
(* FatFsProofs, and VolumeInv, proved under SafeUse in FatFsSafety.  TLC   *)
(* checks VolumeInv on the instances of MCVolume.                          *)
(***************************************************************************)
EXTENDS FatFs

(***************************************************************************)
(* Types: what TypeOK needs to be preserved by every step.                 *)
(***************************************************************************)
TypeInv ==
  /\ TypeOK
  /\ \A s \in Slots : Live(s) => dir[s].first # 0
  /\ pc \in {"delete", "free", "freed"} => call.res \in FatIndex
  /\ pc = "delete" => call.slot \in Slots
  /\ pc = "chain" => call.res \in FatIndex /\ Cur.cluster \in FatIndex

(***************************************************************************)
(* The conditions under which no cluster is ever shared: no file is opened *)
(* twice, unlinked while open or truncated on open, no risky seek is made, *)
(* and allocation, the searches of the directory, the writes of entries    *)
(* and of freed FAT blocks and the read of an entry to delete do not fail. *)
(* Where a writer seeks no block operation fails: fat_lseek would leave    *)
(* the handle on a sector outside its file, and its data could overwrite   *)
(* the FAT, which FatFs keeps apart from the data.                         *)
(***************************************************************************)
SafeUse ==
  /\ Usage \cap {"share", "unlinkopen", "riskyseek"} = {}
  /\ \A m \in Modes : "TRUNC" \notin m
  /\ Faulty \cap {"flush", "entry", "zero", "delete"} = {}
  /\ Faulty \cap {"lookup", "parent", "search", "reread"} = {}
  /\ Faulty = {} \/ ("seek" \notin Usage /\ \A m \in Modes : "APPEND" \notin m)

\* The FAT: links stay inside one owner's clusters, never lead to the head of
\* a chain, and never meet.
FatInv ==
  /\ fat[0] = EndMarker /\ fat[1] = EndMarker
  /\ \A c \in Clusters : fat[c] \in {0, EndMarker} \cup Clusters
  /\ \A c \in Clusters : owner[c] \in {0} \cup Clusters
  /\ \A c \in Clusters : fat[c] = 0 <=> owner[c] = 0
  /\ \A c \in Clusters : fat[c] \in Clusters =>
       owner[fat[c]] = owner[c] /\ fat[c] # owner[c]
  /\ \A c, d \in Clusters : fat[c] \in Clusters /\ fat[c] = fat[d] => c = d

\* The directory: entries name heads of chains, each name and head once, and
\* nothing follows the first empty slot.
DirInv ==
  /\ \A s \in Slots : Live(s) =>
       dir[s].first \in Clusters /\ owner[dir[s].first] = dir[s].first
  /\ \A s, t \in Slots : Live(s) /\ Live(t) /\ s # t =>
       dir[s].first # dir[t].first /\ dir[s].name # dir[t].name
  /\ \A s, t \in Slots : dir[s].kind = "end" /\ s < t => dir[t].kind = "end"

\* A file that has no cluster yet lives in its buffer alone.
Unstored(f) ==
  /\ f.cluster = 0 /\ f.sector = 0 /\ f.sectors_left = 0 /\ f.file_sector = 0
  /\ f.entry = 0 /\ f.cursor <= f.size
  /\ f.size > 0 => "DIRTY" \in f.flags
  /\ "DIRTY" \in f.flags => "WRITE" \in f.flags
StoredFile(f) ==
  /\ f.first \in Clusters /\ owner[f.first] = f.first
  /\ f.cluster = Bad \/ (f.cluster \in Clusters /\ owner[f.cluster] = f.first)
ClosedInv == \A h \in Handles : ~IsOpen(h) => file_num[h] = Closed
FilesInv == \A h \in Handles : IsOpen(h) =>
  /\ file_num[h].name \in Names
  /\ IF file_num[h].first = 0 THEN Unstored(file_num[h]) ELSE StoredFile(file_num[h])
\* The entry of an open file is its own, and nobody else's entry looks like it.
EntryInv == \A h \in Handles : IsOpen(h) =>
  LET f == file_num[h]
  IN /\ f.entry # 0 => Live(f.entry) /\ dir[f.entry].name = f.name
     /\ \A s \in Slots : Live(s) /\ s # f.entry =>
          dir[s].name # f.name /\ dir[s].first # f.first
ApartInv == \A g, h \in Handles : IsOpen(g) /\ IsOpen(h) /\ g # h =>
  /\ file_num[g].name # file_num[h].name
  /\ file_num[g].first # 0 => file_num[g].first # file_num[h].first
HandleInv == ClosedInv /\ FilesInv /\ EntryInv /\ ApartInv

\* The running call: what each label knows.
FreeLabels == {"delete", "free", "freed"}
OwnCluster(c) == c \in Clusters /\ owner[c] = Cur.first
NeedsStored ==
  \/ pc \in {"data", "sector", "next", "chain", "select", "walk", "walked"}
  \/ pc = "flush" /\ call.flush = "next"
  \/ pc = "flush" /\ call.flush = "sector" /\ call.seeking
  \/ pc = "info" /\ call.info # "close"
CallInv ==
  /\ pc \in FreeLabels => call.op = "unlink"
  /\ pc \notin FreeLabels \cup {"idle", "done"} => call.op # "unlink"
  /\ pc # "idle" => call.op \notin {"none", "open"}
  /\ pc # "idle" /\ call.op # "unlink" => IsOpen(call.fd)
  /\ pc # "idle" /\ call.op = "write" => "WRITE" \in Cur.flags
  /\ pc = "byte" => ~call.seeking
  /\ NeedsStored => Cur.first # 0
  /\ pc = "flush" /\ call.flush = "sector" => Cur.cursor = SectorSize
  /\ pc \in {"flush", "data"} /\ call.flush = "next" => call.res = Bad
  /\ pc = "walked" => call.res = Bad \/ OwnCluster(call.res)
  /\ pc = "select" => OwnCluster(call.res)
  /\ pc = "info" /\ call.info = "next" => OwnCluster(call.res)
  /\ pc = "chain" =>
       /\ OwnCluster(call.res) /\ fat[call.res] = EndMarker
       /\ call.res # Cur.first /\ call.res # Cur.cluster
       /\ \A c \in Clusters : fat[c] # call.res
       /\ Cur.cluster \in Clusters /\ fat[Cur.cluster] = EndMarker
SeekInv ==
  /\ pc = "flush" /\ call.flush = "seek" /\ Cur.first = 0 =>
       /\ call.old <= Cur.size
       /\ "DIRTY" \in Cur.flags => \E c \in FatIndex : fat[c] = 0
  /\ pc = "seek" /\ Cur.first = 0 => Cur.size = 0 /\ call.old = 0
  /\ pc = "case" /\ Cur.first = 0 => call.old = 0 /\ call.new = 0

\* fat_unlink: the entry to delete, then the part of the chain in hand.
NobodyHas(first) ==
  /\ \A s \in Slots : Live(s) => dir[s].first # first
  /\ \A h \in Handles : IsOpen(h) => file_num[h].first # first
FreeInv ==
  /\ pc = "delete" =>
       /\ Live(call.slot) /\ dir[call.slot].first = call.res
       /\ call.zeroed = {} /\ call.block = NoBlock
       /\ \A h \in Handles : IsOpen(h) => file_num[h].name # dir[call.slot].name
  /\ pc \in {"free", "freed"} =>
       /\ call.res \in Clusters /\ owner[call.res] # 0
       /\ NobodyHas(owner[call.res])
       /\ \A z \in call.zeroed : z \in Clusters /\ owner[z] = owner[call.res]
       /\ \A c \in Clusters : fat[c] \in call.zeroed \cup {call.res} =>
            c \in call.zeroed
  /\ pc = "free" => call.res \notin call.zeroed

VolumeInv == FatInv /\ DirInv /\ HandleInv /\ CallInv /\ SeekInv /\ FreeInv
=============================================================================
