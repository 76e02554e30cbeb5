------------------------------- MODULE FatDir -------------------------------
(***************************************************************************)
(* Directories of gristle.c on the volume: path lookup, creating a file,   *)
(* mkdir, rmdir, unlink and the reading of a directory, down to sectors    *)
(* of entries, the FAT and the handle that walks them.                     *)
(*                                                                         *)
(* One call at a time; a file is written once, with a few bytes or a whole *)
(* cluster (FatFs has the file's own life).  A handle counts positions in  *)
(* entries of 32 bytes.  The rewriting of a directory's own entry for its  *)
(* time stamps is left out: it stores the name and cluster the entry has.  *)
(*                                                                         *)
(* Where the code takes a step that loses what the properties are about,   *)
(* the handle collects a risk; a call whose risks are not among Risks is   *)
(* not made.  The README lists them.                                       *)
(***************************************************************************)
EXTENDS Integers, Sequences, SequencesExt, FiniteSetsExt

CONSTANTS Paths,        \* the paths calls are given, sequences of names
          NoName, Data, \* the name of an unused entry; a file's data as a name
          PerSector,    \* entries in a sector
          sectors_per_cluster,
          LastCluster,
          RootLen,      \* sectors of a fixed root directory
          Risks         \* what clients may run into

ASSUME FatDirAssumption ==
  /\ {PerSector, sectors_per_cluster, RootLen} \subseteq Nat \ {0}
  /\ PerSector * sectors_per_cluster >= 2
  /\ LastCluster \in Nat /\ LastCluster >= 3

Parent(path) == Front(path)

VARIABLES root_cluster, \* 1 for the fixed root of FAT16, else where it starts
          fat,          \* the FAT: 0 for a free cluster, EndMark, or the next
          disk,         \* the entries of every sector
          call,         \* the last call, its path and its result
          seen          \* the paths a client can find then

vars == <<root_cluster, fat, disk, call, seen>>

Clusters == 2..LastCluster
EndMark == LastCluster + 1
root_start == 1
cluster0 == root_start + RootLen - 2 * sectors_per_cluster
FirstSector(c) == c * sectors_per_cluster + cluster0
SectorsOf(c) == FirstSector(c)..(FirstSector(c) + sectors_per_cluster - 1)
Sectors == root_start..(FirstSector(EndMark) - 1)

Entry(kind, name, first) == [kind |-> kind, name |-> name, first |-> first]
EndEntry == Entry("end", NoName, 0)
Deleted  == Entry("deleted", NoName, 0)
Bytes    == Entry("small", Data, 0)
Blank    == [i \in 1..PerSector |-> EndEntry]
FileData == [i \in 1..PerSector |-> Bytes]
\* In the model only: a file's size and contents.  It has less than 32 bytes, or
\* fills a cluster with data, in which no entry's place begins with a zero byte,
\* or with zero bytes.
FileKinds == {"small", "large", "zeros"}

-----------------------------------------------------------------------------
(* A handle and the volume it works on, w: every operator returns the next. *)
(* new is the entry fat_flush_fileinfo has not stored yet; ok says how the   *)
(* last step went.                                                           *)

Handle == [disk |-> disk, fat |-> fat, risk |-> {}, ok |-> TRUE, err |-> "ok",
           sector |-> 0, left |-> 0, cluster |-> 0, file_sector |-> 0, cursor |-> 0,
           buffer |-> Blank, dirty |-> FALSE, write |-> FALSE, kind |-> "none",
           first |-> 0, parent |-> 0, entry_sector |-> 0, entry_number |-> 0,
           new |-> EndEntry]

ReadSector(w, s) == [w EXCEPT !.sector = s,
                       !.buffer = IF s \in Sectors THEN w.disk[s] ELSE Blank]

fat_flush(w) == IF ~w.dirty THEN w
                ELSE [w EXCEPT !.disk[w.sector] = w.buffer, !.dirty = FALSE]

\* The fixed root is entered with one sector too many left.
fat_select_cluster(w, c) ==
  LET fixed == c = 1
  IN  [ReadSector(w, IF fixed THEN root_start ELSE FirstSector(c)) EXCEPT
         !.left = IF fixed THEN RootLen ELSE sectors_per_cluster - 1,
         !.cluster = c, !.cursor = 0]

FreeClusters(w) == {c \in Clusters : w.fat[c] = 0}
Lowest(w) == Min(FreeClusters(w))

RECURSIVE ClusterChain(_, _), Scan(_, _), StoreNew(_), Resolve(_, _, _), InEntry(_, _),
          SkipToEnd(_), Walk(_, _), WriteAll(_, _), ListedFrom(_)

ClusterChain(f, c) ==
  IF c \notin Clusters \/ f[c] \in {0, EndMark} THEN <<c>>
  ELSE <<c>> \o ClusterChain([f EXCEPT ![c] = EndMark], f[c])

\* Mutant: the entries set to the reserved value 1.
fat_free_clustersReserved(w, c) ==
  LET gone == ToSet(ClusterChain(w.fat, c))
  IN  [w EXCEPT !.fat = [d \in Clusters |-> IF d \in gone THEN 1 ELSE w.fat[d]]]

\* Mutant: the rest of the chain stays allocated.
fat_free_clustersFirst(w, c) == [w EXCEPT !.fat[c] = 0]

fat_free_clusters(w, c) ==
  LET gone == ToSet(ClusterChain(w.fat, c))
  IN  [w EXCEPT !.fat = [d \in Clusters |-> IF d \in gone THEN 0 ELSE w.fat[d]]]

\* A cluster k, as it was left, behind the handle's.
Extended(w, k) ==
  [w EXCEPT !.fat = [w.fat EXCEPT ![k] = EndMark, ![w.cluster] = k],
            !.risk = @ \cup (IF \A s \in SectorsOf(k) : w.disk[s] = Blank
                             THEN {} ELSE {"growdirty"})]

\* The handle stays where it is while the volume is that of another one.
OnVolume(w, v) == [w EXCEPT !.disk = v.disk, !.fat = v.fat, !.risk = v.risk]

\* The handle's own entry is stored in between: a new file's is searched a place
\* for right here.
StoreOnTheWay(w) == IF w.new = EndEntry THEN w
                    ELSE [OnVolume(w, StoreNew(w)) EXCEPT !.risk = @ \cup {"growcreate"}]

\* The cluster behind the handle's, ok being FALSE if there is none.  A handle
\* open for writing extends the chain.
fat_next_cluster(w) ==
  CASE w.cluster = 1 -> [w EXCEPT !.ok = FALSE]
    [] w.cluster # 1 /\ w.fat[w.cluster] \in Clusters -> [w EXCEPT !.cluster = w.fat[w.cluster]]
    [] w.cluster # 1 /\ w.fat[w.cluster] \notin Clusters ->
         IF ~w.write \/ FreeClusters(w) = {} THEN [w EXCEPT !.ok = FALSE]
         ELSE [StoreOnTheWay(Extended(w, Lowest(w))) EXCEPT !.cluster = Lowest(w)]

NextOfCluster(w) ==
  [ReadSector(w, w.sector + 1) EXCEPT !.left = @ - 1, !.cursor = 0, !.file_sector = @ + 1,
     !.risk = @ \cup (IF w.cluster = 1 /\ w.sector + 1 = root_start + RootLen
                      THEN {"pastroot"} ELSE {})]

EnterCluster(w) == IF ~w.ok THEN w
                   ELSE [fat_select_cluster(w, w.cluster) EXCEPT !.file_sector = @ + 1]

fat_next_sector(w) == IF w.left > 0 THEN NextOfCluster(fat_flush(w))
                      ELSE EnterCluster(fat_next_cluster(fat_flush(w)))

\* On to the first entry that ends the directory or has one of the names.
Sought(w, names) == {i \in 1..PerSector : \/ w.buffer[i].kind = "end"
                                          \/ w.buffer[i].name \in names}
Scan(w, names) ==
  CASE ~w.ok -> w
    [] w.ok /\ Sought(w, names) # {} ->
         [w EXCEPT !.entry_sector = w.sector, !.entry_number = Min(Sought(w, names))]
    [] w.ok /\ Sought(w, names) = {} -> Scan(fat_next_sector(w), names)

-----------------------------------------------------------------------------
(* Looking up a path. *)

EntryOf(w) == w.buffer[w.entry_number]

\* fat_lookup_path from a directory on, for a path that is not empty.
Resolve(w, dir, path) ==
  InEntry(Scan(fat_select_cluster([w EXCEPT !.parent = dir], dir), {path[1]}), path)

\* What it does with the entry found for the first name of the path, if any.
FirstCluster(w) == IF EntryOf(w).first = 0 THEN root_cluster ELSE EntryOf(w).first
Target(w) == [w EXCEPT !.first = FirstCluster(w), !.kind = EntryOf(w).kind, !.file_sector = 0]
InEntry(w, path) ==
  CASE ~w.ok \/ EntryOf(w).kind = "end" ->
         [w EXCEPT !.ok = FALSE, !.err = IF Len(path) > 1 THEN "BAD_PATH" ELSE "ENOENT"]
    [] w.ok /\ EntryOf(w).kind # "end" /\ Len(path) = 1 ->
         fat_select_cluster(Target(w), FirstCluster(w))
    [] w.ok /\ EntryOf(w).kind = "dir" /\ Len(path) > 1 -> Resolve(w, FirstCluster(w), Tail(path))
    [] w.ok /\ EntryOf(w).kind \notin {"end", "dir"} /\ Len(path) > 1 -> [w EXCEPT !.err = "ENOTDIR"]

fat_lookup_path(w, path) ==
  IF path # <<>> THEN Resolve(w, root_cluster, path)
  ELSE fat_select_cluster([w EXCEPT !.first = root_cluster, !.kind = "dir"], root_cluster)

-----------------------------------------------------------------------------
(* Entries through a handle: fat_read, fat_write and fat_lseek on a directory. *)

\* The handle in the sector that has its position.
AtPosition(w) == IF w.cursor = PerSector THEN fat_next_sector(w) ELSE w

\* fat_read of one entry: w.ok is FALSE if none is left.
Counted(w) == IF w.ok THEN [w EXCEPT !.cursor = @ + 1] ELSE w
\* A regular file ends with its size, before the next sector is asked for.
EndOfFile(w) == w.kind = "small" \/ (w.kind \in FileKinds /\ w.cursor = PerSector /\ w.left = 0)
ReadEntry(w) == IF EndOfFile(w) THEN [w EXCEPT !.ok = FALSE] ELSE Counted(AtPosition(w))
LastRead(w) == w.buffer[w.cursor]
AtEnd(w) == ~w.ok \/ LastRead(w).kind = "end"

\* The entries fat_get_next_dirent returns from the last one read on.
ListedFrom(w) ==
  IF AtEnd(w) THEN <<>>
  ELSE (IF LastRead(w).kind = "deleted" THEN <<>> ELSE <<LastRead(w).name>>)
         \o ListedFrom(ReadEntry(w))
Listed(w) == ListedFrom(ReadEntry(w))

\* fat_write of one entry.
Put(w, e) == IF ~w.ok THEN w
             ELSE [w EXCEPT !.buffer[w.cursor + 1] = e, !.cursor = @ + 1, !.dirty = TRUE]
WriteEntry(w, e) == Put(AtPosition(w), e)

WriteAll(w, es) ==
  IF es = <<>> \/ ~w.ok THEN w ELSE WriteAll(WriteEntry(w, es[1]), Tail(es))

SkipToEnd(w) == IF AtEnd(w) THEN w ELSE SkipToEnd(ReadEntry(w))

\* n times fat_next_cluster, from the handle's cluster.
Walk(w, n) == IF n = 0 THEN w ELSE Walk(fat_next_cluster(w), n - 1)

\* fat_lseek by -32 bytes.  When the entry was the last of its sector the next
\* sector is fetched first, and the way back, to sector number to of the file, is
\* within the cluster or along the chain from its first cluster.  The fixed root
\* is no chain.
ToSector(w, s, to) == [ReadSector(w, s) EXCEPT !.ok = TRUE, !.file_sector = to,
                                               !.cursor = PerSector - 1]
SectorOfCluster(w, to) ==
  [ToSector(w, FirstSector(w.cluster) + (to % sectors_per_cluster), to) EXCEPT
     !.left = sectors_per_cluster - (to % sectors_per_cluster) - 1]
AlongChain(w, to) ==
  SectorOfCluster(Walk([w EXCEPT !.ok = TRUE, !.cluster = w.first], to \div sectors_per_cluster), to)

WayBack(w, to, risk) ==
  IF (to + 1) \div sectors_per_cluster = to \div sectors_per_cluster
  THEN [ToSector(w, w.sector - 1, to) EXCEPT !.left = @ + 1]
  ELSE AlongChain([w EXCEPT !.risk = @ \cup risk], to)

SeekBack(w) ==
  IF w.cursor < PerSector THEN [fat_flush(w) EXCEPT !.cursor = @ - 1]
  ELSE WayBack(fat_next_sector(w), w.file_sector,
               (IF w.first = 1 THEN {"rootseek"} ELSE {})
                 \cup (IF FreeClusters(w) = {} THEN {"nospace"} ELSE {}))

-----------------------------------------------------------------------------
(* The search of fat_flush_fileinfo for the place of a new file's entry. *)

\* A fixed root directory without an unused entry is read on into the data.
LastOfRoot(w) == /\ w.entry_sector = root_start + RootLen - 1 /\ root_cluster = 1
                 /\ w.entry_number = PerSector

Stored(w) == IF ~w.ok THEN [w EXCEPT !.risk = @ \cup {"full"}]
             ELSE [w EXCEPT !.disk[w.entry_sector][w.entry_number] = w.new,
                            !.risk = @ \cup (IF LastOfRoot(w) THEN {"rootfull"} ELSE {})]
StoreNew(w) == Stored(Scan(fat_select_cluster(w, w.parent), {}))

-----------------------------------------------------------------------------
(* The calls: the handle and volume at their end, w.ok if they succeed. *)

Outcome(w, ok) == [w EXCEPT !.ok = ok]

\* fat_open(O_WRONLY | O_CREAT), fat_write of a few bytes and fat_close: the
\* file's cluster is allocated and written before the entry is.
Written(w, k, name, size) ==
  [w EXCEPT !.write = TRUE, !.ok = TRUE, !.fat[k] = EndMark, !.new = Entry(size, name, k),
            !.disk = [t \in Sectors |->
                        IF t = FirstSector(k) \/ (size # "small" /\ t \in SectorsOf(k))
                        THEN IF size = "zeros" THEN Blank ELSE FileData
                        ELSE w.disk[t]]]
CreateIn(w, path, size) ==
  CASE w.err # "ENOENT" -> Outcome(w, w.err = "ok" /\ w.kind \in FileKinds)
    [] w.err = "ENOENT" /\ FreeClusters(w) = {} -> Outcome(w, FALSE)
    [] w.err = "ENOENT" /\ FreeClusters(w) # {} ->
         Outcome(StoreNew(Written(w, Lowest(w), Last(path), size)), TRUE)
Created(path, size) == CreateIn(fat_lookup_path(Handle, path), path, size)

\* Marks the entry and frees the clusters.
fat_delete(w) ==
  fat_free_clusters([w EXCEPT !.disk[w.entry_sector][w.entry_number] = Deleted], w.first)

Delete(w, there) == Outcome(IF there THEN fat_delete(w) ELSE w, there)

\* Mutant: directories are not refused.
UnlinkedAny(w) == Delete(w, w.err = "ok" /\ w.entry_sector # 0)

Unlinked(w) == Delete(w, w.err = "ok" /\ w.kind \in FileKinds)

\* fat_rmdir reads the directory up to its end.  A file of less than 32 bytes or
\* of zero bytes reads as empty; so may the root, whose entry would be in sector 0.
IsEmpty(w) == ToSet(Listed(w)) \subseteq {".", ".."}
RemovedDir(w) ==
  IF w.err # "ok" \/ ~IsEmpty(w) THEN Outcome(w, FALSE)
  ELSE IF w.entry_sector = 0 THEN [w EXCEPT !.risk = @ \cup {"rootdir"}]
  ELSE Outcome(fat_delete(w), TRUE)

\* Mutant: no blank entries behind the two.
FillingDots(k, parent) == << Entry("dir", ".", k), Entry("dir", "..", parent) >>

\* Mutant: the cluster is not replaced between the two.
FillingSame(k, parent) ==
  << Entry("dir", ".", k), Entry("dir", "..", k) >>
    \o [i \in 1..(PerSector * sectors_per_cluster - 2) |-> EndEntry]

\* The entries a new directory's cluster is filled with.
Filling(k, parent) ==
  << Entry("dir", ".", k), Entry("dir", "..", parent) >>
    \o [i \in 1..(PerSector * sectors_per_cluster - 2) |-> EndEntry]

\* What fat_mkdir does with a cluster k for the new directory.  Its parent is
\* whatever the path leads to: a regular file is read for an entry with a zero
\* byte in front as a directory is, and fails if it ends before one comes.  The
\* entry and an end behind it go to where the handle w has found that; then ...
EntryIn(w, path, k) ==
  IF ~w.ok THEN fat_free_clusters(w, k)
  ELSE [fat_flush(WriteAll(SeekBack(w), <<Entry("dir", Last(path), k), EndEntry>>)) EXCEPT
          !.risk = @ \cup (IF w.kind # "dir" THEN {"fileparent"} ELSE {})]

\* ... the parent is closed and the path looked up again, which may fail, with
\* the cluster still allocated, and "." and ".." and blank entries fill what is
\* found there.
Fill(w, k, parent) ==
  [fat_flush(WriteAll([w EXCEPT !.write = TRUE], Filling(k, parent))) EXCEPT
     !.risk = @ \cup (IF w.first # k THEN {"exists"} ELSE {})]
FillFound(w, k, parent) == IF w.err = "ok" THEN Fill(w, k, parent) ELSE Outcome(w, FALSE)
FillNew(w, path, k) ==
  IF ~w.ok THEN w ELSE FillFound(fat_lookup_path(OnVolume(Handle, w), path), k, w.first)

MadeIn(w, path, k) ==
  IF w.err # "ok" THEN Outcome(fat_free_clusters(w, k), FALSE)
  ELSE FillNew(EntryIn(SkipToEnd(ReadEntry([w EXCEPT !.write = TRUE])), path, k), path, k)
MadeDir(path, k) ==
  MadeIn(fat_lookup_path([Handle EXCEPT !.fat[k] = EndMark], Parent(path)), path, k)

-----------------------------------------------------------------------------
\* Looking up every path: what a client can find, an observation no call reads.
Reached(at) == [p \in {q \in DOMAIN at : at[q].err = "ok"} |->
                 [kind |-> at[p].kind, first |-> at[p].first]]
Find(w) == Reached([p \in Paths \ {<<>>} |-> fat_lookup_path(OnVolume(Handle, w), p)])

\* The call's outcome becomes the next state.
Return(op, path, w) ==
  /\ w.risk \subseteq Risks
  /\ disk' = w.disk
  /\ fat' = w.fat
  /\ call' = [op |-> op, path |-> path, ok |-> w.ok]
  /\ seen' = Find(w)
  /\ UNCHANGED root_cluster

Create(path) == \E size \in FileKinds : \E w \in {Created(path, size)} :
                  Return("create", path, w)
Unlink(path) == \E w \in {Unlinked(fat_lookup_path(Handle, path))} : Return("unlink", path, w)
Rmdir(path)  == \E w \in {RemovedDir(fat_lookup_path(Handle, path))} : Return("rmdir", path, w)
Mkdir(path)  ==
  /\ path # <<>>
  /\ \E w \in {IF FreeClusters(Handle) = {} THEN Outcome(Handle, FALSE)
               ELSE MadeDir(path, Lowest(Handle))} : Return("mkdir", path, w)

-----------------------------------------------------------------------------
\* An empty volume with the root of a FAT16 or a FAT32; the free clusters were
\* never used.
Init ==
  /\ root_cluster \in {1, 2}
  /\ fat = [c \in Clusters |-> IF c = root_cluster THEN EndMark ELSE 0]
  /\ disk = [s \in Sectors |-> Blank]
  /\ call = [op |-> "none", path |-> <<>>, ok |-> TRUE]
  /\ seen = <<>>

Next == \E path \in Paths :
  \/ Create(path)
  \/ Unlink(path)
  \/ Rmdir(path)
  \/ Mkdir(path)

Spec == Init /\ [][Next]_vars

-----------------------------------------------------------------------------
Found == DOMAIN seen
FirstOf(p) == IF p = <<>> THEN root_cluster ELSE seen[p].first
Chain(p) == ToSet(ClusterChain(fat, FirstOf(p))) \cap Clusters
Dirs == {p \in Found : seen[p].kind = "dir"}

TypeOK ==
  /\ root_cluster \in {1, 2}
  /\ fat \in [Clusters -> {0, EndMark} \cup Clusters]
  /\ \A s \in Sectors, i \in 1..PerSector :
       disk[s][i] \in [kind: {"end", "deleted", "dir"} \cup FileKinds,
                       name: {NoName, Data, ".", ".."} \cup UNION {ToSet(p) : p \in Paths},
                       first: {0, 1} \cup Clusters]

\* Looking up paths on the volume gives the tree the calls promise, whatever
\* directories grew and clusters were used again: a call that returned success did
\* what it says and nothing else, one that failed did nothing, and only growth
\* with the volume all but full may fail without a reason in the tree.
Promise == INSTANCE DirTree WITH
  tree   <- [p \in Found |-> IF seen[p].kind = "dir" THEN "dir" ELSE "file"],
  result <- call,
  tight  <- Cardinality(FreeClusters(Handle)) <= 1
ImplementsTree == Promise!Spec

\* readdir shows each entry of a directory once: what can be looked up in it, and
\* nothing of what its clusters held before.
ListsTree ==
  \A d \in Dirs \cup {<<>>} :
    \A all \in {Listed(fat_lookup_path(Handle, d))} :
      LET shown == SelectSeq(all, LAMBDA n : n \notin {".", ".."})
      IN  /\ \A n \in ToSet(shown) : Append(d, n) \in Found \/ Len(d) = 2
          /\ \A p \in Found : Parent(p) = d => Last(p) \in ToSet(shown)
          /\ IsInjective(shown)

\* No cluster belongs to two files or directories, every chain comes to an end,
\* and every cluster that is not free belongs to one of them.
OwnClusters ==
  LET all == Found \cup {<<>>}
  IN  /\ \A p, q \in all : p # q => Chain(p) \cap Chain(q) = {}
      /\ \A p \in Found :
           /\ Chain(p) # {}
           /\ \E c \in Chain(p) : fat[c] = EndMark
           /\ \A c \in Chain(p) : fat[c] # 0
      /\ Clusters \ FreeClusters(Handle) = UNION {Chain(p) : p \in all}

\* Every directory begins with entries for itself and for the one it is in.
DotEntries ==
  \A d \in Dirs :
    LET first == disk[FirstSector(FirstOf(d))]
    IN  /\ first[1] = Entry("dir", ".", FirstOf(d))
        /\ first[2] = Entry("dir", "..", FirstOf(Parent(d)))
=============================================================================
