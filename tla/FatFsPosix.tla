----------------------------- MODULE FatFsPosix -----------------------------
(***************************************************************************)
(* FatFs implements PosixFile: the proof of ImplementsPosix of             *)
(* FatFsRefines, for one file used through one handle.                     *)
(*                                                                         *)
(* The invariant PosixInv adds to the ones of FatFsSafety, FatFsChains and *)
(* FatFsFiles what the contents need: which call gets where (FlowInv), how *)
(* the position stands to the size and to the bytes still to be moved      *)
(* (PlaceInv), where a handle stands that only reads (ReaderInv; for       *)
(* writers StandInv of FatFsChains says it), that a buffer not changed     *)
(* holds its sector (BufferInv), and that a saved entry has the size of    *)
(* its file (StoredInv).  Each action then either moves one byte, begins   *)
(* or ends a call, or leaves every byte of the file where the caller       *)
(* finds it: in the buffer or behind the same links.                       *)
(***************************************************************************)
EXTENDS FatFsFiles, FatFsRefines

(***************************************************************************)
(* One file used through one handle, with a working block device.          *)
(***************************************************************************)
\* The sector fat_lseek reads when it has walked off the chain, for cluster
\* 0xffffffff, exists.
EndReadable == Cluster0 > SectorsPerCluster
SoleUse ==
  /\ SafeUse /\ EndReadable
  /\ MaxOpen = 1 /\ \A m, n \in Names : m = n
  /\ Faulty = {} /\ MaxCrashes = 0 /\ RoModes \subseteq {FALSE}

\* What never happens in this use, and what follows from a file having bytes.
PlainInv ==
  /\ ~read_only /\ ~Handle.ro
  /\ pc = "idle" => call = NoCall
  /\ \A s \in Slots : ~dir[s].ro /\ (Live(s) => dir[s].name \in Names /\ dir[s].size > 0)
  /\ Handle.first # 0 \/ "DIRTY" \in Handle.flags => Handle.size > 0

\* Which calls get where.
Flushing == pc \in {"flush", "data"} \/ (pc = "info" /\ call.info = "flush")
Hopping  == pc \in {"sector", "next", "chain"} \/ Linked
Closing  == pc = "closing" \/ (pc = "info" /\ call.info = "close")
FlowInv ==
  /\ call.seeking => call.op \in {"write", "lseek"}
  /\ Flushing => call.flush # "none" /\ (call.flush = "close" <=> call.op = "close")
  /\ Hopping => call.op \in {"read", "write", "lseek"}
  /\ Closing => call.op = "close"
  /\ pc = "byte" => call.op \in {"read", "write"}
  /\ pc = "info" => call.info # "none"
  /\ pc = "info" /\ call.info # "close" => "WRITE" \in Handle.flags
  /\ call.op = "lseek" /\ ~call.seeking => pc \in {"done", "fail"}
  /\ call.op = "read" => pc # "fail"
  /\ pc \in {"sector", "next", "chain", "select", "info", "closing"} => "DIRTY" \notin Handle.flags
  /\ (Flushing /\ call.flush = "sector") \/ Loading => Handle.cursor = SectorSize

\* The position, and how it stands to a read or a write.
PlaceInv ==
  /\ Pos(Handle) <= Handle.size
  /\ Walking => Handle.sector \in Sectors
  /\ call.op = "write" =>
       /\ pc \notin {"byte", "done"} => call.todo # <<>>
       /\ pc = "done" => call.todo = <<>>
       /\ pc = "fail" => Pos(Handle) = Handle.size
       /\ call.seeking => call.new = Handle.size
  /\ call.op = "read" =>
       /\ pc \notin {"byte", "done"} => call.n > 0 /\ Pos(Handle) < Handle.size
       /\ pc = "done" => call.n = 0 \/ Pos(Handle) = Handle.size
  /\ call.op = "lseek" /\ pc = "done" => Pos(Handle) = call.new
  /\ call.op = "lseek" /\ pc = "fail" => call.new > Handle.size

\* Where a handle that cannot write stands: on a sector of the i-th cluster,
\* or behind the last cluster.
Walk == ChainFrom(Handle.first)
OnCluster(nth, f, i) ==
  /\ f.cluster = nth[i] /\ f.cluster \in Clusters
  /\ PlacedAt(f, f.cluster)
  /\ f.file_sector = i * SectorsPerCluster + (SectorsPerCluster - 1 - f.sectors_left)
AtEnd(f) ==
  /\ f.cluster = Bad /\ f.sector = SectorOf(Bad) /\ f.cursor = 0
  /\ Pos(f) = f.size /\ f.size % ClusterBytes = 0
Reading == IsOpen(0) /\ "WRITE" \notin Handle.flags /\ Handle.first # 0
ReaderInv == Reading =>
  /\ ~Walking => (\E i \in 0 .. LastCluster : OnCluster(Walk, Handle, i)) \/ AtEnd(Handle)
  /\ Crossing => Handle.sectors_left = 0
  /\ pc = "select" => \A i \in 0 .. LastCluster :
       OnCluster(Walk, Handle, i) => i + 1 <= LastCluster /\ Walk[i + 1] = call.res
  /\ call.seeking =>
       /\ (Flushing /\ call.flush = "seek") \/ pc = "seek" =>
            Pos(Handle) = call.old /\ ~RiskySeek(Handle, call.new)
       /\ Loading => /\ Pos(Handle) = call.old
                     /\ call.new <= Handle.size /\ (call.new < Handle.size \/ call.old < Handle.size)
       /\ pc = "case" =>
            /\ call.new <= Handle.size
            /\ \/ Pos(Handle) = call.old /\ Handle.cursor < SectorSize
               \/ call.new < call.old /\ call.old % ClusterBytes = 0
       /\ Walking =>
            /\ call.new <= Handle.size /\ call.i <= call.new \div ClusterBytes
            /\ call.i \in 0 .. LastCluster
            /\ \/ Handle.cluster = Walk[call.i] /\ Handle.cluster \in Clusters
               \/ /\ pc = "walk" /\ Handle.cluster = Bad /\ call.new = Handle.size
                  /\ call.new = call.i * ClusterBytes
            /\ pc # "walk" => call.i < call.new \div ClusterBytes
            /\ pc = "walked" =>
                 /\ call.i + 1 <= LastCluster
                 /\ \/ call.res = Walk[call.i + 1] /\ call.res \in Clusters
                    \/ call.res = Bad /\ call.new = Handle.size
                         /\ call.new = (call.i + 1) * ClusterBytes

\* A buffer that has not been changed holds what its sector holds.
BufferInv ==
  IsOpen(0) /\ Handle.first # 0 /\ "DIRTY" \notin Handle.flags /\ ~Walking
    /\ Handle.cursor < SectorSize
  => Handle.buffer = disk[Handle.sector]

\* The directory entry of the open file, and what is left when it is closed or
\* deleted.
StoredInv ==
  /\ IsOpen(0) /\ Handle.entry # 0 /\ "FS_DIRTY" \notin Handle.flags =>
       dir[Handle.entry].size = Handle.size
  /\ call.op = "close" =>
       /\ pc = "done" => "DIRTY" \notin Handle.flags
                           /\ (Handle.first # 0 => "FS_DIRTY" \notin Handle.flags)
       /\ pc = "fail" => Handle.size > 0
  /\ call.op = "unlink" => ~IsOpen(0) /\ (pc # "delete" => LiveSlots = {})

PosixInv == PlainInv /\ FlowInv /\ PlaceInv /\ ReaderInv /\ BufferInv /\ StoredInv
Sound == TypeInv /\ VolumeInv /\ ChainInv /\ SpaceInv /\ PosixInv

-----------------------------------------------------------------------------
(* The walk along a chain. *)

\* A rank is less than the number of clusters.
LEMMA RankBound ==
  ASSUME TypeOK, FatInv, NEW rank \in Ranks, Chained(rank), NEW first \in Clusters,
         owner[first] = first, NEW c \in Clusters, InChain(rank, c, first)
  PROVE  rank[c] \in Nat /\ rank[c] + 1 <= LastCluster
  <1>0. LastCluster \in Nat /\ LastCluster >= 2 /\ rank[c] \in Nat
    BY GeometryAssumption DEF Ranks, InChain
  <1>1. IsFiniteSet(Clusters) /\ Cardinality(Clusters) = LastCluster - 1
    <2>1. 2 \in Int /\ LastCluster \in Int /\ ~(2 > LastCluster)
      BY <1>0
    <2>2. /\ IsFiniteSet(2 .. LastCluster)
          /\ Cardinality(2 .. LastCluster)
               = IF 2 > LastCluster THEN 0 ELSE LastCluster - 2 + 1
      BY <2>1, FS_Interval
    <2> QED BY <1>0, <2>1, <2>2 DEF Clusters
  <1>2. Chain(first) \subseteq Clusters
    BY DEF Chain
  <1>3. Cardinality(Chain(first)) <= LastCluster - 1
    BY <1>1, <1>2, FS_Subset
  <1>4. Cardinality(Chain(first)) \in Nat /\ rank[c] + 1 <= Cardinality(Chain(first))
    BY ChainCounts
  <1> QED BY <1>0, <1>3, <1>4

\* The walk goes through the clusters in the order of their ranks.
LEMMA WalkRanks ==
  ASSUME TypeOK, FatInv, NEW rank \in Ranks, Chained(rank), NEW first \in Clusters,
         owner[first] = first, NEW i \in 0 .. LastCluster, ChainFrom(first)[i] \in Clusters
  PROVE  InChain(rank, ChainFrom(first)[i], first) /\ rank[ChainFrom(first)[i]] = i
  <1>0. LastCluster \in Nat
    BY GeometryAssumption
  <1> DEFINE nth == ChainFrom(first)
             S == {n \in Nat : n <= LastCluster /\ nth[n] \in Clusters =>
                     InChain(rank, nth[n], first) /\ rank[nth[n]] = n}
  <1>1. /\ nth[0] = first
        /\ \A n \in 1 .. LastCluster :
             nth[n] = IF nth[n - 1] \in Clusters THEN fat[nth[n - 1]] ELSE Bad
    BY ChainWalks
  <1> HIDE DEF nth
  <1>2. 0 \in S
    BY <1>1 DEF Chained, InChain
  <1>3. ASSUME NEW n \in Nat, n \in S PROVE n + 1 \in S
    <2>1. SUFFICES ASSUME n + 1 <= LastCluster, nth[n + 1] \in Clusters
                   PROVE  InChain(rank, nth[n + 1], first) /\ rank[nth[n + 1]] = n + 1
      OBVIOUS
    <2>2. nth[n + 1] = IF nth[n] \in Clusters THEN fat[nth[n]] ELSE Bad
      <3>1. n + 1 \in 1 .. LastCluster /\ n + 1 - 1 = n
        BY <1>0, <2>1
      <3> QED BY <1>1, <3>1
    <2>3. Bad \notin Clusters
      BY Markers
    <2>4. nth[n] \in Clusters /\ nth[n + 1] = fat[nth[n]]
      BY <2>1, <2>2, <2>3
    <2>5. PICK e \in Clusters : e = nth[n]
      BY <2>4
    <2>6. owner[e] = first /\ rank[e] = n
      <3>1. n <= LastCluster
        BY <1>0, <2>1
      <3> QED BY <1>3, <2>4, <2>5, <3>1 DEF InChain
    <2>7. owner[fat[e]] = first /\ rank[fat[e]] = n + 1
      BY <2>1, <2>4, <2>5, <2>6 DEF FatInv, Chained
    <2> QED BY <2>1, <2>4, <2>5, <2>7 DEF InChain
  <1>4. Nat \subseteq S
    <2> HIDE DEF S
    <2> QED BY <1>2, <1>3, SetInduction
  <1>5. i \in S /\ i <= LastCluster
    BY <1>0, <1>4
  <1> QED BY <1>5 DEF nth

\* A cluster of the walk is not the last number of the walk, and its link leads
\* to the next one; no cluster is met twice.
LEMMA WalkGoesOn ==
  ASSUME TypeOK, FatInv, NEW rank \in Ranks, Chained(rank), NEW first \in Clusters,
         owner[first] = first, NEW i \in 0 .. LastCluster, ChainFrom(first)[i] \in Clusters
  PROVE  /\ i + 1 \in 0 .. LastCluster
         /\ ChainFrom(first)[i + 1] = fat[ChainFrom(first)[i]]
         /\ \A j \in 0 .. LastCluster : ChainFrom(first)[j] = ChainFrom(first)[i] => j = i
  <1>0. LastCluster \in Nat
    BY GeometryAssumption
  <1>1. InChain(rank, ChainFrom(first)[i], first) /\ rank[ChainFrom(first)[i]] = i
    BY WalkRanks
  <1>2. i + 1 <= LastCluster
    BY <1>1, RankBound
  <1>3. i + 1 \in 1 .. LastCluster /\ i + 1 - 1 = i
    BY <1>0, <1>2
  <1>4. ChainFrom(first)[i + 1] = fat[ChainFrom(first)[i]]
    BY <1>3, ChainWalks
  <1>5. ASSUME NEW j \in 0 .. LastCluster, ChainFrom(first)[j] = ChainFrom(first)[i]
        PROVE  j = i
    BY <1>1, <1>5, WalkRanks
  <1> QED BY <1>3, <1>4, <1>5

\* A cluster of the chain is met at its rank.
LEMMA WalkMeets ==
  ASSUME TypeOK, FatInv, NEW rank \in Ranks, Chained(rank), NEW first \in Clusters,
         owner[first] = first, NEW c \in Clusters, InChain(rank, c, first)
  PROVE  rank[c] \in 0 .. LastCluster /\ ChainFrom(first)[rank[c]] = c
  <1>0. LastCluster \in Nat
    BY GeometryAssumption
  <1>1. rank[c] \in Nat /\ rank[c] + 1 <= LastCluster
    BY RankBound
  <1>2. PICK i \in Nat : i = rank[c] /\ i <= LastCluster
    BY <1>0, <1>1
  <1>3. InChain(rank, ChainFrom(first)[i], first) /\ rank[ChainFrom(first)[i]] = i
    BY <1>2, WalkThroughRanks
  <1>4. ChainFrom(first)[i] = c
    BY <1>2, <1>3 DEF InChain, Chained
  <1> QED BY <1>0, <1>2, <1>4

\* The walk along the links f, and the byte at p of a file that starts at first,
\* on the disk d.
WalkIn(f, first) == CHOOSE k : Walks(f, first, k, LastCluster)
ByteIn(f, d, first, p) ==
  LET c == WalkIn(f, first)[p \div ClusterBytes]
  IN IF c \in Clusters
     THEN d[SectorOf(c) + (p % ClusterBytes) \div SectorSize][p % SectorSize]
     ELSE Meta

\* What the walk along the links f is.
LEMMA WalkInWalks ==
  ASSUME NEW f, NEW first
  PROVE  /\ WalkIn(f, first)[0] = first
         /\ \A i \in 1 .. LastCluster :
              WalkIn(f, first)[i] = IF WalkIn(f, first)[i - 1] \in Clusters
                                    THEN f[WalkIn(f, first)[i - 1]] ELSE Bad
  <1>0. LastCluster \in Nat
    BY GeometryAssumption
  <1> DEFINE nth == WalkIn(f, first)
  <1>2. Walks(f, first, nth, LastCluster)
    BY <1>0, WalkDefined DEF WalkIn
  <1> HIDE DEF nth
  <1>3. nth[0] = first
    BY <1>0, <1>2 DEF Walks
  <1>4. ASSUME NEW i \in 1 .. LastCluster
        PROVE nth[i] = IF nth[i - 1] \in Clusters THEN f[nth[i - 1]] ELSE Bad
    BY <1>0, <1>2 DEF Walks
  <1> QED BY <1>3, <1>4 DEF nth

\* Before and after a step.
LEMMA WalksNow ==
  ASSUME NEW p
  PROVE  /\ ChainFrom(Handle.first) = WalkIn(fat, Handle.first)
         /\ ChainFrom(Handle.first)' = WalkIn(fat', Handle'.first)
         /\ StoredByte(Handle.first, p) = ByteIn(fat, disk, Handle.first, p)
         /\ StoredByte(Handle.first, p)' = ByteIn(fat', disk', Handle'.first, p)
  <1>1. /\ ChainFrom(Handle.first) = WalkIn(fat, Handle.first)
        /\ ChainFrom(Handle.first)' = WalkIn(fat', Handle'.first)
    BY DEF ChainFrom, WalkIn, Walks, Clusters, Bad
  <1>2. StoredByte(Handle.first, p) = ByteIn(fat, disk, Handle.first, p)
    BY <1>1 DEF StoredByte, ByteIn
  <1>3. StoredByte(Handle.first, p)' = ByteIn(fat', disk', Handle'.first, p)
    BY <1>1 DEF StoredByte, ByteIn, SectorOf, ClusterBytes
  <1> QED BY <1>1, <1>2, <1>3

\* Links between clusters that stay lead the walk through the same clusters.
LEMMA WalkKept ==
  ASSUME NEW f, NEW g, NEW first, \A c \in Clusters : f[c] \in Clusters => g[c] = f[c],
         NEW i \in 0 .. LastCluster, WalkIn(f, first)[i] \in Clusters
  PROVE  WalkIn(g, first)[i] = WalkIn(f, first)[i]
  <1>0. LastCluster \in Nat
    BY GeometryAssumption
  <1> DEFINE old == WalkIn(f, first)
             new == WalkIn(g, first)
             S == {n \in Nat : n <= LastCluster /\ old[n] \in Clusters => new[n] = old[n]}
  <1>1. /\ old[0] = first
        /\ \A n \in 1 .. LastCluster :
             old[n] = IF old[n - 1] \in Clusters THEN f[old[n - 1]] ELSE Bad
    BY WalkInWalks
  <1>2. /\ new[0] = first
        /\ \A n \in 1 .. LastCluster :
             new[n] = IF new[n - 1] \in Clusters THEN g[new[n - 1]] ELSE Bad
    BY WalkInWalks
  <1> HIDE DEF old, new
  <1>3. 0 \in S
    BY <1>1, <1>2
  <1>4. ASSUME NEW n \in Nat, n \in S PROVE n + 1 \in S
    <2>1. SUFFICES ASSUME n + 1 <= LastCluster, old[n + 1] \in Clusters
                   PROVE  new[n + 1] = old[n + 1]
      OBVIOUS
    <2>2. n + 1 \in 1 .. LastCluster /\ n + 1 - 1 = n /\ n <= LastCluster
      BY <1>0, <2>1
    <2>3. old[n] \in Clusters /\ old[n + 1] = f[old[n]]
      BY <1>1, <2>1, <2>2, Markers
    <2>4. new[n] = old[n]
      BY <1>4, <2>2, <2>3
    <2>5. new[n + 1] = g[new[n]]
      BY <1>2, <2>2, <2>3, <2>4
    <2> QED BY <2>1, <2>3, <2>4, <2>5
  <1>5. Nat \subseteq S
    <2> HIDE DEF S
    <2> QED BY <1>3, <1>4, SetInduction
  <1>6. i \in S /\ i <= LastCluster
    BY <1>0, <1>5
  <1> QED BY <1>6 DEF old, new

-----------------------------------------------------------------------------
(* The one handle. *)

\* The only handle is the one of the running call.
LEMMA Sole ==
  ASSUME SoleUse, TypeOK
  PROVE  /\ Handles = {0} /\ call \in Calls /\ call.fd = 0 /\ Cur = Handle /\ Handle \in FileS
         /\ \A g : SetCur(g) => Handle' = g
  <1>1. Handles = {0}
    BY DEF SoleUse, Handles
  <1>2. call \in Calls /\ call.fd = 0 /\ Cur = Handle /\ Handle \in FileS
    BY <1>1 DEF TypeOK, Calls, Cur, Handle
  <1>3. \A g : SetCur(g) => Handle' = g
    BY <1>1, <1>2 DEF SetCur, Handle, TypeOK
  <1> QED BY <1>1, <1>2, <1>3

\* An open file that has clusters: the walk along its chain.
LEMMA OpenFile ==
  ASSUME SoleUse, TypeInv, VolumeInv, ChainInv, IsOpen(0), Handle.first # 0
  PROVE  /\ Handle.first \in Clusters
         /\ \A i \in 0 .. LastCluster : Walk[i] \in Clusters =>
              /\ i + 1 \in 0 .. LastCluster /\ Walk[i + 1] = fat[Walk[i]]
              /\ fat[Walk[i]] \in Clusters \cup {EndMarker}
              /\ fat[Walk[i]] = EndMarker => Handle.size <= (i + 1) * ClusterBytes
              /\ \A j \in 0 .. LastCluster : Walk[j] = Walk[i] => j = i
         /\ \A p \in 0 .. Handle.size - 1 :
              p \div ClusterBytes \in 0 .. LastCluster /\ Walk[p \div ClusterBytes] \in Clusters
  <1>0. /\ TypeOK /\ FatInv /\ LastCluster \in Nat /\ Handle.size \in Nat /\ 0 \in Handles
        /\ ClusterBytes \in Nat \ {0}
    BY Sole, GeometryAssumption, PositiveSizes DEF TypeInv, VolumeInv, FileS
  <1>1. PICK rank \in Ranks : RankInv(rank)
    BY DEF ChainInv
  <1>2. Chained(rank)
    BY <1>1 DEF RankInv
  <1>3. PICK first \in Clusters : first = Handle.first /\ owner[first] = first
    BY <1>0 DEF VolumeInv, HandleInv, FilesInv, StoredFile, Handle
  <1>4. PICK e \in Clusters : InChain(rank, e, first) /\ Handle.size <= (rank[e] + 1) * ClusterBytes
    BY <1>0, <1>1, <1>3 DEF RankInv, SizesInv, Covers, Handle
  <1>5. Walk = ChainFrom(first)
    BY <1>3 DEF Walk
  <1>6. ASSUME NEW i \in 0 .. LastCluster, Walk[i] \in Clusters
        PROVE  /\ i + 1 \in 0 .. LastCluster /\ Walk[i + 1] = fat[Walk[i]]
               /\ fat[Walk[i]] \in Clusters \cup {EndMarker}
               /\ fat[Walk[i]] = EndMarker => Handle.size <= (i + 1) * ClusterBytes
               /\ \A j \in 0 .. LastCluster : Walk[j] = Walk[i] => j = i
    <2>1. /\ i + 1 \in 0 .. LastCluster /\ Walk[i + 1] = fat[Walk[i]]
          /\ \A j \in 0 .. LastCluster : Walk[j] = Walk[i] => j = i
      BY <1>0, <1>2, <1>3, <1>5, <1>6, WalkGoesOn
    <2>2. InChain(rank, Walk[i], first) /\ rank[Walk[i]] = i
      BY <1>0, <1>2, <1>3, <1>5, <1>6, WalkRanks
    <2>3. fat[Walk[i]] \in Clusters \cup {EndMarker}
      BY <1>0, <1>6, <2>2, Markers DEF FatInv, InChain
    <2>4. ASSUME fat[Walk[i]] = EndMarker PROVE Handle.size <= (i + 1) * ClusterBytes
      <3>1. rank[e] <= i
        BY <1>2, <1>4, <2>2, <2>4 DEF Chained, InChain
      <3>2. rank[e] \in Nat
        BY <1>4 DEF InChain, Ranks
      <3>3. PICK a \in Nat, b \in Nat, n \in Nat : a = rank[e] + 1 /\ b = i + 1 /\ n = ClusterBytes
        BY <1>0, <3>2
      <3>4. a * n <= b * n /\ a * n \in Nat /\ b * n \in Nat
        BY <3>1, <3>2, <3>3, MulMonotone
      <3> QED BY <1>0, <1>4, <3>3, <3>4
    <2> QED BY <2>1, <2>3, <2>4
  <1>7. ASSUME NEW p \in 0 .. Handle.size - 1
        PROVE  p \div ClusterBytes \in 0 .. LastCluster /\ Walk[p \div ClusterBytes] \in Clusters
    <2>1. rank[e] \in 0 .. LastCluster /\ ChainFrom(first)[rank[e]] = e /\ rank[e] \in Nat
      BY <1>0, <1>2, <1>3, <1>4, WalkMeets
    <2>2. PICK r \in Nat : r = rank[e]
      BY <2>1
    <2>3. p \in Nat /\ (r + 1) * ClusterBytes \in Nat
      BY <1>0
    <2>4. p < (r + 1) * ClusterBytes
      BY <1>0, <1>4, <1>7, <2>2, <2>3
    <2>5. p \div ClusterBytes <= r
      BY <2>3, <2>4, ClusterEnds
    <2>6. p \div ClusterBytes \in Nat
      BY <1>0, <2>3
    <2>7. PICK i \in Nat : i = p \div ClusterBytes
      BY <2>6
    <2>8. i <= rank[e] /\ i <= LastCluster
      BY <1>0, <2>1, <2>2, <2>5, <2>7
    <2>9. InChain(rank, ChainFrom(first)[i], first)
      BY <1>0, <1>2, <1>3, <1>4, <2>8, WalkThroughRanks
    <2> QED BY <1>0, <1>5, <2>7, <2>8, <2>9 DEF InChain
  <1> QED BY <1>3, <1>6, <1>7

\* A writer stands on a sector of its file, except while fat_lseek walks the
\* chain.
LEMMA WriterStands ==
  ASSUME SoleUse, TypeInv, VolumeInv, ChainInv, IsOpen(0), Handle.first # 0,
         "WRITE" \in Handle.flags, ~Walking
  PROVE  \E i \in 0 .. LastCluster : OnCluster(Walk, Handle, i)
  <1>0. TypeOK /\ FatInv /\ 0 \in Handles
    BY Sole DEF TypeInv, VolumeInv
  <1>1. PICK rank \in Ranks : RankInv(rank)
    BY DEF ChainInv
  <1>2. Chained(rank) /\ StandsAt(rank, Handle)
    BY <1>0, <1>1 DEF RankInv, StandInv, Handle
  <1>3. PICK first \in Clusters : first = Handle.first /\ owner[first] = first
    BY <1>0 DEF VolumeInv, HandleInv, FilesInv, StoredFile, Handle
  <1>4. PICK c \in Clusters : c = Handle.cluster /\ InChain(rank, c, first)
    BY <1>2, <1>3 DEF StandsAt, InChain
  <1>5. rank[c] \in 0 .. LastCluster /\ ChainFrom(first)[rank[c]] = c
    BY <1>0, <1>2, <1>3, <1>4, WalkMeets
  <1>6. OnCluster(Walk, Handle, rank[c])
    BY <1>2, <1>3, <1>4, <1>5 DEF OnCluster, StandsAt, Aligned, Walk
  <1> QED BY <1>5, <1>6

\* A writer that walks is where the walk is.
LEMMA WriterWalks ==
  ASSUME SoleUse, TypeInv, VolumeInv, ChainInv, IsOpen(0), Handle.first # 0,
         "WRITE" \in Handle.flags, call.seeking, Walking, pc # "lost"
  PROVE  /\ call.new <= Handle.size /\ call.i <= call.new \div ClusterBytes
         /\ call.i \in 0 .. LastCluster
         /\ Handle.cluster = Walk[call.i] /\ Handle.cluster \in Clusters
         /\ pc # "walk" => call.i < call.new \div ClusterBytes
         /\ pc = "walked" \/ Linked =>
              /\ call.i + 1 \in 0 .. LastCluster
              /\ call.res = Walk[call.i + 1] /\ call.res \in Clusters
  <1>0. TypeOK /\ FatInv /\ 0 \in Handles /\ Cur = Handle
    BY Sole DEF TypeInv, VolumeInv
  <1>1. PICK rank \in Ranks : RankInv(rank)
    BY DEF ChainInv
  <1>2. Chained(rank) /\ SeekerInv(rank) /\ WriterSeeks
    BY <1>0, <1>1 DEF RankInv, WriterSeeks
  <1>3. PICK first \in Clusters : first = Handle.first /\ owner[first] = first
    BY <1>0 DEF VolumeInv, HandleInv, FilesInv, StoredFile, Handle
  <1>4. /\ call.new <= Handle.size /\ call.i <= call.new \div ClusterBytes
        /\ InChain(rank, Handle.cluster, first) /\ rank[Handle.cluster] = call.i
        /\ pc # "walk" => call.i < call.new \div ClusterBytes
        /\ pc = "walked" \/ Linked =>
             InChain(rank, call.res, first) /\ rank[call.res] = call.i + 1
    BY <1>0, <1>2, <1>3 DEF SeekerInv
  <1>5. Handle.cluster \in Clusters /\ call.i \in 0 .. LastCluster /\ Walk[call.i] = Handle.cluster
    BY <1>0, <1>2, <1>3, <1>4, WalkMeets DEF InChain, Walk
  <1>6. ASSUME pc = "walked" \/ Linked
        PROVE  /\ call.i + 1 \in 0 .. LastCluster
               /\ call.res = Walk[call.i + 1] /\ call.res \in Clusters
    BY <1>0, <1>2, <1>3, <1>4, <1>6, WalkMeets DEF InChain, Walk
  <1> QED BY <1>4, <1>5, <1>6

-----------------------------------------------------------------------------
(* Where bytes are. *)

\* The sector fat_lseek reads behind the last cluster.
LEMMA EndSector ==
  ASSUME SoleUse
  PROVE  SectorOf(Bad) \in Sectors
  <1>1. /\ SectorsPerCluster \in Nat \ {0} /\ Cluster0 \in Nat /\ Cluster0 > SectorsPerCluster
        /\ Word \in Nat /\ LastCluster \in Nat
        /\ LastSector = LastCluster * SectorsPerCluster + Cluster0 + SectorsPerCluster - 1
        /\ LastSector < Word
    BY GeometryAssumption DEF SoleUse, EndReadable, LastSector
  <1>2. PICK t \in Nat, r \in Nat, w \in Nat \ {0}, n \in Nat \ {0} :
          /\ t = LastCluster * SectorsPerCluster /\ r = Cluster0 - SectorsPerCluster
          /\ w = Word /\ n = SectorsPerCluster
    BY <1>1
  <1>3. r \in 0 .. w - 1 /\ r >= 1 /\ r <= LastSector /\ LastSector \in Int
    BY <1>1, <1>2
  <1>4. (n * w + r) % w = r
    BY <1>2, <1>3, DivModUnique
  <1>5. (w - 1) * n + Cluster0 = n * w + r
    BY <1>1, <1>2, Z3
  <1>6. SectorOf(Bad) = r
    BY <1>2, <1>4, <1>5 DEF SectorOf, Bad
  <1> QED BY <1>3, <1>6 DEF Sectors

\* A handle on a cluster: its sector, and the position of its bytes.
LEMMA SpotSector ==
  ASSUME NEW f \in FileS, NEW nth, NEW i \in 0 .. LastCluster, OnCluster(nth, f, i)
  PROVE  f.sector \in Sectors /\ f.sector # 0 /\ ClusterOf(f.sector) = f.cluster
  <1>1. PICK c \in Clusters : c = f.cluster
    BY DEF OnCluster
  <1>2. /\ f.sector \in Sectors /\ f.sector >= SectorOf(c) /\ f.sector < SectorOf(c) + SectorsPerCluster
        /\ PlacedAt(f, c)
    BY <1>1, PlacedInData DEF OnCluster
  <1>3. SectorOf(c) \in Nat /\ f.sector \in Nat /\ SectorsPerCluster \in Nat
    BY <1>1, ClusterSectors, GeometryAssumption DEF FileS
  <1>4. PICK j \in 0 .. SectorsPerCluster - 1 : f.sector = SectorOf(c) + j
    <2>1. f.sector - SectorOf(c) \in 0 .. SectorsPerCluster - 1
      BY <1>2, <1>3
    <2>2. f.sector = SectorOf(c) + (f.sector - SectorOf(c))
      BY <1>3
    <2> QED BY <2>1, <2>2
  <1>5. ClusterOf(f.sector) = c
    BY <1>1, <1>4, SectorsBelong
  <1>6. 0 \notin Sectors
    BY DEF Sectors
  <1> QED BY <1>1, <1>2, <1>5, <1>6

\* The bytes whose number of sectors is file_sector are on the handle's sector.
LEMMA SpotBytes ==
  ASSUME NEW f \in FileS, NEW nth, NEW i \in 0 .. LastCluster, OnCluster(nth, f, i),
         NEW p \in Nat, p \div SectorSize = f.file_sector
  PROVE  /\ p \div ClusterBytes = i
         /\ SectorOf(f.cluster) + (p % ClusterBytes) \div SectorSize = f.sector
  <1>0. /\ f.sectors_left \in Nat /\ f.sector \in Nat /\ f.file_sector \in Nat /\ i \in Nat
        /\ SectorsPerCluster \in Nat \ {0} /\ LastCluster \in Nat
    BY GeometryAssumption DEF FileS
  <1>1. PICK j \in Nat : j = SectorsPerCluster - 1 - f.sectors_left
    <2>1. f.sectors_left < SectorsPerCluster
      BY DEF OnCluster, PlacedAt
    <2> QED BY <1>0, <2>1
  <1>2. j \in 0 .. SectorsPerCluster - 1 /\ f.file_sector = i * SectorsPerCluster + j
    BY <1>0, <1>1 DEF OnCluster
  <1>3. /\ p % SectorSize \in 0 .. SectorSize - 1
        /\ p = (i * SectorsPerCluster + j) * SectorSize + (p % SectorSize)
    BY <1>2, SplitPosition
  <1>4. p % SectorSize \in 0 .. SectorSize /\ p % SectorSize < SectorSize
    BY <1>3, GeometryAssumption
  <1>5. p \div ClusterBytes = i /\ (p % ClusterBytes) \div SectorSize = j
    <2>1. PICK u \in 0 .. SectorSize : u = p % SectorSize /\ u < SectorSize
      BY <1>4
    <2>2. p = (i * SectorsPerCluster + j) * SectorSize + u
      BY <1>3, <2>1
    <2>3. i \in Nat /\ j \in 0 .. SectorsPerCluster - 1
      BY <1>0, <1>2
    <2> QED BY <2>1, <2>2, <2>3, Positions
  <1>6. SectorOf(f.cluster) + j = f.sector
    <2>1. f.cluster \in Clusters /\ f.sector + f.sectors_left = SectorOf(f.cluster) + SectorsPerCluster - 1
      BY DEF OnCluster, PlacedAt
    <2>2. SectorOf(f.cluster) \in Nat
      BY <2>1, ClusterSectors
    <2> QED BY <1>0, <1>1, <2>1, <2>2
  <1> QED BY <1>5, <1>6

\* The byte under the cursor, and the first byte behind a used-up sector.
LEMMA CursorAt ==
  ASSUME NEW f \in FileS
  PROVE  /\ Pos(f) \in Nat
         /\ f.cursor # SectorSize =>
              Pos(f) \div SectorSize = f.file_sector /\ Pos(f) % SectorSize = f.cursor
                /\ f.cursor \in 0 .. SectorSize - 1
         /\ f.cursor = SectorSize => Pos(f) = (f.file_sector + 1) * SectorSize
  <1>1. f.cursor \in 0 .. SectorSize /\ f.file_sector \in Nat /\ SectorSize \in Nat \ {0}
    BY GeometryAssumption DEF FileS
  <1>2. PICK a \in Nat, b \in Nat \ {0}, u \in Nat :
          a = f.file_sector /\ b = SectorSize /\ u = f.cursor /\ u <= b
    BY <1>1
  <1>3. Pos(f) = a * b + u
    BY <1>2 DEF Pos
  <1>4. a * b \in Nat /\ (a + 1) * b = a * b + b
    BY NextMultiple
  <1>5. ASSUME u # b PROVE (a * b + u) \div b = a /\ (a * b + u) % b = u /\ u \in 0 .. b - 1
    <2>1. u \in 0 .. b - 1
      BY <1>2, <1>5
    <2> QED BY <2>1, DivModUnique
  <1> QED BY <1>2, <1>3, <1>4, <1>5

\* A used-up sector that is the last of its cluster ends at the cluster's end;
\* any other is followed by a sector of the cluster.
LEMMA UsedUpAt ==
  ASSUME NEW f \in FileS, NEW nth, NEW i \in 0 .. LastCluster, OnCluster(nth, f, i),
         f.cursor = SectorSize
  PROVE  /\ (i + 1) * ClusterBytes \in Nat
         /\ f.sectors_left = 0 => Pos(f) = (i + 1) * ClusterBytes
                                    /\ f.file_sector + 1 = (i + 1) * SectorsPerCluster
  <1>0. /\ f.sectors_left \in Nat /\ f.file_sector \in Nat /\ i \in Nat /\ SectorSize \in Nat \ {0}
        /\ SectorsPerCluster \in Nat \ {0} /\ LastCluster \in Nat
    BY GeometryAssumption DEF FileS
  <1>1. PICK j \in Nat : j = SectorsPerCluster - 1 - f.sectors_left
    <2>1. f.sectors_left < SectorsPerCluster
      BY DEF OnCluster, PlacedAt
    <2> QED BY <1>0, <2>1
  <1>2. j \in 0 .. SectorsPerCluster - 1 /\ f.file_sector = i * SectorsPerCluster + j
    BY <1>0, <1>1 DEF OnCluster
  <1>3. SectorSize \in 0 .. SectorSize /\ Pos(f) = (i * SectorsPerCluster + j) * SectorSize + SectorSize
    BY <1>0, <1>2 DEF Pos
  <1>4. /\ (i + 1) * ClusterBytes \in Nat
        /\ j = SectorsPerCluster - 1 => Pos(f) = (i + 1) * ClusterBytes
    <2>1. PICK u \in 0 .. SectorSize : u = SectorSize
      BY <1>3
    <2>2. Pos(f) = (i * SectorsPerCluster + j) * SectorSize + u
      BY <1>3, <2>1
    <2>3. i \in Nat /\ j \in 0 .. SectorsPerCluster - 1
      BY <1>0, <1>2
    <2> QED BY <2>1, <2>2, <2>3, Positions
  <1>5. (i + 1) * SectorsPerCluster = i * SectorsPerCluster + SectorsPerCluster
           /\ i * SectorsPerCluster \in Nat
    BY <1>0, NextMultiple
  <1> QED BY <1>0, <1>1, <1>2, <1>4, <1>5

-----------------------------------------------------------------------------
(* The bytes of the open file. *)

FileByte(f, d, h, p) ==
  IF p \div SectorSize = h.file_sector /\ "DIRTY" \in h.flags
  THEN h.buffer[p % SectorSize] ELSE ByteIn(f, d, h.first, p)
FileBytes(f, d, h) == [i \in 1 .. h.size |-> FileByte(f, d, h, i - 1)]

\* The bytes of the open file, before and after a step.
LEMMA BytesNow ==
  /\ OpenContent(Handle) = FileBytes(fat, disk, Handle)
  /\ OpenContent(Handle)' = FileBytes(fat', disk', Handle')
  <1>1. OpenContent(Handle) = FileBytes(fat, disk, Handle)
    BY WalksNow DEF OpenContent, InBuffer, FileBytes, FileByte
  <1>2. OpenContent(Handle)' = FileBytes(fat', disk', Handle')
    <2>1. \A p : StoredByte(Handle.first, p)' = ByteIn(fat', disk', Handle'.first, p)
      BY WalksNow
    <2> QED BY <2>1 DEF OpenContent, InBuffer, FileBytes, FileByte
  <1> QED BY <1>1, <1>2

\* An open file that has clusters stands on one of them; a reader may also
\* stand behind the last.
LEMMA Spot ==
  ASSUME SoleUse, Sound, IsOpen(0), Handle.first # 0, ~Walking
  PROVE  \/ \E i \in 0 .. LastCluster : OnCluster(Walk, Handle, i)
         \/ "WRITE" \notin Handle.flags /\ AtEnd(Handle)
  <1>1. CASE "WRITE" \in Handle.flags
    BY <1>1, WriterStands DEF Sound
  <1>2. CASE "WRITE" \notin Handle.flags
    BY <1>2 DEF Sound, PosixInv, ReaderInv, Reading
  <1> QED BY <1>1, <1>2

\* An open file with clusters stands on a sector of the device.
LEMMA HandleSector ==
  ASSUME SoleUse, Sound, IsOpen(0), Handle.first # 0
  PROVE  Handle.sector \in Sectors /\ Handle.sector # 0
  <1>1. Handle \in FileS /\ 0 \notin Sectors
    BY Sole DEF Sound, TypeInv, Sectors
  <1>2. CASE Walking
    BY <1>1, <1>2 DEF Sound, PosixInv, PlaceInv
  <1>3. CASE ~Walking
    BY <1>1, <1>3, Spot, SpotSector, EndSector DEF AtEnd
  <1> QED BY <1>2, <1>3

\* What an open file without clusters has.
LEMMA NoClusters ==
  ASSUME SoleUse, Sound, IsOpen(0), Handle.first = 0
  PROVE  /\ Unstored(Handle) /\ Handle.size <= SectorSize
         /\ Pos(Handle) = Handle.cursor /\ Handle.cursor <= Handle.size
  <1>0. Handle \in FileS /\ 0 \in Handles /\ SectorSize \in Nat
    BY Sole, GeometryAssumption DEF Sound, TypeInv
  <1>1. Unstored(Handle)
    BY <1>0 DEF Sound, VolumeInv, HandleInv, FilesInv, Handle
  <1>2. Handle.size <= SectorSize
    BY <1>0 DEF Sound, ChainInv, RankInv, SizesInv, Handle
  <1>3. Pos(Handle) = Handle.cursor
    BY <1>0, <1>1 DEF Pos, Unstored, FileS
  <1> QED BY <1>1, <1>2, <1>3 DEF Unstored

\* Where the bytes of a file with clusters are.
LEMMA ByteOnDisk ==
  ASSUME SoleUse, Sound, IsOpen(0), Handle.first # 0, NEW p \in 0 .. Handle.size - 1
  PROVE  /\ p \in Nat /\ p \div ClusterBytes \in 0 .. LastCluster
         /\ Walk[p \div ClusterBytes] \in Clusters
         /\ (p % ClusterBytes) \div SectorSize \in 0 .. SectorsPerCluster - 1
         /\ \A d : ByteIn(fat, d, Handle.first, p)
              = d[SectorOf(Walk[p \div ClusterBytes]) + (p % ClusterBytes) \div SectorSize][p % SectorSize]
  <1>1. p \div ClusterBytes \in 0 .. LastCluster /\ Walk[p \div ClusterBytes] \in Clusters
    BY OpenFile DEF Sound
  <1>2. Walk = WalkIn(fat, Handle.first)
    BY WalksNow DEF Walk
  <1>3. p \in Nat
    BY Sole DEF Sound, TypeInv, FileS
  <1> QED BY <1>1, <1>2, <1>3, SplitPosition DEF ByteIn

\* Bytes stay where no link between two clusters is changed.
LEMMA BytesKept ==
  ASSUME SoleUse, Sound, IsOpen(0), Handle.first # 0, NEW p \in 0 .. Handle.size - 1,
         \A c \in Clusters : fat[c] \in Clusters => fat'[c] = fat[c], NEW d
  PROVE  ByteIn(fat', d, Handle.first, p) = ByteIn(fat, d, Handle.first, p)
  <1>1. p \div ClusterBytes \in 0 .. LastCluster /\ Walk[p \div ClusterBytes] \in Clusters
    BY ByteOnDisk
  <1>2. Walk = WalkIn(fat, Handle.first)
    BY WalksNow DEF Walk
  <1>3. WalkIn(fat', Handle.first)[p \div ClusterBytes] = Walk[p \div ClusterBytes]
    BY <1>1, <1>2, WalkKept
  <1> QED BY <1>2, <1>3 DEF ByteIn

\* The bytes of other sectors of the file.
LEMMA OtherBytes ==
  ASSUME SoleUse, Sound, IsOpen(0), Handle.first # 0, NEW p \in 0 .. Handle.size - 1,
         NEW i \in 0 .. LastCluster, OnCluster(Walk, Handle, i), p \div SectorSize # Handle.file_sector
  PROVE  \A d, e : (\A s \in Sectors : s # Handle.sector => d[s] = e[s]) =>
           ByteIn(fat, d, Handle.first, p) = ByteIn(fat, e, Handle.first, p)
  <1>0. Handle \in FileS
    BY Sole DEF Sound, TypeInv
  <1> DEFINE k == p \div ClusterBytes
             j == (p % ClusterBytes) \div SectorSize
  <1>1. /\ p \in Nat /\ k \in 0 .. LastCluster /\ Walk[k] \in Clusters
        /\ j \in 0 .. SectorsPerCluster - 1
        /\ \A d : ByteIn(fat, d, Handle.first, p) = d[SectorOf(Walk[k]) + j][p % SectorSize]
    BY ByteOnDisk
  <1>2. p \div SectorSize = k * SectorsPerCluster + j
    BY <1>1, SplitPosition
  <1> HIDE DEF k, j
  <1>3. SectorOf(Walk[k]) + j \in Sectors /\ ClusterOf(SectorOf(Walk[k]) + j) = Walk[k]
    BY <1>1, SectorsBelong
  <1>4. SectorOf(Walk[k]) + j # Handle.sector
    <2> SUFFICES ASSUME SectorOf(Walk[k]) + j = Handle.sector PROVE FALSE
      OBVIOUS
    <2>1. Walk[k] = Handle.cluster
      BY <1>0, <1>3, SpotSector
    <2>2. k = i
      BY <1>1, <2>1, OpenFile DEF OnCluster, Sound
    <2>3. Handle.sector + Handle.sectors_left = SectorOf(Walk[k]) + SectorsPerCluster - 1
      BY <2>1 DEF OnCluster, PlacedAt
    <2>4. SectorOf(Walk[k]) \in Nat /\ Handle.sectors_left \in Nat /\ SectorsPerCluster \in Nat
      BY <1>0, <1>1, ClusterSectors, GeometryAssumption DEF FileS
    <2>5. j = SectorsPerCluster - 1 - Handle.sectors_left
      BY <1>1, <2>3, <2>4
    <2> QED BY <1>2, <2>2, <2>5 DEF OnCluster
  <1> QED BY <1>1, <1>3, <1>4

\* The buffer holds the bytes of its sector, changed or not.
LEMMA BufferedBytes ==
  ASSUME SoleUse, Sound, IsOpen(0), ~Walking, Handle.cursor # SectorSize,
         NEW p \in 0 .. Handle.size - 1, p \div SectorSize = Handle.file_sector
  PROVE  FileByte(fat, disk, Handle, p) = Handle.buffer[p % SectorSize]
  <1>0. Handle \in FileS /\ p \in Nat /\ SectorSize \in Nat \ {0}
    BY Sole, GeometryAssumption DEF Sound, TypeInv, FileS
  <1>1. CASE "DIRTY" \in Handle.flags
    BY <1>1 DEF FileByte
  <1>2. CASE "DIRTY" \notin Handle.flags
    <2>1. Handle.first # 0
      <3> SUFFICES ASSUME Handle.first = 0 PROVE FALSE
        OBVIOUS
      <3>1. Handle.size > 0
        BY <1>0 DEF FileS
      <3> QED BY <1>2, <3>1, NoClusters DEF Unstored
    <2>2. Handle.buffer = disk[Handle.sector]
      BY <1>0, <1>2, <2>1 DEF Sound, PosixInv, BufferInv, FileS
    <2>3. ~AtEnd(Handle)
      <3> SUFFICES ASSUME AtEnd(Handle) PROVE FALSE
        OBVIOUS
      <3>0. p = Handle.file_sector * SectorSize + (p % SectorSize) /\ p % SectorSize \in Nat
        <4>1. p = (p \div SectorSize) * SectorSize + (p % SectorSize)
          BY <1>0, SplitPosition
        <4>2. p % SectorSize \in Nat
          BY <1>0
        <4> QED BY <4>1, <4>2, Zenon
      <3>1. PICK q \in Nat, a \in Nat, u \in Nat, b \in Nat \ {0} :
              q = p /\ a = Handle.file_sector /\ b = SectorSize /\ u = p % SectorSize
        BY <1>0, <3>0 DEF FileS
      <3>2. q = a * b + u /\ a * b \in Nat
        BY <3>0, <3>1
      <3>3. Handle.size = a * b
        BY <3>1 DEF AtEnd, Pos
      <3>4. q < Handle.size
        BY <1>0, <3>1 DEF FileS
      <3> QED BY <3>2, <3>3, <3>4
    <2>4. PICK i \in 0 .. LastCluster : OnCluster(Walk, Handle, i)
      BY <2>1, <2>3, Spot
    <2>5. /\ p \div ClusterBytes = i
          /\ SectorOf(Handle.cluster) + (p % ClusterBytes) \div SectorSize = Handle.sector
      BY <1>0, <2>4, SpotBytes
    <2>6. ByteIn(fat, disk, Handle.first, p) = disk[Handle.sector][p % SectorSize]
      BY <2>1, <2>4, <2>5, ByteOnDisk DEF OnCluster
    <2> QED BY <1>2, <2>2, <2>6 DEF FileByte
  <1> QED BY <1>1, <1>2

-----------------------------------------------------------------------------
(* What the caller sees. *)

\* The contents of the open file while no call that truncates runs.
LEMMA ContentOpen ==
  VolumeInv /\ PlainInv /\ IsOpen(0) => Content = OpenContent(Handle)
  BY DEF VolumeInv, CallInv, PlainInv, Content, Truncating, NoCall

\* The same after a step.
LEMMA ContentOpenNext ==
  ASSUME VolumeInv', PlainInv', IsOpen(0)'
  PROVE  Content' = OpenContent(Handle)'
  <1>1. (VolumeInv /\ PlainInv /\ IsOpen(0) => Content = OpenContent(Handle))'
    BY ContentOpen, PTL
  <1> QED BY <1>1

-----------------------------------------------------------------------------
(* Steps the caller does not see. *)

\* The name is in the directory, or will be, once the file has a byte.
LEMMA ExistsOpen ==
  SoleUse /\ TypeInv /\ VolumeInv /\ PlainInv /\ IsOpen(0) => (Exists <=> Handle.size > 0)
  <1> SUFFICES ASSUME SoleUse, TypeInv, VolumeInv, PlainInv, IsOpen(0)
               PROVE  Exists <=> Handle.size > 0
    OBVIOUS
  <1>1. 0 \in Handles /\ Handle \in FileS
    BY Sole DEF TypeInv
  <1>2. Handle.entry # 0 => Handle.size > 0
    <2>1. Handle.first = 0 => Unstored(Handle)
      BY <1>1 DEF VolumeInv, HandleInv, FilesInv, Handle
    <2>2. Handle.first # 0 => Handle.size > 0
      BY DEF PlainInv
    <2> QED BY <2>1, <2>2 DEF Unstored
  <1> QED BY <1>2 DEF Exists

\* The same after a step.
LEMMA ExistsOpenNext ==
  ASSUME SoleUse, TypeInv', VolumeInv', PlainInv', IsOpen(0)'
  PROVE  Exists' <=> Handle'.size > 0
  <1>1. SoleUse'
    OBVIOUS
  <1>2. (SoleUse /\ TypeInv /\ VolumeInv /\ PlainInv /\ IsOpen(0) => (Exists <=> Handle.size > 0))'
    BY ExistsOpen, PTL
  <1> QED BY <1>1, <1>2

\* The contents of two files with the same bytes.
LEMMA SameBytes ==
  ASSUME NEW f, NEW g, NEW d, NEW e, NEW h, NEW k, h.size = k.size, h.size \in Nat,
         \A p \in 0 .. h.size - 1 : FileByte(f, d, h, p) = FileByte(g, e, k, p)
  PROVE  FileBytes(f, d, h) = FileBytes(g, e, k)
  <1>1. \A i \in 1 .. h.size : i - 1 \in 0 .. h.size - 1
    OBVIOUS
  <1> QED BY <1>1 DEF FileBytes

\* The file stays as it is, at the same place, and the call goes on.
Steady ==
  /\ UNCHANGED <<read_only, ret>> /\ IsOpen(0)
  /\ call'.op = call.op /\ call'.seeking = call.seeking /\ call'.todo = call.todo
  /\ call'.n = call.n /\ call'.got = call.got /\ call'.new = call.new
  /\ Handle'.ro = Handle.ro /\ Handle'.size = Handle.size /\ Pos(Handle') = Pos(Handle)
  /\ Handle'.flags \ {"DIRTY", "FS_DIRTY"} = Handle.flags \ {"DIRTY", "FS_DIRTY"}
  /\ Handle'.first # 0 \/ "DIRTY" \in Handle'.flags =>
       Handle.first # 0 \/ "DIRTY" \in Handle.flags
\* Where it goes.
GoesOn ==
  /\ pc \notin {"idle", "done", "fail"} /\ pc' # "idle" /\ call.op # "unlink"
  /\ pc = "byte" /\ pc' # "done" =>
       /\ call.op = "write" => call.todo # <<>>
       /\ call.op = "read" => call.n > 0 /\ Pos(Handle) < Handle.size
  /\ pc' = "done" =>
       /\ call.op = "write" => call.todo = <<>>
       /\ call.op = "read" => call.n = 0 \/ Pos(Handle) = Handle.size
       /\ call.op = "close" => "DIRTY" \notin Handle'.flags
                                 /\ (Handle'.first # 0 => "FS_DIRTY" \notin Handle'.flags)
       /\ call.op # "lseek"
  /\ pc' = "fail" =>
       /\ call.op = "write" => Pos(Handle) = Handle.size
       /\ call.op = "close" => Handle.size > 0
       /\ call.op # "lseek"
  /\ Walking' => Handle'.sector \in Sectors

\* Such a step keeps PlaceInv ...
LEMMA SteadyPlace ==
  ASSUME SoleUse, Sound, Steady, GoesOn
  PROVE  PlaceInv'
  <1>1. PlaceInv /\ FlowInv
    BY DEF Sound, PosixInv
  <1> QED BY <1>1 DEF Steady, GoesOn, PlaceInv, FlowInv

\* ... and PlainInv ...
LEMMA SteadyPlain ==
  ASSUME SoleUse, Sound, Steady, GoesOn, UNCHANGED dir
  PROVE  PlainInv'
  <1>1. PlainInv
    BY DEF Sound, PosixInv
  <1> QED BY <1>1 DEF Steady, GoesOn, PlainInv, Live

\* ... and StoredInv ...
LEMMA SteadyStored ==
  ASSUME SoleUse, Sound, Steady, GoesOn, UNCHANGED dir, Handle'.entry = Handle.entry,
         "FS_DIRTY" \in Handle.flags => "FS_DIRTY" \in Handle'.flags
  PROVE  StoredInv'
  <1>1. StoredInv
    BY DEF Sound, PosixInv
  <1> QED BY <1>1 DEF Steady, GoesOn, StoredInv, LiveSlots

\* ... and the caller sees nothing of it, when the bytes stay.
LEMMA SteadyHides ==
  ASSUME SoleUse, Sound, Steady, GoesOn, TypeInv', VolumeInv', PlainInv', FlowInv',
         \A p \in 0 .. Handle.size - 1 :
           FileByte(fat', disk', Handle', p) = FileByte(fat, disk, Handle, p)
  PROVE  UNCHANGED Posix!posix
  <1>0. Handle \in FileS /\ Handle.size \in Nat
    BY Sole DEF Sound, TypeInv, FileS
  <1>1. IsOpen(0)'
    BY DEF Steady, IsOpen, Handle
  <1>2. Content' = Content
    <2>1. FileBytes(fat', disk', Handle') = FileBytes(fat, disk, Handle)
      BY <1>0, SameBytes DEF Steady
    <2> QED BY <1>1, <2>1, BytesNow, ContentOpen, ContentOpenNext DEF Sound, PosixInv, Steady
  <1>3. Exists' = Exists
    <2>1. Exists <=> Handle.size > 0
      BY ExistsOpen DEF Sound, PosixInv, Steady
    <2>2. Exists' <=> Handle'.size > 0
      BY <1>1, ExistsOpenNext
    <2>3. Exists \in BOOLEAN /\ Exists' \in BOOLEAN
      BY DEF Exists, IsOpen
    <2> QED BY <2>1, <2>2, <2>3 DEF Steady
  <1>4. Job' = Job
    <2>1. Phase' = Phase
      BY DEF Steady, GoesOn, Phase, Sound, PosixInv, FlowInv
    <2> QED BY <2>1 DEF Job, Steady
  <1> QED BY <1>2, <1>3, <1>4 DEF Posix!posix, Steady

\* What a reader's invariant looks at.
SamePlace(f, g) ==
  /\ f.first = g.first /\ f.cluster = g.cluster /\ f.sector = g.sector
  /\ f.sectors_left = g.sectors_left /\ f.file_sector = g.file_sector
  /\ f.cursor = g.cursor /\ f.size = g.size
  /\ f.flags \ {"DIRTY", "FS_DIRTY"} = g.flags \ {"DIRTY", "FS_DIRTY"}

\* Where a reader stands depends on the place of its handle only.
LEMMA ReaderSame ==
  ASSUME fat' = fat, SamePlace(Handle', Handle)
  PROVE  /\ Walk' = Walk
         /\ \A i : OnCluster(Walk, Handle, i)' <=> OnCluster(Walk, Handle, i)
         /\ AtEnd(Handle)' <=> AtEnd(Handle)
         /\ Pos(Handle)' = Pos(Handle)
         /\ Reading' <=> Reading
         /\ Reading => \A n : RiskySeek(Handle, n)' <=> RiskySeek(Handle, n)
  <1>1. Walk' = Walk
    BY WalksNow DEF Walk, SamePlace
  <1>2. ASSUME NEW i PROVE OnCluster(Walk, Handle, i)' <=> OnCluster(Walk, Handle, i)
    BY <1>1 DEF OnCluster, PlacedAt, SamePlace, SectorOf
  <1>3. AtEnd(Handle)' <=> AtEnd(Handle)
    BY DEF AtEnd, Pos, SamePlace, SectorOf, Bad
  <1>4. Pos(Handle)' = Pos(Handle)
    BY DEF Pos, SamePlace
  <1>5. Reading' <=> Reading
    BY DEF Reading, IsOpen, Handle, SamePlace
  <1>6. ASSUME Reading, NEW n PROVE RiskySeek(Handle, n)' <=> RiskySeek(Handle, n)
    BY <1>4, <1>6 DEF Reading, RiskySeek, SamePlace
  <1> QED BY <1>1, <1>2, <1>3, <1>4, <1>5, <1>6

\* ReaderInv says nothing of a handle that may write.
LEMMA WritersDoNotRead == "WRITE" \in Handle'.flags => ReaderInv'
  BY DEF ReaderInv, Reading

\* One step: the invariant, and a step of PosixFile or none.
Refines == PosixInv' /\ [Posix!Next]_(Posix!posix)

\* A step of the kind above is a stuttering step of PosixFile.
LEMMA SteadyRefines ==
  ASSUME SoleUse, Sound, TypeInv', VolumeInv', Steady, GoesOn, FlowInv', ReaderInv', BufferInv',
         PlainInv', StoredInv',
         \A p \in 0 .. Handle.size - 1 :
           FileByte(fat', disk', Handle', p) = FileByte(fat, disk, Handle, p)
  PROVE  Refines
  BY SteadyHides, SteadyPlace DEF Refines, PosixInv

\* Steps that write nothing and keep the handle.
LEMMA CallMoves ==
  ASSUME SoleUse, Sound, TypeInv', VolumeInv', Steady, GoesOn, FlowInv', ReaderInv',
         Handle' = Handle, NoWrite, Walking => Walking'
  PROVE  Refines
  <1>1. PlainInv' /\ StoredInv'
    BY SteadyPlain, SteadyStored DEF NoWrite
  <1>2. BufferInv'
    BY DEF Sound, PosixInv, BufferInv, NoWrite, Steady, IsOpen, Handle
  <1>3. \A p \in 0 .. Handle.size - 1 :
           FileByte(fat', disk', Handle', p) = FileByte(fat, disk, Handle, p)
    BY DEF NoWrite
  <1> QED BY <1>1, <1>2, <1>3, SteadyRefines

-----------------------------------------------------------------------------
(* fat_flush. *)

\* Where fat_flush returns to when it has written the buffer, or has nothing to
\* write.
FlushTo == IF call.flush = "close" THEN "closing" ELSE call.flush

\* fat_flush returns to its caller.
LEMMA FlushReturn ==
  ASSUME SoleUse, Sound, Flushing
  PROVE  /\ FlushTo \in {"sector", "next", "seek", "closing"}
         /\ AfterFlush(TRUE) = FlushTo
         /\ call.flush \in {"sector", "next", "seek", "close"}
         /\ call.op \in {"read", "write", "lseek", "close"}
         /\ call.flush = "close" <=> call.op = "close"
         /\ FlushTo = "sector" => Handle.cursor = SectorSize
         /\ FlushTo = "next" => call.seeking /\ call.next = "walk"
         /\ FlushTo \in {"sector", "next", "seek"} => call.op \in {"read", "write", "lseek"}
         /\ FlushTo = "closing" => call.op = "close"
         /\ IsOpen(0)
  <1>1. call \in Calls /\ Cur = Handle /\ call.fd = 0
    BY Sole DEF Sound, TypeInv
  <1>2. /\ call.flush # "none" /\ (call.flush = "close" <=> call.op = "close")
        /\ call.flush = "sector" => Handle.cursor = SectorSize
    BY DEF Sound, PosixInv, FlowInv
  <1>3. call.flush \in {"sector", "next", "seek", "close"}
    BY <1>1, <1>2 DEF Calls
  <1>4. /\ call.op \in {"read", "write", "lseek", "close"}
        /\ IsOpen(0)
    <2>1. pc # "idle" /\ pc \notin FreeLabels \cup {"idle", "done"}
      BY DEF Flushing, FreeLabels
    <2>2. call.op \notin {"none", "open", "unlink"}
      BY <2>1 DEF Sound, VolumeInv, CallInv
    <2>3. call.op \in {"read", "write", "lseek", "close"}
      BY <1>1, <2>2 DEF Calls
    <2> QED BY <1>1, <2>1, <2>2, <2>3 DEF Sound, VolumeInv, CallInv
  <1>5. call.flush = "next" => call.seeking /\ call.next = "walk"
    BY DEF Sound, ChainInv, AccessInv, Flushing
  <1>6. AfterFlush(TRUE) = FlushTo
    BY <1>3 DEF AfterFlush, FlushTo
  <1> QED BY <1>2, <1>3, <1>4, <1>5, <1>6 DEF FlushTo

\* fat_flush of a clean buffer.
LEMMA FlushCleanRefines ==
  ASSUME SoleUse, Sound, TypeInv', VolumeInv', FlushClean
  PROVE  Refines
  <1>1. /\ pc = "flush" /\ pc' = FlushTo /\ call' = call /\ Handle' = Handle
        /\ "DIRTY" \notin Handle.flags /\ NoWrite /\ UNCHANGED <<read_only, ret, fat>>
    BY FlushReturn, Sole DEF FlushClean, Handle, Flushing, Sound, TypeInv, Quiet, NoWrite
  <1>2. FlowInv /\ Flushing
    BY <1>1 DEF Sound, PosixInv, Flushing
  <1>3. /\ FlushTo \in {"sector", "next", "seek", "closing"}
        /\ call.op \in {"read", "write", "lseek", "close"}
        /\ FlushTo = "sector" => Handle.cursor = SectorSize
        /\ FlushTo = "next" => call.seeking /\ call.next = "walk"
        /\ FlushTo \in {"sector", "next", "seek"} => call.op \in {"read", "write", "lseek"}
        /\ FlushTo = "closing" => call.op = "close" /\ call.flush = "close"
        /\ FlushTo # "closing" => call.flush = FlushTo
        /\ IsOpen(0)
    BY <1>2, FlushReturn DEF FlushTo
  <1>4. FlowInv'
    BY <1>1, <1>2, <1>3 DEF FlowInv, Flushing, Hopping, Closing, Loading, Linked, Crossing, Walking
  <1>5. Walking <=> Walking'
    BY <1>1, <1>3 DEF Walking
  <1>6. Steady /\ GoesOn
    <2>1. Walking => Handle.sector \in Sectors
      BY DEF Sound, PosixInv, PlaceInv
    <2> QED BY <1>1, <1>3, <1>5, <2>1 DEF Steady, GoesOn
  <1>7. ReaderInv'
    <2>0. ReaderInv
      BY DEF Sound, PosixInv
    <2>1. SamePlace(Handle', Handle)
      BY <1>1 DEF SamePlace
    <2>2. /\ Walk' = Walk
          /\ \A i : OnCluster(Walk, Handle, i)' <=> OnCluster(Walk, Handle, i)
          /\ AtEnd(Handle)' <=> AtEnd(Handle)
          /\ Pos(Handle)' = Pos(Handle)
          /\ Reading' <=> Reading
          /\ Reading => \A n : RiskySeek(Handle, n)' <=> RiskySeek(Handle, n)
      BY <1>1, <2>1, ReaderSame
    <2>3. call.seeking => pc' # "closing"
      BY <1>1, <1>3 DEF Sound, ChainInv, AccessInv
    <2> QED BY <1>1, <1>3, <1>5, <2>0, <2>2, <2>3
            DEF ReaderInv, Flushing, Loading, Linked, Crossing, Walking
  <1> QED BY <1>1, <1>4, <1>5, <1>6, <1>7, CallMoves

\* No block operation fails.
LEMMA NoFault == ASSUME SoleUse, NEW op PROVE ~Fault(op)
  BY DEF SoleUse, Fault

\* A flush that has something to write, before and after the file has clusters.
LEMMA DirtyFlushing ==
  ASSUME SoleUse, Sound, Flushing, "DIRTY" \in Handle.flags
  PROVE  /\ "WRITE" \in Handle.flags /\ Handle.size > 0 /\ IsOpen(0) /\ call.flush # "next"
         /\ pc = "data" => Handle.first # 0
         /\ Handle.first = 0 <=> Handle.sector = 0
  <1>1. 0 \in Handles /\ Handle \in FileS /\ Cur = Handle
    BY Sole DEF Sound, TypeInv
  <1>2. "WRITE" \in Handle.flags
    BY <1>1 DEF Sound, ChainInv, AccessInv, FlagsInv, Handle
  <1>3. Handle.size > 0
    BY DEF Sound, PosixInv, PlainInv
  <1>4. IsOpen(0)
    BY FlushReturn
  <1>5. Handle.first = 0 <=> Handle.sector = 0
    BY <1>4, HandleSector, NoClusters DEF Unstored
  <1>6. pc = "data" => Handle.first # 0
    BY <1>1 DEF Sound, VolumeInv, CallInv, NeedsStored
  <1>7. call.flush # "next"
    <2> SUFFICES ASSUME call.flush = "next" PROVE FALSE
      OBVIOUS
    <2>1. WriterSeeks
      BY <1>1, <1>2 DEF WriterSeeks, Sound, ChainInv, AccessInv, Flushing
    <2>2. SeekFlushing
      BY <1>1, <2>1 DEF Sound, ChainInv, RankInv, SeekerInv
    <2> QED BY <2>2 DEF SeekFlushing
  <1> QED BY <1>2, <1>3, <1>4, <1>5, <1>6, <1>7

\* A volume without room: only a write or a close of a file in its buffer fails.
LEMMA FlushNoSpaceRefines ==
  ASSUME SoleUse, Sound, TypeInv', VolumeInv', FlushNoSpace
  PROVE  Refines
  <1>1. /\ pc = "flush" /\ "DIRTY" \in Handle.flags /\ Handle.sector = 0 /\ VolumeFull
        /\ call' = call /\ Handle' = Handle /\ NoWrite /\ UNCHANGED <<read_only, ret, fat>>
        /\ pc' = AfterFlush(FALSE)
    BY Sole, NoFault DEF FlushNoSpace, Handle, Sound, TypeInv, Quiet, NoWrite
  <1>2. FlowInv /\ PlaceInv /\ Flushing
    BY <1>1 DEF Sound, PosixInv, Flushing
  <1>3. /\ "WRITE" \in Handle.flags /\ Handle.size > 0 /\ IsOpen(0) /\ call.flush # "next"
        /\ Handle.first = 0
    BY <1>1, <1>2, DirtyFlushing
  <1>4. /\ call.flush \in {"sector", "seek", "close"}
        /\ call.op \in {"read", "write", "lseek", "close"}
        /\ call.flush = "close" <=> call.op = "close"
    BY <1>2, <1>3, FlushReturn
  <1>5. Cur = Handle
    BY Sole DEF Sound, TypeInv
  <1>6. call.flush # "seek"
    <2> SUFFICES ASSUME call.flush = "seek" PROVE FALSE
      OBVIOUS
    <2>1. \E c \in FatIndex : fat[c] = 0
      BY <1>1, <1>3, <1>5 DEF Sound, VolumeInv, SeekInv
    <2> QED BY <1>1, <2>1 DEF VolumeFull
  <1>7. call.flush = "sector" => ~call.seeking /\ call.op = "write" /\ Pos(Handle) = Handle.size
    <2> SUFFICES ASSUME call.flush = "sector"
                 PROVE  ~call.seeking /\ call.op = "write" /\ Pos(Handle) = Handle.size
      OBVIOUS
    <2>1. ~call.seeking
      BY <1>1, <1>3, <1>5 DEF Sound, VolumeInv, CallInv, NeedsStored
    <2>2. Handle.cursor = SectorSize
      BY <1>2, FlushReturn DEF FlushTo
    <2>3. /\ Handle.size <= SectorSize /\ Pos(Handle) = Handle.cursor /\ Handle.cursor <= Handle.size
          /\ Handle.size \in Nat /\ SectorSize \in Nat
      BY <1>3, NoClusters, Sole, GeometryAssumption DEF Sound, TypeInv, FileS
    <2>4. Pos(Handle) = Handle.size
      BY <2>2, <2>3
    <2>5. call.op # "read"
      BY <1>1, <1>2, <2>3, <2>4 DEF PlaceInv
    <2>6. call.op # "lseek"
      BY <1>1, <1>2, <2>1 DEF FlowInv
    <2> QED BY <1>4, <2>1, <2>4, <2>5, <2>6
  <1>8. pc' = "fail" /\ call.op \in {"write", "close"}
    BY <1>1, <1>4, <1>6, <1>7 DEF AfterFlush, AfterSector
  <1>9. FlowInv'
    BY <1>1, <1>2, <1>8 DEF FlowInv, Flushing, Hopping, Closing, Loading, Linked, Crossing, Walking
  <1>10. ~Walking /\ ~Walking'
    BY <1>1, <1>3, <1>8 DEF Walking
  <1>11. Steady /\ GoesOn
    BY <1>1, <1>3, <1>4, <1>6, <1>7, <1>8, <1>10 DEF Steady, GoesOn
  <1>12. ReaderInv'
    BY <1>1, <1>3, WritersDoNotRead
  <1> QED BY <1>1, <1>9, <1>10, <1>11, <1>12, CallMoves

\* The first cluster of a file: its bytes stay in the buffer.
LEMMA FlushAllocateRefines ==
  ASSUME SoleUse, Sound, TypeInv', VolumeInv', NEW k \in FatIndex, FlushAllocate(k)
  PROVE  Refines
  <1>0. /\ TypeOK /\ Handle \in FileS /\ Cur = Handle /\ k \in Clusters
    BY Sole, FreeIsCluster DEF Sound, TypeInv, VolumeInv, FlushAllocate
  <1>1. /\ pc = "flush" /\ "DIRTY" \in Handle.flags /\ Handle.sector = 0
        /\ call' = call /\ UNCHANGED <<read_only, ret, dir, disk>> /\ pc' = "data"
        /\ Handle' = [Handle EXCEPT !.first = k, !.cluster = k, !.sector = SectorOf(k),
                                    !.sectors_left = SectorsPerCluster - 1,
                                    !.flags = @ \cup {"FS_DIRTY"}]
    BY <1>0, Sole, Markers DEF FlushAllocate, Sound, TypeInv, Quiet
  <1>2. FlowInv /\ Flushing
    BY <1>1 DEF Sound, PosixInv, Flushing
  <1>3. "WRITE" \in Handle.flags /\ IsOpen(0) /\ call.flush # "next" /\ Handle.first = 0
    BY <1>1, <1>2, DirtyFlushing
  <1>4. call.op \in {"read", "write", "lseek", "close"}
    BY <1>2, FlushReturn
  <1>5. /\ Handle'.flags = Handle.flags \cup {"FS_DIRTY"} /\ Handle'.first = k
        /\ Handle'.ro = Handle.ro /\ Handle'.size = Handle.size /\ Handle'.entry = Handle.entry
        /\ Handle'.cursor = Handle.cursor /\ Handle'.file_sector = Handle.file_sector
        /\ Handle'.buffer = Handle.buffer
    BY <1>0, <1>1 DEF FileS
  <1>6. Pos(Handle') = Pos(Handle)
    BY <1>5 DEF Pos
  <1>7. FlowInv'
    BY <1>1, <1>2, <1>5 DEF FlowInv, Flushing, Hopping, Closing, Loading, Linked, Crossing, Walking
  <1>8. ~Walking'
    BY <1>1 DEF Walking
  <1>9. Steady /\ GoesOn
    BY <1>1, <1>3, <1>4, <1>5, <1>6, <1>8 DEF Steady, GoesOn
  <1>10. ReaderInv' /\ BufferInv'
    BY <1>1, <1>3, <1>5, WritersDoNotRead DEF BufferInv
  <1>11. PlainInv' /\ StoredInv'
    BY <1>1, <1>5, <1>9, SteadyPlain, SteadyStored
  <1>12. ASSUME NEW p \in 0 .. Handle.size - 1
         PROVE  FileByte(fat', disk', Handle', p) = FileByte(fat, disk, Handle, p)
    <2>1. Handle.size \in Nat /\ SectorSize \in Nat \ {0} /\ Handle.size <= SectorSize
            /\ Handle.file_sector = 0
      BY <1>0, <1>3, NoClusters, GeometryAssumption DEF FileS, Unstored
    <2>2. PICK b \in Nat \ {0}, q \in Nat : b = SectorSize /\ q = p /\ q < b
      BY <2>1
    <2>3. q \div b = 0
      BY <2>2
    <2>4. p \div SectorSize = Handle.file_sector
      BY <2>1, <2>2, <2>3, Zenon
    <2> QED BY <1>1, <1>5, <2>4 DEF FileByte
  <1> QED BY <1>7, <1>9, <1>10, <1>11, <1>12, SteadyRefines

\* The buffer is written to the sector it was read from or is meant for.
LEMMA WrittenBack ==
  ASSUME SoleUse, Sound, IsOpen(0), ~Walking, "DIRTY" \in Handle.flags, Handle.first # 0,
         "WRITE" \in Handle.flags,
         disk' = [disk EXCEPT ![Handle.sector] = Handle.buffer], fat' = fat,
         Handle'.size = Handle.size, Handle'.first = Handle.first, "DIRTY" \notin Handle'.flags,
         NEW p \in 0 .. Handle.size - 1
  PROVE  FileByte(fat', disk', Handle', p) = FileByte(fat, disk, Handle, p)
  <1>0. Handle \in FileS /\ disk \in [Sectors -> Block] /\ p \in Nat
    BY Sole, ByteOnDisk DEF Sound, TypeInv, TypeOK
  <1>1. PICK i \in 0 .. LastCluster : OnCluster(Walk, Handle, i)
    BY Spot
  <1>2. Handle.sector \in Sectors
    BY HandleSector
  <1>3. FileByte(fat', disk', Handle', p) = ByteIn(fat, disk', Handle.first, p)
    BY DEF FileByte
  <1>4. CASE p \div SectorSize = Handle.file_sector
    <2>1. /\ p \div ClusterBytes = i
          /\ SectorOf(Handle.cluster) + (p % ClusterBytes) \div SectorSize = Handle.sector
      BY <1>0, <1>1, <1>4, SpotBytes
    <2>2. ByteIn(fat, disk', Handle.first, p) = disk'[Handle.sector][p % SectorSize]
      BY <1>1, <2>1, ByteOnDisk DEF OnCluster
    <2>3. disk'[Handle.sector] = Handle.buffer
      BY <1>0, <1>2
    <2> QED BY <1>3, <1>4, <2>2, <2>3 DEF FileByte
  <1>5. CASE p \div SectorSize # Handle.file_sector
    <2>1. \A s \in Sectors : s # Handle.sector => disk'[s] = disk[s]
      BY <1>0
    <2>2. ByteIn(fat, disk', Handle.first, p) = ByteIn(fat, disk, Handle.first, p)
      BY <1>1, <1>5, <2>1, OtherBytes
    <2> QED BY <1>3, <1>5, <2>2 DEF FileByte
  <1> QED BY <1>4, <1>5

\* The buffer written back: the bytes move to the disk.
LEMMA FlushWriteRefines ==
  ASSUME SoleUse, Sound, TypeInv', VolumeInv', FlushWrite
  PROVE  Refines
  <1>0. /\ TypeOK /\ Handle \in FileS /\ Cur = Handle /\ call \in Calls
    BY Sole DEF Sound, TypeInv
  <1>1. /\ pc \in {"flush", "data"} /\ "DIRTY" \in Handle.flags /\ Handle.sector \in Sectors
        /\ UNCHANGED <<read_only, ret, dir, fat>>
        /\ disk' = [disk EXCEPT ![Handle.sector] = Handle.buffer]
        /\ Handle' = [Handle EXCEPT !.flags = @ \ {"DIRTY"}]
        /\ \/ pc = "data" /\ pc' = "info" /\ call' = [call EXCEPT !.info = "flush"]
           \/ pc = "flush" /\ pc' = AfterFlush(TRUE) /\ call' = call
    BY <1>0, Sole DEF FlushWrite, Sound, ChainInv, AccessInv, Quiet
  <1>2. FlowInv /\ Flushing
    BY <1>1 DEF Sound, PosixInv, Flushing
  <1>3. /\ "WRITE" \in Handle.flags /\ IsOpen(0) /\ call.flush # "next" /\ Handle.first # 0
    BY <1>1, <1>2, DirtyFlushing DEF Sectors
  <1>4. /\ FlushTo \in {"sector", "seek", "closing"} /\ AfterFlush(TRUE) = FlushTo
        /\ call.op \in {"read", "write", "lseek", "close"}
        /\ FlushTo = "sector" => Handle.cursor = SectorSize
        /\ FlushTo = "sector" => call.op \in {"read", "write", "lseek"}
        /\ FlushTo = "closing" <=> call.op = "close"
        /\ call.flush # "none"
        /\ call.flush = "close" <=> call.op = "close"
        /\ call.flush = "sector" => Handle.cursor = SectorSize
    BY <1>2, <1>3, FlushReturn DEF FlushTo
  <1>5. /\ Handle'.flags = Handle.flags \ {"DIRTY"} /\ Handle'.first = Handle.first
        /\ Handle'.ro = Handle.ro /\ Handle'.size = Handle.size /\ Handle'.entry = Handle.entry
        /\ Handle'.cursor = Handle.cursor /\ Handle'.file_sector = Handle.file_sector
        /\ Handle'.buffer = Handle.buffer /\ Handle'.sector = Handle.sector
    BY <1>0, <1>1 DEF FileS
  <1>6. Pos(Handle') = Pos(Handle)
    BY <1>5 DEF Pos
  <1>7. /\ call'.op = call.op /\ call'.seeking = call.seeking /\ call'.todo = call.todo
        /\ call'.n = call.n /\ call'.got = call.got /\ call'.new = call.new
        /\ call'.flush = call.flush
        /\ pc = "data" => call'.info = "flush"
    BY <1>0, <1>1 DEF Calls
  <1>8. \/ pc = "data" /\ pc' = "info"
        \/ pc = "flush" /\ pc' = FlushTo
    BY <1>1, <1>4
  <1>9. FlowInv'
    BY <1>2, <1>3, <1>4, <1>5, <1>7, <1>8
       DEF FlowInv, Flushing, Hopping, Closing, Loading, Linked, Crossing, Walking
  <1>10. ~Walking /\ ~Walking'
    BY <1>1, <1>3, <1>4, <1>7, <1>8 DEF Walking
  <1>11. Steady /\ GoesOn
    BY <1>1, <1>3, <1>4, <1>5, <1>6, <1>7, <1>8, <1>10 DEF Steady, GoesOn
  <1>12. ReaderInv'
    BY <1>3, <1>5, WritersDoNotRead
  <1>13. BufferInv'
    BY <1>0, <1>1, <1>5 DEF BufferInv, TypeOK
  <1>14. PlainInv' /\ StoredInv'
    BY <1>1, <1>5, <1>11, SteadyPlain, SteadyStored
  <1>15. \A p \in 0 .. Handle.size - 1 :
           FileByte(fat', disk', Handle', p) = FileByte(fat, disk, Handle, p)
    BY <1>1, <1>3, <1>5, <1>10, WrittenBack
  <1> QED BY <1>9, <1>11, <1>12, <1>13, <1>14, <1>15, SteadyRefines

\* The sector of a handle with something to write is on the device.
LEMMA FlushWriteSucceeds ==
  ASSUME SoleUse, Sound
  PROVE  ~FlushWriteFails
  <1> SUFFICES ASSUME FlushWriteFails PROVE FALSE
    OBVIOUS
  <1>1. /\ pc \in {"flush", "data"} /\ "DIRTY" \in Handle.flags /\ Handle.sector \notin Sectors
        /\ pc = "data" \/ Handle.sector # 0
    BY Sole, NoFault DEF FlushWriteFails, Sound, TypeInv, ChainInv, AccessInv
  <1>2. IsOpen(0) /\ Handle.first # 0
    BY <1>1, DirtyFlushing DEF Flushing
  <1> QED BY <1>1, <1>2, HandleSector

\* Every step of fat_flush.
LEMMA FlushRefines ==
  ASSUME SoleUse, Sound, TypeInv', VolumeInv', FlushStep
  PROVE  Refines
  BY FlushCleanRefines, FlushNoSpaceRefines, FlushWriteRefines, FlushWriteSucceeds,
     FlushAllocateRefines DEF FlushStep

-----------------------------------------------------------------------------
(* fat_flush_fileinfo. *)

\* fat_flush_fileinfo with nothing to save.
LEMMA InfoSkipRefines ==
  ASSUME SoleUse, Sound, TypeInv', VolumeInv', InfoSkip
  PROVE  Refines
  <1>0. /\ TypeOK /\ Handle \in FileS /\ Cur = Handle /\ call \in Calls /\ 0 \in Handles
        /\ call.fd = 0
    BY Sole DEF Sound, TypeInv
  <1>1. /\ pc = "info" /\ NothingToSave(Handle) /\ pc' = AfterInfo(TRUE)
        /\ call' = call /\ Handle' = Handle /\ NoWrite /\ UNCHANGED <<read_only, ret, fat>>
    BY <1>0 DEF InfoSkip, Handle, Quiet, NoWrite
  <1>2. IsOpen(0) /\ (call.info # "close" => Handle.first # 0)
    BY <1>0, <1>1, AtInfo DEF Sound
  <1>3. Handle.first = 0
    BY <1>0, <1>1, <1>2 DEF Sound, SpaceInv, SavedInv, NothingToSave, Handle
  <1>4. FlowInv
    BY DEF Sound, PosixInv
  <1>5. call.info = "close" /\ call.op = "close" /\ pc' = "done" /\ "DIRTY" \notin Handle.flags
    BY <1>1, <1>2, <1>3, <1>4 DEF AfterInfo, FlowInv, Closing
  <1>6. FlowInv'
    BY <1>1, <1>4, <1>5 DEF FlowInv, Flushing, Hopping, Closing, Loading, Linked, Crossing, Walking
  <1>7. ~Walking /\ ~Walking'
    BY <1>1, <1>5 DEF Walking
  <1>8. Steady /\ GoesOn
    BY <1>1, <1>2, <1>3, <1>5, <1>7 DEF Steady, GoesOn
  <1>9. ReaderInv'
    BY <1>1, <1>3 DEF ReaderInv, Reading
  <1> QED BY <1>1, <1>6, <1>7, <1>8, <1>9, CallMoves

\* The directory entry written: it gets the size of the file.
LEMMA InfoWriteRefines ==
  ASSUME SoleUse, Sound, TypeInv', VolumeInv', NEW s \in Slots, InfoWrite(s)
  PROVE  Refines
  <1>0. /\ TypeOK /\ Handle \in FileS /\ Cur = Handle /\ call \in Calls /\ 0 \in Handles
        /\ call.fd = 0
    BY Sole DEF Sound, TypeInv
  <1>1. pc = "info" /\ IsOpen(0) /\ Handle.first # 0
    BY <1>0, AtInfo DEF InfoWrite, NothingToSave, Sound
  <1>2. Handle.sector \in Sectors
    BY <1>1, HandleSector
  <1>3. /\ pc' = AfterInfo(TRUE) /\ call' = call /\ UNCHANGED <<read_only, ret, fat, disk>>
        /\ dir' = [dir EXCEPT ![s] = EntryOf(Handle)]
        /\ Handle' = [Handle EXCEPT !.entry = s, !.buffer = disk[Handle.sector],
                                    !.flags = @ \ {"FS_DIRTY"}]
    BY <1>0, <1>2, Sole, NoFault DEF InfoWrite, Saved, Quiet, Sound, TypeInv
  <1>4. FlowInv /\ "DIRTY" \notin Handle.flags /\ call.info \in {"flush", "next", "close"}
    BY <1>0, <1>1 DEF Sound, PosixInv, FlowInv, Calls
  <1>5. /\ Handle'.flags = Handle.flags \ {"FS_DIRTY"} /\ Handle'.first = Handle.first
        /\ Handle'.ro = Handle.ro /\ Handle'.size = Handle.size /\ Handle'.entry = s
        /\ Handle'.cursor = Handle.cursor /\ Handle'.file_sector = Handle.file_sector
        /\ Handle'.buffer = disk[Handle.sector] /\ Handle'.sector = Handle.sector
    BY <1>0, <1>3 DEF FileS
  <1>6. Pos(Handle') = Pos(Handle)
    BY <1>5 DEF Pos
  <1>7. call.res # Bad \/ call.info # "next"
    BY <1>0, <1>1, AtInfo, Markers DEF Sound
  <1>8. \/ call.info = "flush" /\ pc' = FlushTo /\ FlushTo \in {"sector", "next", "seek", "closing"}
        \/ call.info = "next" /\ call.next = "walk" /\ pc' = "walked"
        \/ call.info = "next" /\ call.next # "walk" /\ pc' = "select"
        \/ call.info = "close" /\ pc' = "done"
    <2>1. call.info = "flush" => AfterFlush(TRUE) = FlushTo /\ FlushTo \in {"sector", "next", "seek", "closing"}
      BY <1>1, FlushReturn DEF Flushing
    <2> QED BY <1>3, <1>4, <1>7, <2>1 DEF AfterInfo, AfterNext
  <1>9. /\ call.info = "flush" => 
             /\ FlushTo = "sector" => Handle.cursor = SectorSize
             /\ FlushTo = "next" => call.seeking /\ call.next = "walk"
             /\ FlushTo \in {"sector", "next", "seek"} => call.op \in {"read", "write", "lseek"}
             /\ FlushTo = "closing" => call.op = "close"
        /\ call.info = "close" => call.op = "close"
        /\ call.op # "unlink"
    <2>1. call.info = "flush" => Flushing
      BY <1>1 DEF Flushing
    <2>2. call.op # "unlink"
      BY <1>0, <1>1, AtInfo DEF Sound
    <2> QED BY <1>1, <1>4, <2>1, <2>2, FlushReturn DEF FlowInv, Closing
  <1>10. FlowInv'
    BY <1>1, <1>3, <1>4, <1>5, <1>8, <1>9
       DEF FlowInv, Flushing, Hopping, Closing, Loading, Linked, Crossing, Walking
  <1>11. Steady
    BY <1>1, <1>3, <1>5, <1>6 DEF Steady
  <1>12. GoesOn
    BY <1>1, <1>2, <1>3, <1>4, <1>5, <1>8, <1>9 DEF GoesOn
  <1>13. ReaderInv'
    <2>1. CASE "WRITE" \in Handle.flags
      BY <1>5, <2>1, WritersDoNotRead
    <2>2. CASE "WRITE" \notin Handle.flags
      <3>0. call.info = "close" /\ pc' = "done" /\ ~call.seeking
        <4>1. call.info = "close"
          BY <1>1, <1>4, <2>2 DEF FlowInv
        <4>2. ~call.seeking
          BY <1>1, <4>1 DEF Sound, ChainInv, AccessInv
        <4> QED BY <1>8, <4>1, <4>2
      <3>1. SamePlace(Handle', Handle)
        BY <1>0, <1>3 DEF SamePlace, FileS
      <3>2. /\ \A i : OnCluster(Walk, Handle, i)' <=> OnCluster(Walk, Handle, i)
            /\ AtEnd(Handle)' <=> AtEnd(Handle)
            /\ Reading' <=> Reading
        BY <1>3, <3>1, ReaderSame
      <3>3. ReaderInv /\ ~Walking /\ ~Walking' /\ ~Crossing' /\ call'.seeking = FALSE
        BY <1>0, <1>1, <1>3, <3>0 DEF Sound, PosixInv, Walking, Crossing, Linked, Calls
      <3> QED BY <3>0, <3>2, <3>3 DEF ReaderInv
    <2> QED BY <2>1, <2>2
  <1>14. BufferInv'
    BY <1>3, <1>5 DEF BufferInv
  <1>15. dir' = [dir EXCEPT ![s] = EntryOf(Handle)] /\ dir \in [Slots -> DirEntry]
    BY <1>0, <1>3 DEF TypeOK
  <1>16. PlainInv'
    <2>1. PlainInv /\ Handle.name \in Names /\ Handle.size > 0 /\ ~Handle.ro
      BY <1>0, <1>1 DEF Sound, PosixInv, PlainInv, VolumeInv, HandleInv, FilesInv, Handle
    <2> QED BY <1>11, <1>12, <1>15, <2>1 DEF PlainInv, Steady, GoesOn, Live, EntryOf
  <1>17. StoredInv'
    <2>1. dir'[s].size = Handle.size
      BY <1>15 DEF EntryOf
    <2> QED BY <1>5, <1>9, <1>11, <1>12, <2>1 DEF StoredInv, Steady, GoesOn
  <1>18. \A p \in 0 .. Handle.size - 1 :
           FileByte(fat', disk', Handle', p) = FileByte(fat, disk, Handle, p)
    BY <1>3, <1>4, <1>5 DEF FileByte
  <1> QED BY <1>10, <1>11, <1>12, <1>13, <1>14, <1>16, <1>17, <1>18, SteadyRefines

\* No slot for the entry: the call never returns.
LEMMA InfoLostRefines ==
  ASSUME SoleUse, Sound, TypeInv', VolumeInv', InfoLost
  PROVE  Refines
  <1>0. Cur = Handle /\ call.fd = 0 /\ TypeOK
    BY Sole DEF Sound, TypeInv
  <1>1. /\ pc = "info" /\ ~NothingToSave(Handle) /\ Handle.entry = 0 /\ pc' = "lost"
        /\ call' = call /\ Handle' = Handle /\ NoWrite /\ UNCHANGED <<read_only, ret, fat>>
    BY <1>0 DEF InfoLost, Handle, Quiet, NoWrite
  <1>2. IsOpen(0) /\ "WRITE" \in Handle.flags /\ Handle.first # 0
    BY <1>0, <1>1, AtInfo DEF Sound, NothingToSave
  <1>3. FlowInv /\ call.op # "unlink"
    BY <1>0, <1>1, AtInfo DEF Sound, PosixInv
  <1>4. FlowInv'
    BY <1>1, <1>3 DEF FlowInv, Flushing, Hopping, Closing, Loading, Linked, Crossing, Walking
  <1>5. Walking'
    BY <1>1 DEF Walking
  <1>6. Steady /\ GoesOn
    BY <1>1, <1>2, <1>3, HandleSector DEF Steady, GoesOn
  <1>7. ReaderInv'
    BY <1>1, <1>2, WritersDoNotRead
  <1> QED BY <1>1, <1>4, <1>5, <1>6, <1>7, CallMoves

\* Every step of fat_flush_fileinfo.
LEMMA InfoRefines ==
  ASSUME SoleUse, Sound, TypeInv', VolumeInv', InfoStep
  PROVE  Refines
  <1>1. ~InfoUnreadable /\ SafeUse
    BY NoFault DEF InfoUnreadable, SoleUse
  <1> QED BY <1>1, InfoSkipRefines, InfoWriteRefines, InfoLostRefines, DirectoryWorks
          DEF InfoStep

-----------------------------------------------------------------------------
(* fat_next_sector and fat_next_cluster. *)

\* What they know of the handle.
LEMMA AtHop ==
  ASSUME SoleUse, Sound, Hopping
  PROVE  /\ IsOpen(0) /\ Handle.first # 0 /\ "DIRTY" \notin Handle.flags
         /\ call.op \in {"read", "write", "lseek"}
         /\ call.op = "lseek" => call.seeking
         /\ ~Walking => Handle.cursor = SectorSize
                          /\ \E i \in 0 .. LastCluster : OnCluster(Walk, Handle, i)
  <1>0. Cur = Handle /\ call.fd = 0 /\ Handle \in FileS /\ SectorSize \in Nat \ {0}
    BY Sole, GeometryAssumption DEF Sound, TypeInv
  <1>1. FlowInv
    BY DEF Sound, PosixInv
  <1>2. pc \notin {"idle", "done", "fail"} /\ pc \notin FreeLabels /\ NeedsStored
    BY DEF Hopping, Linked, FreeLabels, NeedsStored
  <1>3. IsOpen(0) /\ Handle.first # 0
    BY <1>0, <1>2 DEF Sound, VolumeInv, CallInv
  <1>4. /\ "DIRTY" \notin Handle.flags /\ call.op \in {"read", "write", "lseek"}
        /\ call.op = "lseek" => call.seeking
    BY <1>1, <1>2 DEF FlowInv, Hopping, Linked
  <1>5. ASSUME ~Walking
        PROVE  Handle.cursor = SectorSize /\ \E i \in 0 .. LastCluster : OnCluster(Walk, Handle, i)
    <2>1. Loading
      BY <1>5 DEF Hopping, Loading, Crossing, Linked
    <2>2. Handle.cursor = SectorSize
      BY <1>1, <2>1 DEF FlowInv
    <2>3. ~AtEnd(Handle)
      BY <1>0, <2>2 DEF AtEnd
    <2> QED BY <1>3, <1>5, <2>2, <2>3, Spot
  <1> QED BY <1>3, <1>4, <1>5

\* The next sector of the file has been read.
LEMMA SectorArrives ==
  ASSUME SoleUse, Sound, TypeInv', VolumeInv', pc \in {"sector", "select"},
         UNCHANGED <<fat, dir, disk, read_only, ret, call>>, pc' = AfterSector(TRUE),
         Handle'.first = Handle.first, Handle'.size = Handle.size, Handle'.flags = Handle.flags,
         Handle'.ro = Handle.ro, Handle'.entry = Handle.entry, Handle'.cursor = 0,
         Handle'.file_sector = Handle.file_sector + 1, Handle'.buffer = disk[Handle'.sector],
         NEW i \in 0 .. LastCluster, OnCluster(Walk, Handle', i)
  PROVE  Refines
  <1>0. Handle \in FileS /\ SectorSize \in Nat \ {0} /\ ~Walking
    BY Sole, GeometryAssumption DEF Sound, TypeInv, Walking
  <1>1. /\ IsOpen(0) /\ Handle.first # 0 /\ "DIRTY" \notin Handle.flags
        /\ call.op \in {"read", "write", "lseek"} /\ (call.op = "lseek" => call.seeking)
        /\ Handle.cursor = SectorSize
    BY <1>0, AtHop DEF Hopping, Linked
  <1>2. Pos(Handle') = Pos(Handle)
    <2> DEFINE n == Handle.file_sector
               b == SectorSize
    <2>1. n \in Nat /\ b \in Nat
      BY <1>0 DEF FileS
    <2>2. Pos(Handle') = (n + 1) * b + 0 /\ Pos(Handle) = n * b + b
      BY <1>1 DEF Pos
    <2> HIDE DEF n, b
    <2>3. (n + 1) * b + 0 = n * b + b
      BY <2>1
    <2> QED BY <2>2, <2>3
  <1>3. pc' \in {"case", "byte"} /\ (pc' = "case" <=> call.seeking)
    BY DEF AfterSector
  <1>4. FlowInv'
    <2>1. FlowInv
      BY DEF Sound, PosixInv
    <2> QED BY <1>1, <1>3, <2>1
            DEF FlowInv, Flushing, Hopping, Closing, Loading, Linked, Crossing, Walking
  <1>5. Steady /\ GoesOn
    BY <1>1, <1>2, <1>3 DEF Steady, GoesOn, Walking
  <1>6. ReaderInv'
    <2>1. Walk' = Walk
      BY WalksNow DEF Walk
    <2>2. OnCluster(Walk, Handle, i)'
      BY <2>1 DEF OnCluster, PlacedAt, SectorOf
    <2>3. ~Walking' /\ ~Crossing' /\ pc' # "select"
      BY <1>3 DEF Walking, Crossing, Linked
    <2>4. ASSUME Reading', pc' = "case"
          PROVE  call.new <= Handle.size /\ Pos(Handle) = call.old /\ Handle'.cursor < SectorSize
      <3>1. Reading /\ call.seeking /\ Loading
        BY <1>0, <1>1, <1>3, <2>4 DEF Reading, Loading, Crossing, Linked
      <3> QED BY <1>0, <3>1 DEF Sound, PosixInv, ReaderInv
    <2> QED BY <1>2, <1>3, <2>2, <2>3, <2>4 DEF ReaderInv, Flushing, Loading
  <1>7. BufferInv'
    BY DEF BufferInv
  <1>8. PlainInv' /\ StoredInv'
    BY <1>5, SteadyPlain, SteadyStored
  <1>9. \A p \in 0 .. Handle.size - 1 :
           FileByte(fat', disk', Handle', p) = FileByte(fat, disk, Handle, p)
    BY <1>1 DEF FileByte
  <1> QED BY <1>4, <1>5, <1>6, <1>7, <1>8, <1>9, SteadyRefines

\* fat_next_sector within a cluster.
LEMMA SectorHopRefines ==
  ASSUME SoleUse, Sound, TypeInv', VolumeInv', SectorHop
  PROVE  Refines
  <1>0. Cur = Handle /\ Handle \in FileS /\ ~Walking /\ TypeOK
    BY Sole DEF Sound, TypeInv, SectorHop, Walking
  <1> DEFINE s == (Handle.sector + 1) % Word
             g == [Handle EXCEPT !.sectors_left = @ - 1, !.file_sector = @ + 1,
                                 !.cursor = 0, !.sector = s]
  <1>1. /\ pc = "sector" /\ MoreSectors(Handle)
        /\ UNCHANGED <<fat, dir, disk, read_only, ret, call>>
        /\ \/ s \in Sectors /\ Handle' = [g EXCEPT !.buffer = disk[s]] /\ pc' = AfterSector(TRUE)
           \/ s \notin Sectors
    BY <1>0, Sole, NoFault DEF SectorHop, NoWrite, Quiet
  <1>2. PICK i \in 0 .. LastCluster : OnCluster(Walk, Handle, i)
    BY <1>0, <1>1, AtHop DEF Hopping
  <1>3. PICK c \in Clusters : c = Handle.cluster
    BY <1>2 DEF OnCluster
  <1>4. /\ PlacedAt(Handle, c)
        /\ Handle.file_sector = i * SectorsPerCluster + (SectorsPerCluster - 1 - Handle.sectors_left)
    BY <1>2, <1>3 DEF OnCluster
  <1>5. /\ s = Handle.sector + 1
        /\ Handle.sectors_left - 1 < SectorsPerCluster
        /\ Handle.sector + 1 + (Handle.sectors_left - 1) = SectorOf(c) + SectorsPerCluster - 1
    BY <1>0, <1>1, <1>4, NextSectorPlaced
  <1>6. Handle.file_sector + 1
          = i * SectorsPerCluster + (SectorsPerCluster - 1 - (Handle.sectors_left - 1))
    <2> DEFINE m == i * SectorsPerCluster
    <2>1. m \in Nat /\ SectorsPerCluster \in Nat /\ Handle.sectors_left \in Nat
      BY <1>0, GeometryAssumption DEF FileS
    <2> HIDE DEF m
    <2>2. Handle.file_sector = m + (SectorsPerCluster - 1 - Handle.sectors_left)
      BY <1>4 DEF m
    <2> QED BY <2>1, <2>2 DEF m
  <1> HIDE DEF s
  <1>7. s \in Sectors
    <2>1. Handle.sector \in Nat /\ Handle.sectors_left \in Nat /\ Handle.sectors_left > 0
      BY <1>0, <1>1 DEF FileS, MoreSectors, Bad
    <2>2. SectorOf(c) \in Nat /\ SectorOf(c) + SectorsPerCluster - 1 <= LastSector
            /\ SectorsPerCluster \in Nat /\ LastSector \in Int
      BY ClusterSectors, GeometryAssumption DEF LastSector
    <2> QED BY <1>5, <2>1, <2>2 DEF Sectors
  <1>8. /\ Handle' = [g EXCEPT !.buffer = disk[s]] /\ pc' = AfterSector(TRUE)
    BY <1>1, <1>7 
  <1>9. /\ Handle'.first = Handle.first /\ Handle'.size = Handle.size
        /\ Handle'.flags = Handle.flags /\ Handle'.ro = Handle.ro
        /\ Handle'.entry = Handle.entry /\ Handle'.cursor = 0
        /\ Handle'.file_sector = Handle.file_sector + 1
        /\ Handle'.sector = s /\ Handle'.cluster = Handle.cluster
        /\ Handle'.sectors_left = Handle.sectors_left - 1
        /\ Handle'.buffer = disk[Handle'.sector]
    BY <1>0, <1>8 DEF FileS
  <1>10. OnCluster(Walk, Handle', i)
    BY <1>2, <1>3, <1>5, <1>6, <1>9 DEF OnCluster, PlacedAt
  <1> QED BY <1>1, <1>8, <1>9, <1>10, SectorArrives

\* fat_next_sector moves to the first sector of the next cluster.
LEMMA SelectClusterRefines ==
  ASSUME SoleUse, Sound, TypeInv', VolumeInv', SelectCluster
  PROVE  Refines
  <1>0. Cur = Handle /\ Handle \in FileS /\ ~Walking /\ TypeOK /\ 0 \in Handles
    BY Sole DEF Sound, TypeInv, SelectCluster, Walking
  <1> DEFINE s == SectorOf(call.res)
             g == [Handle EXCEPT !.file_sector = @ + 1, !.sector = s,
                                 !.sectors_left = SectorsPerCluster - 1,
                                 !.cluster = call.res, !.cursor = 0]
  <1>1. /\ pc = "select" /\ UNCHANGED <<fat, dir, disk, read_only, ret, call>>
        /\ s \in Sectors /\ Handle' = [g EXCEPT !.buffer = disk[s]] /\ pc' = AfterSector(TRUE)
    BY <1>0, Sole, NoFault DEF SelectCluster, NoWrite, Quiet
  <1>2. /\ IsOpen(0) /\ Handle.first # 0 /\ Handle.cursor = SectorSize
    BY <1>0, <1>1, AtHop DEF Hopping, Linked
  <1>3. PICK i \in 0 .. LastCluster : OnCluster(Walk, Handle, i)
    BY <1>0, <1>1, AtHop DEF Hopping, Linked
  <1>4. call.res \in Clusters
    BY <1>1 DEF Sound, VolumeInv, CallInv, OwnCluster
  <1>5. /\ Handle.sectors_left = 0
        /\ i + 1 \in 0 .. LastCluster /\ Walk[i + 1] = call.res
    <2>1. CASE "WRITE" \notin Handle.flags
      <3>1. Reading /\ Crossing
        BY <1>0, <1>1, <1>2, <2>1 DEF Reading, Crossing, Linked
      <3>2. i + 1 <= LastCluster /\ Walk[i + 1] = call.res /\ Handle.sectors_left = 0
        BY <1>1, <1>3, <3>1 DEF Sound, PosixInv, ReaderInv
      <3> QED BY <3>2, GeometryAssumption
    <2>2. CASE "WRITE" \in Handle.flags
      <3>1. PICK rank \in Ranks : RankInv(rank)
        BY DEF Sound, ChainInv
      <3>2. Chained(rank) /\ Handle.sectors_left = 0 /\ rank[call.res] = rank[Handle.cluster] + 1
              /\ StandsAt(rank, Handle)
        BY <1>0, <1>1, <1>2, <2>2, <3>1 DEF RankInv, CrossInv, Crossing, Linked, StandInv, Handle
      <3>3. PICK first \in Clusters : first = Handle.first /\ owner[first] = first
        BY <1>0, <1>2 DEF Sound, VolumeInv, HandleInv, FilesInv, StoredFile, Handle
      <3>4. owner[call.res] = first /\ Walk = ChainFrom(first)
        BY <1>0, <1>1, <3>3 DEF Sound, VolumeInv, CallInv, OwnCluster, Walk
      <3>5. Walk[i] = Handle.cluster /\ Handle.cluster \in Clusters
        BY <1>3 DEF OnCluster
      <3>6. rank[Handle.cluster] = i
        BY <1>0, <3>2, <3>3, <3>4, <3>5, WalkRanks DEF Sound, VolumeInv
      <3>7. InChain(rank, call.res, first) /\ rank[call.res] = i + 1
        BY <1>4, <3>2, <3>4, <3>6, GeometryAssumption DEF InChain
      <3> QED BY <1>0, <1>4, <3>2, <3>3, <3>4, <3>7, WalkMeets DEF Sound, VolumeInv
    <2> QED BY <2>1, <2>2
  <1>6. /\ Handle'.first = Handle.first /\ Handle'.size = Handle.size
        /\ Handle'.flags = Handle.flags /\ Handle'.ro = Handle.ro
        /\ Handle'.entry = Handle.entry /\ Handle'.cursor = 0
        /\ Handle'.file_sector = Handle.file_sector + 1
        /\ Handle'.sector = s /\ Handle'.cluster = call.res
        /\ Handle'.sectors_left = SectorsPerCluster - 1
        /\ Handle'.buffer = disk[Handle'.sector]
    BY <1>0, <1>1 DEF FileS
  <1>7. PlacedAt(Handle', call.res)
    BY <1>4, <1>6, FirstSectorPlaced
  <1>8. Handle'.file_sector = (i + 1) * SectorsPerCluster + (SectorsPerCluster - 1 - (SectorsPerCluster - 1))
    <2>1. Handle.file_sector + 1 = (i + 1) * SectorsPerCluster
      BY <1>0, <1>2, <1>3, <1>5, UsedUpAt
    <2>2. (i + 1) * SectorsPerCluster \in Nat /\ SectorsPerCluster \in Nat
      BY GeometryAssumption
    <2> QED BY <1>6, <2>1, <2>2
  <1>9. OnCluster(Walk, Handle', i + 1)
    BY <1>4, <1>5, <1>6, <1>7, <1>8 DEF OnCluster
  <1> QED BY <1>1, <1>5, <1>6, <1>9, SectorArrives

\* fat_next_sector goes on to fat_next_cluster.
LEMMA SectorEndRefines ==
  ASSUME SoleUse, Sound, TypeInv', VolumeInv', SectorEnd
  PROVE  Refines
  <1>0. Cur = Handle /\ Handle \in FileS /\ ~Walking /\ call \in Calls
    BY Sole DEF Sound, TypeInv, SectorEnd, Walking
  <1>1. /\ pc = "sector" /\ ~MoreSectors(Handle) /\ pc' = "next"
        /\ call' = [call EXCEPT !.next = "sector", !.res = Bad]
        /\ UNCHANGED <<fat, read_only, ret>> /\ NoWrite /\ Handle' = Handle
    BY <1>0 DEF SectorEnd, NoWrite, Quiet, Handle
  <1>2. /\ IsOpen(0) /\ Handle.first # 0 /\ "DIRTY" \notin Handle.flags
        /\ call.op \in {"read", "write", "lseek"} /\ (call.op = "lseek" => call.seeking)
        /\ Handle.cursor = SectorSize
    BY <1>0, <1>1, AtHop DEF Hopping
  <1>3. /\ call'.op = call.op /\ call'.seeking = call.seeking /\ call'.todo = call.todo
        /\ call'.n = call.n /\ call'.got = call.got /\ call'.new = call.new
        /\ call'.old = call.old /\ call'.next = "sector" /\ call'.flush = call.flush
        /\ call'.info = call.info
    BY <1>0, <1>1 DEF Calls
  <1>4. Handle.sectors_left = 0
    BY <1>0, <1>1 DEF MoreSectors, FileS
  <1>5. FlowInv /\ ReaderInv
    BY DEF Sound, PosixInv
  <1>6. FlowInv'
    BY <1>1, <1>2, <1>3, <1>5
       DEF FlowInv, Flushing, Hopping, Closing, Loading, Linked, Crossing, Walking
  <1>7. Steady /\ GoesOn
    BY <1>1, <1>2, <1>3 DEF Steady, GoesOn, Walking
  <1>8. ReaderInv'
    <2>1. SamePlace(Handle', Handle)
      BY <1>1 DEF SamePlace
    <2>2. /\ Walk' = Walk
          /\ \A i : OnCluster(Walk, Handle, i)' <=> OnCluster(Walk, Handle, i)
          /\ AtEnd(Handle)' <=> AtEnd(Handle)
          /\ Pos(Handle)' = Pos(Handle)
          /\ Reading' <=> Reading
      BY <1>1, <2>1, ReaderSame
    <2>3. ~Walking' /\ Crossing' /\ Loading'
      BY <1>1, <1>3 DEF Walking, Crossing, Loading
    <2> QED BY <1>0, <1>1, <1>3, <1>4, <1>5, <2>2, <2>3 DEF ReaderInv, Flushing, Loading
  <1> QED BY <1>0, <1>1, <1>6, <1>7, <1>8, CallMoves

\* The cluster whose FAT entry fat_next_cluster reads.
LEMMA AtLink ==
  ASSUME SoleUse, Sound, pc = "next"
  PROVE  \E i \in 0 .. LastCluster :
           /\ Handle.cluster = Walk[i] /\ Walk[i] \in Clusters
           /\ i + 1 \in 0 .. LastCluster /\ Walk[i + 1] = fat[Walk[i]]
           /\ fat[Walk[i]] \in Clusters \cup {EndMarker}
           /\ fat[Walk[i]] = EndMarker => Handle.size <= (i + 1) * ClusterBytes
           /\ (i + 1) * ClusterBytes \in Nat
           /\ Walking => call.seeking /\ i = call.i /\ call.new <= Handle.size
                           /\ call.i < call.new \div ClusterBytes
           /\ ~Walking => Pos(Handle) = (i + 1) * ClusterBytes
  <1>0. Cur = Handle /\ Handle \in FileS /\ TypeOK /\ 0 \in Handles /\ ClusterBytes \in Nat
          /\ LastCluster \in Nat
    BY Sole, PositiveSizes, GeometryAssumption DEF Sound, TypeInv
  <1>1. IsOpen(0) /\ Handle.first # 0
    BY AtHop DEF Hopping
  <1>2. ASSUME NEW i \in 0 .. LastCluster, Handle.cluster = Walk[i], Walk[i] \in Clusters
        PROVE  /\ i + 1 \in 0 .. LastCluster /\ Walk[i + 1] = fat[Walk[i]]
               /\ fat[Walk[i]] \in Clusters \cup {EndMarker}
               /\ fat[Walk[i]] = EndMarker => Handle.size <= (i + 1) * ClusterBytes
               /\ (i + 1) * ClusterBytes \in Nat
    <2>1. i + 1 \in Nat
      BY <1>0
    <2> QED BY <1>0, <1>1, <1>2, <2>1, OpenFile DEF Sound
  <1>3. CASE Walking
    <2>1. call.seeking
      BY <1>3 DEF Sound, ChainInv, AccessInv, Walking
    <2>2. /\ Handle.cluster = Walk[call.i] /\ Walk[call.i] \in Clusters /\ call.i \in 0 .. LastCluster
          /\ call.new <= Handle.size /\ call.i < call.new \div ClusterBytes
      <3>1. CASE "WRITE" \in Handle.flags
        BY <1>1, <1>3, <2>1, <3>1, WriterWalks DEF Sound
      <3>2. CASE "WRITE" \notin Handle.flags
        <4>1. Reading
          BY <1>1, <3>2 DEF Reading
        <4> QED BY <1>3, <2>1, <4>1 DEF Sound, PosixInv, ReaderInv
      <3> QED BY <3>1, <3>2
    <2> QED BY <1>2, <1>3, <2>1, <2>2
  <1>4. CASE ~Walking
    <2>1. PICK i \in 0 .. LastCluster : OnCluster(Walk, Handle, i)
      BY <1>4, AtHop DEF Hopping
    <2>2. Handle.cursor = SectorSize /\ Crossing
      BY <1>4, AtHop DEF Hopping, Crossing
    <2>3. Handle.sectors_left = 0
      <3>1. CASE "WRITE" \in Handle.flags
        BY <1>0, <2>2, <3>1 DEF Sound, ChainInv, RankInv, CrossInv
      <3>2. CASE "WRITE" \notin Handle.flags
        BY <1>1, <2>2, <3>2 DEF Sound, PosixInv, ReaderInv, Reading
      <3> QED BY <3>1, <3>2
    <2>4. Pos(Handle) = (i + 1) * ClusterBytes
      BY <1>0, <2>1, <2>2, <2>3, UsedUpAt
    <2> QED BY <1>2, <1>4, <2>1, <2>4 DEF OnCluster
  <1> QED BY <1>3, <1>4

\* fat_next_cluster goes on, with or without the FAT block in the file's buffer.
LEMMA NextMoves ==
  ASSUME SoleUse, Sound, TypeInv', VolumeInv', Steady, GoesOn, FlowInv', ReaderInv', Hopping,
         UNCHANGED <<dir, disk>>, Handle' \in {Handle, [Handle EXCEPT !.buffer = MetaBlock]},
         \A c \in Clusters : fat[c] \in Clusters => fat'[c] = fat[c],
         Walking' \/ Handle.cursor = SectorSize
  PROVE  Refines
  <1>0. Handle \in FileS /\ SectorSize \in Nat
    BY Sole, GeometryAssumption DEF Sound, TypeInv
  <1>1. /\ Handle'.flags = Handle.flags /\ Handle'.first = Handle.first
        /\ Handle'.size = Handle.size /\ Handle'.entry = Handle.entry
        /\ Handle'.cursor = Handle.cursor
    BY <1>0 DEF FileS
  <1>2. PlainInv' /\ StoredInv'
    BY <1>1, SteadyPlain, SteadyStored
  <1>3. BufferInv'
    BY <1>0, <1>1 DEF BufferInv
  <1>4. ASSUME NEW p \in 0 .. Handle.size - 1
        PROVE  FileByte(fat', disk', Handle', p) = FileByte(fat, disk, Handle, p)
    <2>1. IsOpen(0) /\ Handle.first # 0 /\ "DIRTY" \notin Handle.flags
      BY AtHop
    <2>2. ByteIn(fat', disk, Handle.first, p) = ByteIn(fat, disk, Handle.first, p)
      BY <2>1, BytesKept
    <2> QED BY <1>1, <2>1, <2>2 DEF FileByte
  <1> QED BY <1>2, <1>3, <1>4, SteadyRefines

\* What an operation reads from a sector of the device is what it holds.
LEMMA BlockRead ==
  ASSUME SoleUse, Sound, Handle' = [Handle EXCEPT !.buffer = MetaBlock]
  PROVE  /\ SamePlace(Handle', Handle) /\ Handle'.flags = Handle.flags
         /\ Handle'.ro = Handle.ro /\ Pos(Handle') = Pos(Handle)
  <1>1. Handle \in FileS
    BY Sole DEF Sound, TypeInv
  <1> QED BY <1>1 DEF FileS, SamePlace, Pos

\* fat_next_cluster follows a link.
LEMMA NextLinkRefines ==
  ASSUME SoleUse, Sound, TypeInv', VolumeInv', NextLink
  PROVE  Refines
  <1>0. /\ Cur = Handle /\ Handle \in FileS /\ TypeOK /\ call \in Calls
        /\ \A g : SetCur(g) => Handle' = g
    BY Sole DEF Sound, TypeInv
  <1>1. PICK i \in 0 .. LastCluster :
           /\ Handle.cluster = Walk[i] /\ Walk[i] \in Clusters
           /\ i + 1 \in 0 .. LastCluster /\ Walk[i + 1] = fat[Walk[i]]
           /\ fat[Walk[i]] \in Clusters \cup {EndMarker}
           /\ Walking => call.seeking /\ i = call.i /\ call.new <= Handle.size
                           /\ call.i < call.new \div ClusterBytes
    BY AtLink DEF NextLink
  <1>2. PICK j \in Clusters : j = fat[Walk[i]] /\ j >= 2 /\ j # Bad
    <2>1. fat[Walk[i]] < EndMarker
      BY <1>0, <1>1 DEF NextLink
    <2>2. fat[Walk[i]] # EndMarker
      BY <2>1, GeometryAssumption DEF EndMarker
    <2> QED BY <1>1, <2>2, Markers
  <1>3. /\ pc = "next" /\ pc' = AfterNext(j) /\ call' = [call EXCEPT !.res = j]
        /\ UNCHANGED <<fat, dir, disk, read_only, ret>>
        /\ Handle' = [Handle EXCEPT !.buffer = MetaBlock]
    <2>1. SetCur([Cur EXCEPT !.buffer = MetaBlock])
      BY DEF NextLink
    <2>2. fat[Cur.cluster] = j /\ ~(j < 2)
      BY <1>0, <1>1, <1>2, GeometryAssumption DEF Clusters
    <2>3. pc = "next" /\ NextReturn(j) /\ Quiet /\ NoWrite
      BY <2>2 DEF NextLink
    <2> QED BY <1>0, <2>1, <2>3 DEF NextReturn, NoWrite, Quiet
  <1>4. /\ IsOpen(0) /\ Handle.first # 0 /\ "DIRTY" \notin Handle.flags
        /\ call.op \in {"read", "write", "lseek"} /\ (call.op = "lseek" => call.seeking)
        /\ ~Walking => Handle.cursor = SectorSize
    BY <1>3, AtHop DEF Hopping
  <1>5. /\ call'.op = call.op /\ call'.seeking = call.seeking /\ call'.todo = call.todo
        /\ call'.n = call.n /\ call'.got = call.got /\ call'.new = call.new
        /\ call'.old = call.old /\ call'.next = call.next /\ call'.flush = call.flush
        /\ call'.info = call.info /\ call'.i = call.i /\ call'.res = j
    BY <1>0, <1>2, <1>3, Markers DEF Calls
  <1>6. \/ Walking /\ call.next = "walk" /\ pc' = "walked"
        \/ ~Walking /\ call.next # "walk" /\ pc' = "select"
    BY <1>2, <1>3 DEF AfterNext, Walking
  <1>7. /\ SamePlace(Handle', Handle) /\ Handle'.flags = Handle.flags
        /\ Handle'.ro = Handle.ro /\ Pos(Handle') = Pos(Handle)
    BY <1>3, BlockRead
  <1>8. FlowInv /\ ReaderInv /\ PlaceInv
    BY DEF Sound, PosixInv
  <1>9. FlowInv'
    BY <1>3, <1>4, <1>5, <1>6, <1>7, <1>8
       DEF FlowInv, Flushing, Hopping, Closing, Loading, Linked, Crossing, Walking, SamePlace
  <1>10. Steady /\ GoesOn
    BY <1>3, <1>4, <1>5, <1>6, <1>7, <1>8 DEF Steady, GoesOn, Walking, SamePlace, PlaceInv
  <1>11. ReaderInv'
    <2>1. /\ Walk' = Walk
          /\ \A k : OnCluster(Walk, Handle, k)' <=> OnCluster(Walk, Handle, k)
          /\ AtEnd(Handle)' <=> AtEnd(Handle)
          /\ Pos(Handle)' = Pos(Handle)
          /\ Reading' <=> Reading
      BY <1>3, <1>7, ReaderSame
    <2>2. CASE pc' = "walked"
      <3>1. Walking /\ Walking' /\ ~Crossing' /\ ~Loading'
        BY <1>6, <2>2 DEF Walking, Crossing, Loading
      <3>2. call.i + 1 <= LastCluster /\ Walk[call.i + 1] = j
        BY <1>1, <1>2, <3>1, GeometryAssumption
      <3> QED BY <1>1, <1>2, <1>5, <1>7, <1>8, <2>1, <2>2, <3>1, <3>2
              DEF ReaderInv, Flushing, SamePlace
    <2>3. CASE pc' = "select"
      <3>1. ~Walking /\ ~Walking' /\ Crossing /\ Loading
        BY <1>3, <1>6, <2>3 DEF Walking, Crossing, Loading
      <3>2. ASSUME NEW k \in 0 .. LastCluster, OnCluster(Walk, Handle, k), Reading
            PROVE  k + 1 <= LastCluster /\ Walk[k + 1] = j
        <4>1. k = i
          BY <1>1, <1>4, <3>2, OpenFile DEF OnCluster, Sound
        <4> QED BY <1>1, <1>2, <4>1, GeometryAssumption
      <3> QED BY <1>2, <1>5, <1>7, <1>8, <2>1, <2>3, <3>1, <3>2
              DEF ReaderInv, Flushing, SamePlace
    <2> QED BY <1>6, <2>2, <2>3
  <1>12. Walking' \/ Handle.cursor = SectorSize
    BY <1>4, <1>6 DEF Walking
  <1>13. Hopping
    BY <1>3 DEF Hopping
  <1> QED BY <1>3, <1>9, <1>10, <1>11, <1>12, <1>13, NextMoves

\* The chain ends: a seek stays where it is, or goes behind the last cluster; a
\* read has reached the end of the file, a write has to enlarge it.
LEMMA NextEndRefines ==
  ASSUME SoleUse, Sound, TypeInv', VolumeInv', NextEnd
  PROVE  Refines
  <1>0. /\ Cur = Handle /\ Handle \in FileS /\ TypeOK /\ call \in Calls
        /\ \A g : SetCur(g) => Handle' = g
        /\ LastCluster \in Nat /\ ClusterBytes \in Nat \ {0}
    BY Sole, GeometryAssumption, PositiveSizes DEF Sound, TypeInv
  <1>1. PICK i \in 0 .. LastCluster :
           /\ Handle.cluster = Walk[i] /\ Walk[i] \in Clusters
           /\ i + 1 \in 0 .. LastCluster
           /\ fat[Walk[i]] = EndMarker => Handle.size <= (i + 1) * ClusterBytes
           /\ (i + 1) * ClusterBytes \in Nat
           /\ Walking => call.seeking /\ i = call.i /\ call.new <= Handle.size
                           /\ call.i < call.new \div ClusterBytes
           /\ ~Walking => Pos(Handle) = (i + 1) * ClusterBytes
    BY AtLink DEF NextEnd
  <1>2. Handle.size <= (i + 1) * ClusterBytes
    BY <1>0, <1>1 DEF NextEnd
  <1>3. /\ pc = "next" /\ pc' = AfterNext(Bad) /\ call' = [call EXCEPT !.res = Bad]
        /\ UNCHANGED <<fat, dir, disk, read_only, ret>>
        /\ Handle' = [Handle EXCEPT !.buffer = MetaBlock]
    <2>1. SetCur([Cur EXCEPT !.buffer = MetaBlock])
      BY DEF NextEnd
    <2>2. pc = "next" /\ NextReturn(Bad) /\ Quiet /\ NoWrite
      BY DEF NextEnd
    <2> QED BY <1>0, <2>1, <2>2 DEF NextReturn, NoWrite, Quiet
  <1>4. /\ IsOpen(0) /\ Handle.first # 0 /\ "DIRTY" \notin Handle.flags
        /\ call.op \in {"read", "write", "lseek"} /\ (call.op = "lseek" => call.seeking)
        /\ ~Walking => Handle.cursor = SectorSize
    BY <1>3, AtHop DEF Hopping
  <1>5. /\ call'.op = call.op /\ call'.seeking = call.seeking /\ call'.todo = call.todo
        /\ call'.n = call.n /\ call'.got = call.got /\ call'.new = call.new
        /\ call'.old = call.old /\ call'.next = call.next /\ call'.flush = call.flush
        /\ call'.info = call.info /\ call'.i = call.i /\ call'.res = Bad
    BY <1>0, <1>3, Markers DEF Calls
  <1>6. \/ Walking /\ call.next = "walk" /\ pc' = "walked"
        \/ ~Walking /\ call.next # "walk" /\ call.seeking /\ pc' = "case"
        \/ ~Walking /\ call.next # "walk" /\ ~call.seeking /\ call.op = "read" /\ pc' = "done"
        \/ ~Walking /\ call.next # "walk" /\ ~call.seeking /\ call.op = "write" /\ pc' = "fail"
    BY <1>3, <1>4 DEF AfterNext, AfterSector, Walking
  <1>7. /\ SamePlace(Handle', Handle) /\ Handle'.flags = Handle.flags
        /\ Handle'.ro = Handle.ro /\ Pos(Handle') = Pos(Handle)
    BY <1>3, BlockRead
  <1>8. FlowInv /\ ReaderInv /\ PlaceInv
    BY DEF Sound, PosixInv
  <1>9. ~Walking => Pos(Handle) = Handle.size /\ Handle.size = (i + 1) * ClusterBytes
    <2>1. Pos(Handle) <= Handle.size /\ Handle.size \in Nat
      BY <1>0, <1>8 DEF PlaceInv, FileS
    <2> QED BY <1>1, <1>2, <2>1
  <1>10. FlowInv'
    BY <1>3, <1>4, <1>5, <1>6, <1>7, <1>8
       DEF FlowInv, Flushing, Hopping, Closing, Loading, Linked, Crossing, Walking, SamePlace
  <1>11. Steady /\ GoesOn
    BY <1>3, <1>4, <1>5, <1>6, <1>7, <1>8, <1>9 DEF Steady, GoesOn, Walking, SamePlace, PlaceInv
  <1>12. ReaderInv'
    <2>1. /\ Walk' = Walk
          /\ \A k : OnCluster(Walk, Handle, k)' <=> OnCluster(Walk, Handle, k)
          /\ AtEnd(Handle)' <=> AtEnd(Handle)
          /\ Pos(Handle)' = Pos(Handle)
          /\ Reading' <=> Reading
      BY <1>3, <1>7, ReaderSame
    <2>2. CASE pc' = "walked"
      <3>1. Walking /\ Walking' /\ ~Crossing' /\ ~Loading'
        BY <1>6, <2>2 DEF Walking, Crossing, Loading
      <3>2. call.i + 1 <= LastCluster /\ call.new <= Handle.size
        BY <1>0, <1>1, <3>1
      <3>3. call.new = Handle.size /\ call.new = (call.i + 1) * ClusterBytes
        <4>1. call.new \in Nat /\ call.i \in Nat /\ Handle.size \in Nat
          BY <1>0, <1>1, <3>1 DEF Calls, FileS
        <4>2. ~(call.new < (call.i + 1) * ClusterBytes)
          <5> SUFFICES ASSUME call.new < (call.i + 1) * ClusterBytes PROVE FALSE
            OBVIOUS
          <5>1. call.new \div ClusterBytes <= call.i
            BY <4>1, ClusterEnds
          <5>2. call.new \div ClusterBytes \in Int
            BY <1>0, <4>1
          <5> QED BY <1>1, <3>1, <4>1, <5>1, <5>2
        <4> QED BY <1>1, <1>2, <3>1, <3>2, <4>1, <4>2
      <3> QED BY <1>1, <1>5, <1>7, <1>8, <2>1, <2>2, <3>1, <3>2, <3>3
              DEF ReaderInv, Flushing, SamePlace
    <2>3. CASE pc' = "case"
      <3>1. ~Walking /\ ~Walking' /\ Loading /\ ~Crossing' /\ ~Loading' /\ call.seeking
        BY <1>3, <1>6, <2>3 DEF Walking, Crossing, Loading, Linked
      <3>2. ASSUME Reading
            PROVE call.new <= Handle.size /\ call.new < call.old /\ call.old % ClusterBytes = 0
        <4>1. call.old = Handle.size /\ call.new < Handle.size
          BY <1>0, <1>8, <1>9, <3>1, <3>2 DEF ReaderInv, FileS
        <4>2. Handle.size % ClusterBytes = 0
          <5>1. i + 1 \in Nat /\ 0 \in 0 .. ClusterBytes - 1
            BY <1>0
          <5>2. ((i + 1) * ClusterBytes + 0) % ClusterBytes = 0
            BY <1>0, <5>1, DivModUnique
          <5>3. (i + 1) * ClusterBytes + 0 = (i + 1) * ClusterBytes
            BY <1>1
          <5> QED BY <1>9, <3>1, <5>2, <5>3
        <4>3. call.new <= Handle.size
          BY <1>0, <4>1 DEF Calls, FileS
        <4> QED BY <4>1, <4>2, <4>3
      <3> QED BY <1>5, <1>7, <1>8, <2>1, <2>3, <3>1, <3>2 DEF ReaderInv, Flushing, SamePlace
    <2>4. CASE pc' \in {"done", "fail"}
      <3>1. ~Walking /\ ~Walking' /\ ~Crossing' /\ ~call.seeking
        BY <1>6, <2>4 DEF Walking, Crossing, Linked
      <3> QED BY <1>5, <1>7, <1>8, <2>1, <2>4, <3>1 DEF ReaderInv, SamePlace
    <2> QED BY <1>6, <2>2, <2>3, <2>4
  <1>13. Walking' \/ Handle.cursor = SectorSize
    BY <1>4, <1>6 DEF Walking
  <1>14. Hopping
    BY <1>3 DEF Hopping
  <1> QED BY <1>3, <1>10, <1>11, <1>12, <1>13, <1>14, NextMoves

\* fat_next_cluster finds the entry of the cluster the handle stands on.
LEMMA NextReads ==
  ASSUME SoleUse, Sound
  PROVE  ~NextUnreadable
  <1> SUFFICES ASSUME NextUnreadable PROVE FALSE
    OBVIOUS
  <1>1. Cur = Handle /\ pc = "next" /\ Handle.cluster \notin FatIndex
    BY Sole, NoFault DEF NextUnreadable, Sound, TypeInv
  <1>2. Handle.cluster \in Clusters
    BY <1>1, AtLink
  <1> QED BY <1>1, <1>2, Markers

\* fat_next_cluster takes a free cluster.
LEMMA NextAllocateRefines ==
  ASSUME SoleUse, Sound, TypeInv', VolumeInv', NEW k \in FatIndex, NextAllocate(k)
  PROVE  Refines
  <1>0. /\ Cur = Handle /\ Handle \in FileS /\ TypeOK /\ call \in Calls /\ k \in Clusters
        /\ k # 0 /\ \A g : SetCur(g) => Handle' = g
    BY Sole, FreeIsCluster, Markers DEF Sound, TypeInv, VolumeInv, NextAllocate
  <1>1. /\ pc = "next" /\ pc' = "chain" /\ call' = [call EXCEPT !.res = k]
        /\ UNCHANGED <<dir, disk, read_only, ret>> /\ "WRITE" \in Handle.flags
        /\ Handle' = [Handle EXCEPT !.buffer = MetaBlock]
        /\ fat[k] = 0 /\ fat' = [fat EXCEPT ![k] = EndMarker]
    <2>1. SetCur([Cur EXCEPT !.buffer = MetaBlock])
      BY DEF NextAllocate
    <2>2. /\ pc = "next" /\ pc' = "chain" /\ call' = [call EXCEPT !.res = k]
          /\ Quiet /\ UNCHANGED <<dir, disk>> /\ "WRITE" \in Handle.flags
          /\ fat[k] = 0 /\ fat' = [fat EXCEPT ![k] = EndMarker]
      BY <1>0 DEF NextAllocate, FreeCluster, Claim
    <2> QED BY <1>0, <2>1, <2>2 DEF Quiet
  <1>2. /\ IsOpen(0) /\ Handle.first # 0 /\ "DIRTY" \notin Handle.flags
        /\ call.op \in {"read", "write", "lseek"} /\ (call.op = "lseek" => call.seeking)
        /\ ~Walking => Handle.cursor = SectorSize
    BY <1>1, AtHop DEF Hopping
  <1>3. /\ call'.op = call.op /\ call'.seeking = call.seeking /\ call'.todo = call.todo
        /\ call'.n = call.n /\ call'.got = call.got /\ call'.new = call.new
        /\ call'.next = call.next /\ call'.flush = call.flush /\ call'.info = call.info
    BY <1>0, <1>1 DEF Calls
  <1>4. /\ SamePlace(Handle', Handle) /\ Handle'.flags = Handle.flags
        /\ Handle'.ro = Handle.ro /\ Pos(Handle') = Pos(Handle)
    BY <1>1, BlockRead
  <1>5. FlowInv /\ PlaceInv
    BY DEF Sound, PosixInv
  <1>6. FlowInv' /\ (Walking' <=> Walking)
    BY <1>1, <1>2, <1>3, <1>4, <1>5
       DEF FlowInv, Flushing, Hopping, Closing, Loading, Linked, Crossing, Walking, SamePlace
  <1>7. Steady /\ GoesOn
    BY <1>1, <1>2, <1>3, <1>4, <1>5, <1>6 DEF Steady, GoesOn, SamePlace, PlaceInv
  <1>8. ReaderInv'
    BY <1>1, <1>4, WritersDoNotRead
  <1>9. \A c \in Clusters : fat[c] \in Clusters => fat'[c] = fat[c]
    BY <1>0, <1>1, Markers DEF TypeOK
  <1>10. Walking' \/ Handle.cursor = SectorSize
    BY <1>2, <1>6
  <1>11. Hopping
    BY <1>1 DEF Hopping
  <1> QED BY <1>1, <1>6, <1>7, <1>8, <1>9, <1>10, <1>11, NextMoves

\* fat_next_cluster links the new cluster to the chain.
LEMMA NextChainRefines ==
  ASSUME SoleUse, Sound, TypeInv', VolumeInv', NextChain
  PROVE  Refines
  <1>0. Cur = Handle /\ Handle \in FileS /\ TypeOK /\ call \in Calls
    BY Sole DEF Sound, TypeInv
  <1>1. /\ pc = "chain" /\ pc' = "info" /\ call' = [call EXCEPT !.info = "next"]
        /\ UNCHANGED <<dir, disk, read_only, ret>> /\ Handle' = Handle
        /\ fat' = [fat EXCEPT ![Handle.cluster] = call.res]
        /\ "WRITE" \in Handle.flags /\ fat[Handle.cluster] = EndMarker
    BY <1>0 DEF NextChain, Quiet, Sound, ChainInv, AccessInv, VolumeInv, CallInv, Handle
  <1>2. /\ IsOpen(0) /\ Handle.first # 0 /\ "DIRTY" \notin Handle.flags
        /\ call.op \in {"read", "write", "lseek"} /\ (call.op = "lseek" => call.seeking)
        /\ ~Walking => Handle.cursor = SectorSize
    BY <1>1, AtHop DEF Hopping
  <1>3. /\ call'.op = call.op /\ call'.seeking = call.seeking /\ call'.todo = call.todo
        /\ call'.n = call.n /\ call'.got = call.got /\ call'.new = call.new
        /\ call'.next = call.next /\ call'.flush = call.flush /\ call'.info = "next"
    BY <1>0, <1>1 DEF Calls
  <1>4. FlowInv /\ PlaceInv
    BY DEF Sound, PosixInv
  <1>5. FlowInv' /\ (Walking' <=> Walking)
    BY <1>1, <1>2, <1>3, <1>4
       DEF FlowInv, Flushing, Hopping, Closing, Loading, Linked, Crossing, Walking
  <1>6. Steady /\ GoesOn
    BY <1>1, <1>2, <1>3, <1>4, <1>5 DEF Steady, GoesOn, PlaceInv
  <1>7. ReaderInv'
    BY <1>1, WritersDoNotRead
  <1>8. \A c \in Clusters : fat[c] \in Clusters => fat'[c] = fat[c]
    BY <1>0, <1>1, Markers DEF TypeOK
  <1>9. Walking' \/ Handle.cursor = SectorSize
    BY <1>2, <1>5
  <1>10. Hopping
    BY <1>1 DEF Hopping
  <1> QED BY <1>1, <1>5, <1>6, <1>7, <1>8, <1>9, <1>10, NextMoves

\* Every step of fat_next_sector and fat_next_cluster.
LEMMA NextRefines ==
  ASSUME SoleUse, Sound, TypeInv', VolumeInv', NextStep
  PROVE  Refines
  BY SectorHopRefines, SectorEndRefines, SelectClusterRefines, NextLinkRefines, NextEndRefines,
     NextReads, NextAllocateRefines, NextChainRefines, NoFault DEF NextStep, NextChainFails

-----------------------------------------------------------------------------
(* fat_lseek. *)

\* What it knows of the handle once its first flush is over.
LEMMA AtSeeking ==
  ASSUME SoleUse, Sound, pc \in SeekLabels
  PROVE  /\ IsOpen(0) /\ call.seeking /\ call.op \in {"write", "lseek"}
         /\ "DIRTY" \notin Handle.flags
         /\ pc \in {"walk", "walked"} => Handle.first # 0
         /\ pc = "case" /\ Handle.first = 0 => call.old = 0 /\ call.new = 0
         /\ call.op = "write" => call.new = Handle.size /\ call.todo # <<>>
         /\ pc = "case" /\ Handle.first # 0 =>
              /\ call.new <= Handle.size
              /\ \/ Pos(Handle) = call.old /\ Handle.cursor < SectorSize
                 \/ call.new < call.old /\ call.old % ClusterBytes = 0
         /\ pc = "seek" /\ "WRITE" \notin Handle.flags /\ Handle.first # 0 =>
              Pos(Handle) = call.old /\ ~RiskySeek(Handle, call.new)
         /\ call.new \in Nat /\ call.old \in Nat
  <1>0. Cur = Handle /\ call.fd = 0 /\ Handle \in FileS /\ call \in Calls /\ 0 \in Handles
    BY Sole DEF Sound, TypeInv
  <1>1. call.seeking
    BY DEF Sound, ChainInv, AccessInv
  <1>2. call.op \in {"write", "lseek"}
    BY <1>1 DEF Sound, PosixInv, FlowInv
  <1>3. IsOpen(0)
    <2>1. pc # "idle" /\ call.op # "unlink"
      BY <1>2 DEF SeekLabels
    <2> QED BY <1>0, <2>1 DEF Sound, VolumeInv, CallInv
  <1>4. pc \in {"walk", "walked"} => Handle.first # 0
    BY <1>0 DEF Sound, VolumeInv, CallInv, NeedsStored
  <1>5. pc = "case" /\ Handle.first = 0 => call.old = 0 /\ call.new = 0
    BY <1>0 DEF Sound, VolumeInv, SeekInv
  <1>6. call.op = "write" => call.new = Handle.size /\ call.todo # <<>>
    BY <1>1 DEF Sound, PosixInv, PlaceInv, SeekLabels
  <1>7. call.new \in Nat /\ call.old \in Nat
    BY <1>0 DEF Calls
  <1>8. CASE "WRITE" \in Handle.flags
    <2>1. WriterSeeks
      BY <1>0, <1>1, <1>8 DEF WriterSeeks
    <2>2. PICK rank \in Ranks : SeekerInv(rank)
      BY DEF Sound, ChainInv, RankInv
    <2>3. /\ "DIRTY" \notin Handle.flags
          /\ pc = "case" =>
              /\ call.new <= Handle.size
              /\ \/ Pos(Handle) = call.old /\ Handle.cursor < SectorSize
                 \/ call.new < call.old /\ call.old % ClusterBytes = 0
      <3>1. ~SeekFlushing
        BY DEF SeekFlushing, SeekLabels
      <3> QED BY <1>0, <2>1, <2>2, <3>1 DEF SeekerInv
    <2> QED BY <1>1, <1>2, <1>3, <1>4, <1>5, <1>6, <1>7, <1>8, <2>3
  <1>9. CASE "WRITE" \notin Handle.flags
    <2>1. "DIRTY" \notin Handle.flags
      BY <1>0, <1>9 DEF Sound, ChainInv, AccessInv, FlagsInv, Handle
    <2>2. ASSUME Handle.first # 0
          PROVE  /\ pc = "case" =>
                    /\ call.new <= Handle.size
                    /\ \/ Pos(Handle) = call.old /\ Handle.cursor < SectorSize
                       \/ call.new < call.old /\ call.old % ClusterBytes = 0
                 /\ pc = "seek" => Pos(Handle) = call.old /\ ~RiskySeek(Handle, call.new)
      <3>1. Reading
        BY <1>3, <1>9, <2>2 DEF Reading
      <3> QED BY <1>1, <3>1 DEF Sound, PosixInv, ReaderInv
    <2> QED BY <1>1, <1>2, <1>3, <1>4, <1>5, <1>6, <1>7, <1>9, <2>1, <2>2
  <1> QED BY <1>8, <1>9

\* fat_lseek after its flush.
LEMMA SeekFlushedRefines ==
  ASSUME SoleUse, Sound, TypeInv', VolumeInv', SeekFlushed
  PROVE  Refines
  <1>0. Cur = Handle /\ Handle \in FileS /\ call \in Calls /\ SectorSize \in Nat
    BY Sole, GeometryAssumption DEF Sound, TypeInv
  <1>1. /\ pc = "seek" /\ call.new <= Handle.size /\ UNCHANGED <<fat, read_only, ret>>
        /\ NoWrite /\ Handle' = Handle
        /\ \/ Handle.cursor = SectorSize /\ pc' = "flush" /\ call' = [call EXCEPT !.flush = "sector"]
           \/ Handle.cursor # SectorSize /\ pc' = "case" /\ call' = call
    BY <1>0 DEF SeekFlushed, NoWrite, Quiet, Handle, InFile, SectorUsedUp
  <1>2. /\ IsOpen(0) /\ call.seeking /\ call.op \in {"write", "lseek"}
        /\ "DIRTY" \notin Handle.flags
        /\ "WRITE" \notin Handle.flags /\ Handle.first # 0 =>
              Pos(Handle) = call.old /\ ~RiskySeek(Handle, call.new)
        /\ call.new \in Nat /\ call.old \in Nat
        /\ call.op = "write" => call.new = Handle.size /\ call.todo # <<>>
    BY <1>1, AtSeeking DEF SeekLabels
  <1>3. /\ call'.op = call.op /\ call'.seeking = call.seeking /\ call'.todo = call.todo
        /\ call'.n = call.n /\ call'.got = call.got /\ call'.new = call.new
        /\ call'.old = call.old /\ call'.next = call.next /\ call'.info = call.info
        /\ pc' = "flush" => call'.flush = "sector"
    BY <1>0, <1>1 DEF Calls
  <1>4. FlowInv /\ ReaderInv /\ PlaceInv
    BY DEF Sound, PosixInv
  <1>5. FlowInv'
    BY <1>1, <1>2, <1>3, <1>4
       DEF FlowInv, Flushing, Hopping, Closing, Loading, Linked, Crossing, Walking
  <1>6. ~Walking /\ ~Walking'
    BY <1>1, <1>3 DEF Walking
  <1>7. Steady /\ GoesOn
    BY <1>1, <1>2, <1>3, <1>6 DEF Steady, GoesOn
  <1>8. ReaderInv'
    <2>1. SamePlace(Handle', Handle)
      BY <1>1 DEF SamePlace
    <2>2. /\ Walk' = Walk
          /\ \A i : OnCluster(Walk, Handle, i)' <=> OnCluster(Walk, Handle, i)
          /\ AtEnd(Handle)' <=> AtEnd(Handle)
          /\ Pos(Handle)' = Pos(Handle)
          /\ Reading' <=> Reading
      BY <1>1, <2>1, ReaderSame
    <2>3. ~Crossing' /\ pc' # "select"
      BY <1>1 DEF Crossing, Linked
    <2>4. ASSUME Reading
          PROVE  /\ Pos(Handle) = call.old
                 /\ Handle.cursor = SectorSize => call.new < Handle.size \/ call.old < Handle.size
                 /\ Handle.cursor # SectorSize => Handle.cursor < SectorSize
      <3>1. Pos(Handle) = call.old /\ ~RiskySeek(Handle, call.new)
        BY <1>2, <2>4 DEF Reading
      <3>2. Handle.cursor = SectorSize => ~(Pos(Handle) = call.new /\ call.new = Handle.size)
        BY <2>4, <3>1 DEF Reading, RiskySeek
      <3>3. Pos(Handle) <= Handle.size /\ Handle.size \in Nat
        BY <1>0, <1>4 DEF PlaceInv, FileS
      <3>4. Handle.cursor # SectorSize => Handle.cursor < SectorSize
        BY <1>0 DEF FileS
      <3> QED BY <1>1, <1>2, <3>1, <3>2, <3>3, <3>4
    <2> QED BY <1>1, <1>3, <1>4, <1>6, <2>2, <2>3, <2>4 DEF ReaderInv, Flushing, Loading
  <1> QED BY <1>1, <1>5, <1>6, <1>7, <1>8, CallMoves

\* fat_lseek goes to a cluster of the chain, from its first one on.
LEMMA WalkGoes ==
  ASSUME SoleUse, Sound, TypeInv', VolumeInv', pc \in {"case", "walked"}, pc' = "walk",
         UNCHANGED <<fat, dir, disk, read_only, ret>>, NEW i \in Nat,
         call' = [call EXCEPT !.i = i], NEW c, Handle' = [Handle EXCEPT !.cluster = c],
         Handle.first # 0,
         "WRITE" \notin Handle.flags =>
           /\ call.new <= Handle.size /\ i <= call.new \div ClusterBytes /\ i \in 0 .. LastCluster
           /\ \/ c = Walk[i] /\ c \in Clusters
              \/ c = Bad /\ call.new = Handle.size /\ call.new = i * ClusterBytes
  PROVE  Refines
  <1>0. Handle \in FileS /\ call \in Calls
    BY Sole DEF Sound, TypeInv
  <1>1. /\ IsOpen(0) /\ call.seeking /\ call.op \in {"write", "lseek"}
        /\ "DIRTY" \notin Handle.flags
        /\ call.op = "write" => call.new = Handle.size /\ call.todo # <<>>
    BY AtSeeking DEF SeekLabels
  <1>2. /\ call'.op = call.op /\ call'.seeking = call.seeking /\ call'.todo = call.todo
        /\ call'.n = call.n /\ call'.got = call.got /\ call'.new = call.new
        /\ call'.old = call.old /\ call'.i = i
    BY <1>0 DEF Calls
  <1>3. /\ Handle'.flags = Handle.flags /\ Handle'.first = Handle.first
        /\ Handle'.size = Handle.size /\ Handle'.entry = Handle.entry
        /\ Handle'.cursor = Handle.cursor /\ Handle'.file_sector = Handle.file_sector
        /\ Handle'.ro = Handle.ro /\ Handle'.sector = Handle.sector /\ Handle'.cluster = c
    BY <1>0 DEF FileS
  <1>4. Walking' /\ ~Crossing' /\ ~Loading'
    BY DEF Walking, Crossing, Loading, Linked
  <1>5. FlowInv'
    BY <1>1, <1>2, <1>3, <1>4 DEF FlowInv, Flushing, Hopping, Closing, Linked
  <1>6. Pos(Handle') = Pos(Handle) /\ Handle.sector \in Sectors
    BY <1>1, <1>3, HandleSector DEF Pos
  <1>7. Steady /\ GoesOn
    BY <1>1, <1>2, <1>3, <1>6 DEF Steady, GoesOn
  <1>8. ReaderInv'
    <2>1. Walk' = Walk
      BY <1>3, WalksNow DEF Walk
    <2> QED BY <1>2, <1>3, <1>4, <2>1 DEF ReaderInv, Reading, Flushing
  <1>9. BufferInv' /\ PlainInv' /\ StoredInv'
    BY <1>3, <1>4, <1>7, SteadyPlain, SteadyStored DEF BufferInv
  <1>10. \A p \in 0 .. Handle.size - 1 :
           FileByte(fat', disk', Handle', p) = FileByte(fat, disk, Handle, p)
    BY <1>1, <1>3 DEF FileByte
  <1> QED BY <1>5, <1>7, <1>8, <1>9, <1>10, SteadyRefines

\* fat_lseek starts to walk at the first cluster.
LEMMA SeekRewindRefines ==
  ASSUME SoleUse, Sound, TypeInv', VolumeInv', SeekRewind
  PROVE  Refines
  <1>0. /\ Cur = Handle /\ Handle \in FileS /\ call \in Calls /\ LastCluster \in Nat
        /\ \A g : SetCur(g) => Handle' = g
    BY Sole, GeometryAssumption DEF Sound, TypeInv
  <1>1. SetCur([Cur EXCEPT !.cluster = Cur.first])
    BY DEF SeekRewind
  <1>2. /\ pc = "case" /\ pc' = "walk" /\ call' = [call EXCEPT !.i = 0]
        /\ Handle' = [Handle EXCEPT !.cluster = Handle.first]
        /\ UNCHANGED <<fat, dir, disk, read_only, ret>>
        /\ call.old \div ClusterBytes # call.new \div ClusterBytes
    BY <1>0, <1>1 DEF SeekRewind, NoWrite, Quiet
  <1>3. Handle.first # 0 /\ call.new \in Nat /\ call.new <= Handle.size /\ IsOpen(0)
    BY <1>2, AtSeeking DEF SeekLabels
  <1>4. Handle.first \in Clusters
    BY <1>3, OpenFile DEF Sound
  <1>5. Walk[0] = Handle.first
    BY <1>4, ChainWalks DEF Walk, Sound, TypeInv
  <1>6. 0 <= call.new \div ClusterBytes /\ 0 \in 0 .. LastCluster
    BY <1>0, <1>3, PositiveSizes
  <1> QED BY <1>2, <1>3, <1>4, <1>5, <1>6, WalkGoes

\* The cluster fat_lseek has reached.
LEMMA AtWalk ==
  ASSUME SoleUse, Sound, pc \in {"walk", "walked"}
  PROVE  /\ IsOpen(0) /\ Handle.first # 0 /\ call.new <= Handle.size /\ call.i \in 0 .. LastCluster
         /\ pc = "walk" =>
              \/ Handle.cluster = Walk[call.i] /\ Handle.cluster \in Clusters
              \/ /\ Handle.cluster = Bad /\ "WRITE" \notin Handle.flags
                 /\ call.new = Handle.size /\ call.new = call.i * ClusterBytes
         /\ pc = "walked" => 
              /\ call.i < call.new \div ClusterBytes /\ call.i + 1 <= LastCluster
              /\ \/ call.res = Walk[call.i + 1] /\ call.res \in Clusters
                 \/ /\ call.res = Bad /\ call.new = Handle.size
                    /\ call.new = (call.i + 1) * ClusterBytes
  <1>0. LastCluster \in Nat
    BY GeometryAssumption
  <1>1. IsOpen(0) /\ call.seeking /\ Handle.first # 0 /\ Walking
    BY AtSeeking DEF SeekLabels, Walking
  <1>2. CASE "WRITE" \in Handle.flags
    <2>1. /\ call.new <= Handle.size /\ call.i \in 0 .. LastCluster
          /\ Handle.cluster = Walk[call.i] /\ Handle.cluster \in Clusters
          /\ pc # "walk" => call.i < call.new \div ClusterBytes
          /\ pc = "walked" =>
               /\ call.i + 1 \in 0 .. LastCluster
               /\ call.res = Walk[call.i + 1] /\ call.res \in Clusters
      BY <1>1, <1>2, WriterWalks DEF Sound
    <2>2. pc = "walked" => call.i + 1 <= LastCluster /\ call.i < call.new \div ClusterBytes
      BY <1>0, <2>1
    <2> QED BY <1>1, <2>1, <2>2
  <1>3. CASE "WRITE" \notin Handle.flags
    <2>1. Reading
      BY <1>1, <1>3 DEF Reading
    <2> QED BY <1>1, <1>3, <2>1 DEF Sound, PosixInv, ReaderInv
  <1> QED BY <1>2, <1>3

\* fat_lseek moves to the cluster fat_next_cluster has found.
LEMMA WalkMoveRefines ==
  ASSUME SoleUse, Sound, TypeInv', VolumeInv', WalkMove
  PROVE  Refines
  <1>0. /\ Cur = Handle /\ Handle \in FileS /\ call \in Calls /\ LastCluster \in Nat
        /\ \A g : SetCur(g) => Handle' = g
    BY Sole, GeometryAssumption DEF Sound, TypeInv
  <1>1. SetCur([Cur EXCEPT !.cluster = call.res])
    BY DEF WalkMove
  <1>2. /\ pc = "walked" /\ pc' = "walk" /\ call' = [call EXCEPT !.i = call.i + 1]
        /\ Handle' = [Handle EXCEPT !.cluster = call.res]
        /\ UNCHANGED <<fat, dir, disk, read_only, ret>>
    BY <1>0, <1>1 DEF WalkMove, NoWrite, Quiet
  <1>3. /\ Handle.first # 0 /\ call.new <= Handle.size /\ call.i \in 0 .. LastCluster
        /\ call.i < call.new \div ClusterBytes /\ call.i + 1 <= LastCluster
        /\ \/ call.res = Walk[call.i + 1] /\ call.res \in Clusters
           \/ /\ call.res = Bad /\ call.new = Handle.size
              /\ call.new = (call.i + 1) * ClusterBytes
    BY <1>2, AtWalk
  <1>4. call.i \in Nat /\ call.new \div ClusterBytes \in Nat
    BY <1>0, PositiveSizes DEF Calls
  <1>5. call.i + 1 \in Nat /\ call.i + 1 <= call.new \div ClusterBytes /\ call.i + 1 \in 0 .. LastCluster
    BY <1>0, <1>3, <1>4
  <1> QED BY <1>2, <1>3, <1>5, WalkGoes

\* fat_lseek asks for the next cluster.
LEMMA WalkNextRefines ==
  ASSUME SoleUse, Sound, TypeInv', VolumeInv', WalkNext
  PROVE  Refines
  <1>0. Cur = Handle /\ Handle \in FileS /\ call \in Calls /\ ClusterBytes \in Nat \ {0}
    BY Sole, PositiveSizes DEF Sound, TypeInv
  <1>1. /\ pc = "walk" /\ pc' = "flush" /\ call.i < call.new \div ClusterBytes
        /\ call' = [call EXCEPT !.flush = "next", !.next = "walk", !.res = Bad]
        /\ UNCHANGED <<fat, read_only, ret>> /\ NoWrite /\ Handle' = Handle
    BY <1>0 DEF WalkNext, NoWrite, Quiet, Handle
  <1>2. /\ IsOpen(0) /\ call.seeking /\ call.op \in {"write", "lseek"} /\ Handle.first # 0
        /\ "DIRTY" \notin Handle.flags /\ call.new \in Nat
        /\ call.op = "write" => call.new = Handle.size /\ call.todo # <<>>
    BY <1>1, AtSeeking DEF SeekLabels
  <1>3. /\ call'.op = call.op /\ call'.seeking = call.seeking /\ call'.todo = call.todo
        /\ call'.n = call.n /\ call'.got = call.got /\ call'.new = call.new
        /\ call'.old = call.old /\ call'.next = "walk" /\ call'.flush = "next"
        /\ call'.info = call.info /\ call'.i = call.i
    BY <1>0, <1>1 DEF Calls
  <1>4. /\ call.new <= Handle.size /\ call.i \in 0 .. LastCluster
        /\ Handle.cluster = Walk[call.i] /\ Handle.cluster \in Clusters
    <2>1. /\ call.new <= Handle.size /\ call.i \in 0 .. LastCluster
          /\ \/ Handle.cluster = Walk[call.i] /\ Handle.cluster \in Clusters
             \/ call.new = call.i * ClusterBytes
      BY <1>1, AtWalk
    <2>2. call.new # call.i * ClusterBytes
      <3> SUFFICES ASSUME call.new = call.i * ClusterBytes PROVE FALSE
        OBVIOUS
      <3>1. PICK k \in Nat, b \in Nat \ {0} : k = call.i /\ b = ClusterBytes
        BY <1>0 DEF Calls
      <3>2. (k * b + 0) \div b = k
        BY <3>1, DivModUnique
      <3>3. k * b + 0 = call.new
        BY <1>2, <3>1
      <3> QED BY <1>1, <3>1, <3>2, <3>3
    <2> QED BY <2>1, <2>2
  <1>5. Walking /\ Walking' /\ ~Crossing' /\ ~Loading'
    BY <1>1, <1>3 DEF Walking, Crossing, Loading, Linked
  <1>6. FlowInv'
    BY <1>1, <1>2, <1>3, <1>5 DEF FlowInv, Flushing, Hopping, Closing, Linked
  <1>7. Steady /\ GoesOn
    BY <1>1, <1>2, <1>3, HandleSector DEF Steady, GoesOn
  <1>8. ReaderInv'
    <2>1. SamePlace(Handle', Handle)
      BY <1>1 DEF SamePlace
    <2>2. Walk' = Walk
      BY <1>1, <2>1, ReaderSame
    <2>3. call.i <= call.new \div ClusterBytes
      BY <1>0, <1>1, <1>2 DEF Calls
    <2> QED BY <1>1, <1>3, <1>4, <1>5, <2>2, <2>3 DEF ReaderInv, Reading, Flushing
  <1> QED BY <1>1, <1>5, <1>6, <1>7, <1>8, CallMoves

\* The file stays as it is while the handle moves.
LEMMA SameContent ==
  ASSUME SoleUse, Sound, TypeInv', VolumeInv', PlainInv', IsOpen(0),
         Handle'.size = Handle.size,
         Handle'.flags \ {"DIRTY", "FS_DIRTY"} = Handle.flags \ {"DIRTY", "FS_DIRTY"},
         \A p \in 0 .. Handle.size - 1 :
           FileByte(fat', disk', Handle', p) = FileByte(fat, disk, Handle, p)
  PROVE  Content' = Content /\ Exists' = Exists /\ IsOpen(0)'
  <1>0. Handle \in FileS /\ Handle.size \in Nat
    BY Sole DEF Sound, TypeInv, FileS
  <1>1. IsOpen(0)'
    BY DEF IsOpen, Handle
  <1>2. Content' = Content
    <2>1. FileBytes(fat', disk', Handle') = FileBytes(fat, disk, Handle)
      BY <1>0, SameBytes
    <2> QED BY <1>1, <2>1, BytesNow, ContentOpen, ContentOpenNext DEF Sound, PosixInv
  <1>3. Exists' = Exists
    <2>1. Exists <=> Handle.size > 0
      BY ExistsOpen DEF Sound, PosixInv
    <2>2. Exists' <=> Handle'.size > 0
      BY <1>1, ExistsOpenNext
    <2>3. Exists \in BOOLEAN /\ Exists' \in BOOLEAN
      BY DEF Exists, IsOpen
    <2> QED BY <2>1, <2>2, <2>3
  <1> QED BY <1>1, <1>2, <1>3

\* The length of a sequence.
LEMMA SequenceLength ==
  ASSUME NEW s, NEW n \in Nat, DOMAIN s = 1 .. n
  PROVE  Len(s) = n
  OBVIOUS

\* The length of the contents is the size of the file.
LEMMA ContentLength ==
  ASSUME SoleUse, Sound, IsOpen(0)
  PROVE  Len(Content) = Handle.size
  <1>1. Content = FileBytes(fat, disk, Handle)
    BY ContentOpen, BytesNow DEF Sound, PosixInv
  <1>2. DOMAIN Content = 1 .. Handle.size
    BY <1>1 DEF FileBytes
  <1>3. Handle.size \in Nat
    BY Sole DEF Sound, TypeInv, FileS
  <1> QED BY <1>2, <1>3, SequenceLength

\* fat_lseek ends, in the byte loop of an appending fat_write or with its
\* caller.
LEMMA SeekLands ==
  ASSUME SoleUse, Sound, TypeInv', VolumeInv', pc \in SeekLabels, EndSeek(TRUE),
         UNCHANGED <<fat, dir, disk, read_only, ret>>,
         Handle'.first = Handle.first, Handle'.size = Handle.size, Handle'.flags = Handle.flags,
         Handle'.ro = Handle.ro, Handle'.entry = Handle.entry,
         Pos(Handle') = call.new, call.new <= Handle.size,
         BufferInv',
         Reading' => (\E i \in 0 .. LastCluster : OnCluster(Walk', Handle', i)) \/ AtEnd(Handle)',
         \A p \in 0 .. Handle.size - 1 :
           FileByte(fat', disk', Handle', p) = FileByte(fat, disk, Handle, p)
  PROVE  Refines
  <1>0. Handle \in FileS /\ call \in Calls
    BY Sole DEF Sound, TypeInv
  <1>1. /\ IsOpen(0) /\ call.seeking /\ call.op \in {"write", "lseek"}
        /\ "DIRTY" \notin Handle.flags
        /\ call.op = "write" => call.new = Handle.size /\ call.todo # <<>>
    BY AtSeeking
  <1>2. /\ call'.op = call.op /\ ~call'.seeking /\ call'.todo = call.todo
        /\ call'.n = call.n /\ call'.got = call.got /\ call'.new = call.new
        /\ pc' = IF call.op = "write" THEN "byte" ELSE "done"
    BY <1>0 DEF Calls, EndSeek, AfterSeek
  <1>3. ~Walking' /\ ~Crossing' /\ ~Loading'
    BY <1>2 DEF Walking, Crossing, Loading, Linked
  <1>4. PlainInv'
    <2>1. PlainInv
      BY DEF Sound, PosixInv
    <2> QED BY <1>2, <2>1 DEF PlainInv, Live
  <1>5. FlowInv'
    BY <1>1, <1>2, <1>3 DEF FlowInv, Flushing, Hopping, Closing, Linked
  <1>6. PlaceInv'
    BY <1>1, <1>2, <1>3 DEF PlaceInv
  <1>7. ReaderInv'
    BY <1>2, <1>3 DEF ReaderInv, OnCluster, PlacedAt, SectorOf
  <1>8. StoredInv'
    <2>1. StoredInv
      BY DEF Sound, PosixInv
    <2> QED BY <1>1, <1>2, <2>1 DEF StoredInv, LiveSlots
  <1>9. Content' = Content /\ Exists' = Exists
    BY <1>1, <1>4, SameContent
  <1>10. Len(Content) = Handle.size
    BY <1>1, ContentLength
  <1>11. [Posix!Next]_(Posix!posix)
    <2>1. CASE call.op = "write"
      <3>1. Job.op = "append" /\ Job' = [Job EXCEPT !.op = "write"]
        BY <1>1, <1>2, <2>1 DEF Job, Phase
      <3>2. Posix!ToEnd
        BY <1>1, <1>9, <1>10, <2>1, <3>1 DEF Posix!ToEnd, Posix!Running
      <3> QED BY <3>2 DEF Posix!Next
    <2>2. CASE call.op = "lseek"
      <3>1. Job.op = "lseek" /\ Job.new = call.new /\ Job' = [Job EXCEPT !.op = "moved"]
        BY <1>1, <1>2, <2>2 DEF Job, Phase
      <3>2. Posix!Move
        BY <1>9, <1>10, <3>1 DEF Posix!Move, Posix!Running
      <3> QED BY <3>2 DEF Posix!Next
    <2> QED BY <1>1, <2>1, <2>2
  <1> QED BY <1>4, <1>5, <1>6, <1>7, <1>8, <1>11 DEF Refines, PosixInv

\* fat_lseek refuses a position behind the end.
LEMMA SeekOutsideRefines ==
  ASSUME SoleUse, Sound, TypeInv', VolumeInv', SeekOutside
  PROVE  Refines
  <1>0. Cur = Handle /\ Handle \in FileS /\ call \in Calls
    BY Sole DEF Sound, TypeInv
  <1>1. /\ pc = "seek" /\ ~(call.new <= Handle.size) /\ EndSeek(FALSE) /\ Handle' = Handle
        /\ UNCHANGED <<fat, dir, disk, read_only, ret>>
    BY <1>0 DEF SeekOutside, NoWrite, Quiet, Handle, InFile
  <1>2. /\ IsOpen(0) /\ call.seeking /\ call.op \in {"write", "lseek"}
        /\ call.op = "write" => call.new = Handle.size /\ call.new \in Nat
        /\ call.new \in Nat
    BY <1>1, AtSeeking DEF SeekLabels
  <1>3. call.op = "lseek" /\ call.new > Handle.size /\ Handle.size \in Nat
    BY <1>0, <1>1, <1>2 DEF FileS
  <1>4. /\ call'.op = call.op /\ ~call'.seeking /\ call'.todo = call.todo
        /\ call'.n = call.n /\ call'.got = call.got /\ call'.new = call.new
        /\ pc' = "fail"
    BY <1>0, <1>1, <1>3 DEF Calls, EndSeek, AfterSeek
  <1>5. ~Walking /\ ~Walking' /\ ~Crossing' /\ ~Loading'
    BY <1>1, <1>4 DEF Walking, Crossing, Loading, Linked
  <1>6. PlainInv /\ FlowInv /\ PlaceInv /\ ReaderInv /\ BufferInv /\ StoredInv
    BY DEF Sound, PosixInv
  <1>7. PlainInv'
    BY <1>1, <1>4, <1>6 DEF PlainInv, Live
  <1>8. FlowInv'
    BY <1>3, <1>4, <1>5 DEF FlowInv, Flushing, Hopping, Closing, Linked
  <1>9. PlaceInv'
    BY <1>1, <1>3, <1>4, <1>5, <1>6 DEF PlaceInv
  <1>10. ReaderInv'
    <2>1. SamePlace(Handle', Handle)
      BY <1>1 DEF SamePlace
    <2>2. /\ \A i : OnCluster(Walk, Handle, i)' <=> OnCluster(Walk, Handle, i)
          /\ AtEnd(Handle)' <=> AtEnd(Handle)
          /\ Reading' <=> Reading
      BY <1>1, <2>1, ReaderSame
    <2> QED BY <1>4, <1>5, <1>6, <2>2 DEF ReaderInv
  <1>11. BufferInv'
    BY <1>1, <1>5, <1>6 DEF BufferInv, IsOpen, Handle
  <1>12. StoredInv'
    BY <1>1, <1>2, <1>3, <1>4, <1>6 DEF StoredInv, LiveSlots, IsOpen, Handle
  <1>13. Content' = Content /\ Exists' = Exists
    <2>1. \A p \in 0 .. Handle.size - 1 :
             FileByte(fat', disk', Handle', p) = FileByte(fat, disk, Handle, p)
      BY <1>1
    <2> QED BY <1>1, <1>2, <1>7, <2>1, SameContent
  <1>14. Posix!Outside
    <2>1. Job.op = "lseek" /\ Job.new = call.new /\ Job' = [Job EXCEPT !.op = "refused"]
      BY <1>2, <1>3, <1>4 DEF Job, Phase
    <2>2. Len(Content) = Handle.size
      BY <1>2, ContentLength
    <2> QED BY <1>1, <1>3, <1>13, <2>1, <2>2 DEF Posix!Outside, Posix!Running, Posix!File
  <1> QED BY <1>7, <1>8, <1>9, <1>10, <1>11, <1>12, <1>14 DEF Refines, PosixInv, Posix!Next

\* The position fat_lseek sets.
LEMMA SetPosition ==
  ASSUME NEW f, NEW p \in Nat, f.file_sector = p \div SectorSize, f.cursor = p % SectorSize
  PROVE  Pos(f) = p
  BY SplitPosition DEF Pos

\* fat_lseek within the sector it stands on.
LEMMA SeekSectorRefines ==
  ASSUME SoleUse, Sound, TypeInv', VolumeInv', SeekSector
  PROVE  Refines
  <1>0. /\ Cur = Handle /\ Handle \in FileS /\ call \in Calls /\ SectorSize \in Nat \ {0}
        /\ \A g : SetCur(g) => Handle' = g
    BY Sole, GeometryAssumption DEF Sound, TypeInv
  <1>1. SetCur([Cur EXCEPT !.cursor = call.new % SectorSize])
    BY DEF SeekSector
  <1>2. /\ pc = "case" /\ EndSeek(TRUE) /\ UNCHANGED <<fat, dir, disk, read_only, ret>>
        /\ Handle' = [Handle EXCEPT !.cursor = call.new % SectorSize]
        /\ call.old \div SectorSize = call.new \div SectorSize
    BY <1>0, <1>1 DEF SeekSector, NoWrite, Quiet
  <1>3. /\ IsOpen(0) /\ "DIRTY" \notin Handle.flags
        /\ Handle.first = 0 => call.old = 0 /\ call.new = 0
        /\ Handle.first # 0 =>
             /\ call.new <= Handle.size
             /\ \/ Pos(Handle) = call.old /\ Handle.cursor < SectorSize
                \/ call.new < call.old /\ call.old % ClusterBytes = 0
        /\ call.new \in Nat /\ call.old \in Nat
    BY <1>2, AtSeeking DEF SeekLabels
  <1>4. /\ Handle'.flags = Handle.flags /\ Handle'.first = Handle.first
        /\ Handle'.size = Handle.size /\ Handle'.entry = Handle.entry
        /\ Handle'.cursor = call.new % SectorSize /\ Handle'.file_sector = Handle.file_sector
        /\ Handle'.ro = Handle.ro /\ Handle'.sector = Handle.sector
        /\ Handle'.cluster = Handle.cluster /\ Handle'.sectors_left = Handle.sectors_left
        /\ Handle'.buffer = Handle.buffer
    BY <1>0, <1>2 DEF FileS
  <1>5. call.new % SectorSize \in 0 .. SectorSize - 1
    BY <1>3, SplitPosition
  <1>6. ASSUME Handle.first # 0
        PROVE  /\ Pos(Handle) = call.old /\ Handle.cursor < SectorSize
               /\ Handle.file_sector = call.new \div SectorSize
    <2>1. ~(call.new < call.old /\ call.old % ClusterBytes = 0)
      <3> SUFFICES ASSUME call.new < call.old, call.old % ClusterBytes = 0 PROVE FALSE
        OBVIOUS
      <3>1. call.old % SectorSize = 0
        <4>1. PICK q \in Nat : q = call.old \div ClusterBytes
          BY <1>3, SplitPosition
        <4>2. call.old = q * ClusterBytes
          <5>1. ClusterBytes \in Nat \ {0}
            BY PositiveSizes
          <5>2. call.old = (call.old \div ClusterBytes) * ClusterBytes + (call.old % ClusterBytes)
            BY <1>3, <5>1, DivMod
          <5>3. q * ClusterBytes \in Nat
            BY <5>1
          <5> QED BY <4>1, <5>2, <5>3
        <4>3. q # 0
          <5>1. 0 * ClusterBytes = 0
            BY PositiveSizes
          <5> QED BY <1>3, <4>2, <5>1
        <4>4. PICK r \in Nat : q = r + 1
          <5>1. q - 1 \in Nat /\ q = (q - 1) + 1
            BY <4>3
          <5> QED BY <5>1
        <4> QED BY <4>2, <4>4, ClusterEnds
      <3>2. /\ call.old = (call.old \div SectorSize) * SectorSize + (call.old % SectorSize)
            /\ call.new = (call.new \div SectorSize) * SectorSize + (call.new % SectorSize)
        BY <1>3, SplitPosition
      <3>3. PICK a \in Nat, u \in Nat, m \in Nat :
              /\ a = call.old \div SectorSize /\ m = a * SectorSize /\ u = call.new % SectorSize
        <4>1. call.old \div SectorSize \in Nat /\ call.new % SectorSize \in Nat
          BY <1>0, <1>3
        <4>2. PICK a \in Nat : a = call.old \div SectorSize
          BY <4>1
        <4>3. a * SectorSize \in Nat
          BY <1>0
        <4> QED BY <4>1, <4>2, <4>3
      <3>4. call.old = m + 0 /\ call.new = m + u
        BY <1>2, <3>1, <3>2, <3>3
      <3> QED BY <3>4
    <2>2. Pos(Handle) = call.old /\ Handle.cursor < SectorSize
      BY <1>3, <1>6, <2>1
    <2>3. Handle.cursor # SectorSize
      BY <1>0, <2>2
    <2>4. Pos(Handle) \div SectorSize = Handle.file_sector
      BY <1>0, <2>3, CursorAt
    <2> QED BY <1>2, <2>2, <2>4
  <1>7. Pos(Handle') = call.new /\ call.new <= Handle.size
    <2>1. CASE Handle.first # 0
      BY <1>3, <1>4, <1>6, <2>1, SetPosition
    <2>2. CASE Handle.first = 0
      <3>1. Handle.file_sector = 0 /\ Handle.size \in Nat
        BY <1>0, <1>3, <2>2, NoClusters DEF Unstored, FileS
      <3>2. 0 \div SectorSize = 0
        BY <1>0
      <3>3. Handle'.file_sector = call.new \div SectorSize
        BY <1>3, <1>4, <2>2, <3>1, <3>2
      <3> QED BY <1>3, <1>4, <2>2, <3>1, <3>3, SetPosition
    <2> QED BY <2>1, <2>2
  <1>8. BufferInv'
    <2>1. Handle.first # 0 => Handle.buffer = disk[Handle.sector]
      BY <1>2, <1>3, <1>6 DEF Sound, PosixInv, BufferInv, Walking
    <2> QED BY <1>2, <1>4, <2>1 DEF BufferInv
  <1>9. ASSUME Reading'
        PROVE  (\E i \in 0 .. LastCluster : OnCluster(Walk', Handle', i)) \/ AtEnd(Handle)'
    <2>1. Handle.first # 0 /\ ~Walking /\ Walk' = Walk
      BY <1>2, <1>4, <1>9, WalksNow DEF Reading, Walking, Walk
    <2>2. CASE \E i \in 0 .. LastCluster : OnCluster(Walk, Handle, i)
      BY <1>4, <2>1, <2>2 DEF OnCluster, PlacedAt
    <2>3. CASE AtEnd(Handle)
      <3>1. /\ Handle.cluster = Bad /\ Handle.sector = SectorOf(Bad) /\ Handle.cursor = 0
            /\ Pos(Handle) = Handle.size /\ Handle.size % ClusterBytes = 0
        BY <2>3 DEF AtEnd
      <3>2. call.new % SectorSize = 0 /\ call.new = Handle.size
        <4>1. PICK m \in Nat, u \in Nat : /\ m = Handle.file_sector * SectorSize
                                          /\ u = call.new % SectorSize
          BY <1>0, <1>5 DEF FileS
        <4>2. Pos(Handle) = m + 0 /\ Pos(Handle') = m + u
          BY <1>4, <3>1, <4>1 DEF Pos
        <4> QED BY <1>7, <3>1, <4>1, <4>2
      <3> QED BY <1>4, <1>7, <3>1, <3>2 DEF AtEnd, SectorOf, Bad, ClusterBytes, Pos
    <2> QED BY <1>3, <2>1, <2>2, <2>3, Spot
  <1>10. \A p \in 0 .. Handle.size - 1 :
           FileByte(fat', disk', Handle', p) = FileByte(fat, disk, Handle, p)
    BY <1>2, <1>4 DEF FileByte
  <1> QED BY <1>2, <1>4, <1>7, <1>8, <1>9, <1>10, SeekLands DEF SeekLabels

\* The handle on the sector of position p, in the i-th cluster of the walk.
LEMMA OnPosition ==
  ASSUME NEW nth, NEW i \in 0 .. LastCluster, NEW c \in Clusters, nth[i] = c,
         NEW p \in Nat, p \div ClusterBytes = i,
         NEW j, j = (p % ClusterBytes) \div SectorSize,
         NEW f, f.cluster = c, f.file_sector = p \div SectorSize,
         f.sectors_left = SectorsPerCluster - 1 - j, f.sector = SectorOf(c) + j
  PROVE  OnCluster(nth, f, i)
  <1>1. /\ j \in 0 .. SectorsPerCluster - 1
        /\ p \div SectorSize = i * SectorsPerCluster + j
    BY SplitPosition
  <1>2. SectorsPerCluster \in Nat /\ SectorOf(c) \in Nat
    BY ClusterSectors, GeometryAssumption
  <1>3. PlacedAt(f, f.cluster)
    BY <1>1, <1>2 DEF PlacedAt
  <1>4. SectorsPerCluster - 1 - f.sectors_left = j
    BY <1>1, <1>2
  <1> QED BY <1>1, <1>3, <1>4 DEF OnCluster

\* fat_lseek loads the sector it moves to: no read fails.
LEMMA SeekLoads ==
  ASSUME SoleUse, Sound, TypeInv', VolumeInv', pc \in SeekLabels, Handle.first # 0,
         UNCHANGED <<fat, dir, disk, read_only, ret>>, call.new <= Handle.size,
         NEW f, NEW s \in Sectors, SeekLoad(f, s),
         NEW l, f = [Handle EXCEPT !.file_sector = call.new \div SectorSize,
                                   !.cursor = call.new % SectorSize, !.sectors_left = l],
         LET g == [f EXCEPT !.sector = s, !.buffer = disk[s]]
         IN (\E i \in 0 .. LastCluster : OnCluster(Walk, g, i))
              \/ (AtEnd(g) /\ "WRITE" \notin Handle.flags)
  PROVE  Refines
  <1>0. Handle \in FileS /\ call \in Calls /\ \A g : SetCur(g) => Handle' = g
    BY Sole DEF Sound, TypeInv
  <1>1. Handle' = [f EXCEPT !.sector = s, !.buffer = disk[s]] /\ EndSeek(TRUE)
    BY <1>0, NoFault DEF SeekLoad
  <1>2. /\ Handle'.flags = Handle.flags /\ Handle'.first = Handle.first
        /\ Handle'.size = Handle.size /\ Handle'.entry = Handle.entry
        /\ Handle'.cursor = call.new % SectorSize
        /\ Handle'.file_sector = call.new \div SectorSize
        /\ Handle'.ro = Handle.ro /\ Handle'.sector = s /\ Handle'.buffer = disk[s]
    BY <1>0, <1>1 DEF FileS
  <1>3. call.new \in Nat /\ "DIRTY" \notin Handle.flags
    BY AtSeeking
  <1>4. Pos(Handle') = call.new
    BY <1>2, <1>3, SetPosition
  <1>5. BufferInv'
    BY <1>2 DEF BufferInv
  <1>6. (\E i \in 0 .. LastCluster : OnCluster(Walk', Handle', i)) \/ AtEnd(Handle)'
    <2>1. Walk' = Walk
      BY <1>2, WalksNow DEF Walk
    <2>2. (\E i \in 0 .. LastCluster : OnCluster(Walk, Handle', i)) \/ AtEnd(Handle')
      BY <1>1
    <2>3. AtEnd(Handle') => AtEnd(Handle)'
      BY DEF AtEnd, Pos, SectorOf, Bad, ClusterBytes
    <2> QED BY <2>1, <2>2, <2>3
  <1>7. \A p \in 0 .. Handle.size - 1 :
           FileByte(fat', disk', Handle', p) = FileByte(fat, disk, Handle, p)
    BY <1>2, <1>3 DEF FileByte
  <1> QED BY <1>1, <1>2, <1>4, <1>5, <1>6, <1>7, SeekLands

\* fat_lseek within the cluster it stands on.
LEMMA SeekClusterRefines ==
  ASSUME SoleUse, Sound, TypeInv', VolumeInv', SeekCluster
  PROVE  Refines
  <1> DEFINE o == call.old \div SectorSize
             n == call.new \div SectorSize
             s == (Handle.sector + n - o) % Word
             l == SectorsLeft(Handle, o, n)
             f == [Handle EXCEPT !.file_sector = n, !.cursor = call.new % SectorSize,
                                 !.sectors_left = l]
             g == [f EXCEPT !.sector = s, !.buffer = disk[s]]
             k == (call.new % ClusterBytes) \div SectorSize
  <1>0. Cur = Handle /\ Handle \in FileS /\ call \in Calls /\ SectorSize \in Nat \ {0}
    BY Sole, GeometryAssumption DEF Sound, TypeInv
  <1>1. /\ pc = "case" /\ UNCHANGED <<fat, dir, disk, read_only, ret>>
        /\ o # n /\ call.old \div ClusterBytes = call.new \div ClusterBytes
        /\ SeekLoad(f, s)
    BY <1>0 DEF SeekCluster, NoWrite, Quiet
  <1>2. /\ IsOpen(0) /\ call.new \in Nat /\ call.old \in Nat /\ Handle.first # 0
        /\ call.new <= Handle.size
        /\ \/ Pos(Handle) = call.old /\ Handle.cursor < SectorSize
           \/ call.new < call.old /\ call.old % ClusterBytes = 0
    BY <1>1, AtSeeking DEF SeekLabels
  <1>3. call.old % ClusterBytes = 0 => call.new >= call.old
    <2>1. ClusterBytes \in Nat \ {0}
      BY PositiveSizes
    <2>2. /\ call.old = (call.old \div ClusterBytes) * ClusterBytes + (call.old % ClusterBytes)
          /\ call.new = (call.new \div ClusterBytes) * ClusterBytes + (call.new % ClusterBytes)
          /\ call.new % ClusterBytes \in 0 .. ClusterBytes - 1
      BY <1>2, <2>1, DivMod
    <2>3. PICK q \in Nat : q = call.old \div ClusterBytes
      BY <1>2, SplitPosition
    <2>4. PICK m \in Nat : m = q * ClusterBytes
      BY <2>1
    <2>5. PICK u \in Nat : u = call.new % ClusterBytes
      BY <1>2, <2>1
    <2>6. call.new = m + u /\ (call.old % ClusterBytes = 0 => call.old = m + 0)
      BY <1>1, <2>2, <2>3, <2>4, <2>5
    <2> QED BY <2>6
  <1>4. Pos(Handle) = call.old /\ Handle.cursor < SectorSize
    BY <1>2, <1>3
  <1>5. ~AtEnd(Handle)
    <2> SUFFICES ASSUME AtEnd(Handle) PROVE FALSE
      OBVIOUS
    <2>1. call.old = Handle.size /\ call.old % ClusterBytes = 0
      BY <1>4 DEF AtEnd
    <2>2. call.new = call.old
      BY <1>2, <1>3, <2>1
    <2> QED BY <1>1, <2>2
  <1>6. PICK i \in 0 .. LastCluster : OnCluster(Walk, Handle, i)
    BY <1>1, <1>2, <1>5, Spot DEF Walking
  <1>7. PICK c \in Clusters : c = Handle.cluster /\ Walk[i] = c /\ PlacedAt(Handle, c)
    BY <1>6 DEF OnCluster
  <1>8. /\ SectorsPerCluster \in Nat /\ SectorsPerCluster <= 255 /\ Handle.sectors_left \in Nat
        /\ Handle.sector \in Nat /\ Handle.file_sector \in Nat /\ i \in Nat
        /\ SectorOf(c) \in Nat /\ Handle.sectors_left < SectorsPerCluster
        /\ Handle.sector + Handle.sectors_left = SectorOf(c) + SectorsPerCluster - 1
        /\ Handle.file_sector = i * SectorsPerCluster + (SectorsPerCluster - 1 - Handle.sectors_left)
    BY <1>0, <1>6, <1>7, ClusterSectors, GeometryAssumption DEF FileS, PlacedAt, OnCluster
  <1>9. o = Handle.file_sector /\ call.old \div ClusterBytes = i
    <2>1. Handle.cursor # SectorSize
      BY <1>0, <1>4
    <2>2. Pos(Handle) \div SectorSize = Handle.file_sector
      BY <1>0, <2>1, CursorAt
    <2>3. o = Handle.file_sector
      BY <1>4, <2>2
    <2> QED BY <1>0, <1>2, <1>6, <2>3, SpotBytes
  <1>10. k \in 0 .. SectorsPerCluster - 1 /\ n = i * SectorsPerCluster + k
    BY <1>1, <1>2, <1>9, SplitPosition
  <1> HIDE DEF k, o, n
  <1>11. Handle.sectors_left - n + o = SectorsPerCluster - 1 - k
           /\ Handle.sector + n - o = SectorOf(c) + k
    <2>1. PICK m \in Nat : m = i * SectorsPerCluster
      BY <1>8
    <2>2. o = m + (SectorsPerCluster - 1 - Handle.sectors_left) /\ n = m + k
      BY <1>8, <1>9, <1>10, <2>1
    <2> QED BY <1>8, <1>10, <2>2
  <1>12. l = SectorsPerCluster - 1 - k
    <2> DEFINE z == SectorsPerCluster - 1 - k
    <2>1. z \in 0 .. 255
      BY <1>8, <1>10
    <2>2. l = z % 256
      BY <1>11 DEF SectorsLeft
    <2> HIDE DEF z, l
    <2>3. l = z
      BY <2>1, <2>2
    <2> QED BY <2>3 DEF z
  <1>13. s = SectorOf(c) + k
    BY <1>10, <1>11, SectorInVolume
  <1>14. s \in Sectors
    BY <1>10, <1>13, SectorsBelong
  <1> HIDE DEF l, s
  <1>15. /\ g.cluster = c /\ g.file_sector = call.new \div SectorSize
         /\ g.sectors_left = SectorsPerCluster - 1 - k /\ g.sector = SectorOf(c) + k
    BY <1>0, <1>7, <1>12, <1>13 DEF FileS, n
  <1>16. OnCluster(Walk, g, i)
    <2> HIDE DEF g
    <2>1. call.new \div ClusterBytes = i
      BY <1>1, <1>9
    <2> QED BY <1>2, <1>7, <1>15, <2>1, OnPosition DEF k
  <1>17. pc \in SeekLabels
    BY <1>1 DEF SeekLabels
  <1> QED BY <1>1, <1>2, <1>14, <1>16, <1>17, SeekLoads DEF n

\* fat_lseek loads the sector its walk has led to.
LEMMA WalkEndRefines ==
  ASSUME SoleUse, Sound, TypeInv', VolumeInv', WalkEnd
  PROVE  Refines
  <1> DEFINE k == (call.new % ClusterBytes) \div SectorSize
             s == (SectorOf(Handle.cluster) + k) % Word
             l == SectorsPerCluster - k - 1
             f == [Handle EXCEPT !.file_sector = call.new \div SectorSize,
                                 !.cursor = call.new % SectorSize, !.sectors_left = l]
             g == [f EXCEPT !.sector = s, !.buffer = disk[s]]
  <1>0. Cur = Handle /\ Handle \in FileS /\ call \in Calls /\ SectorSize \in Nat \ {0}
    BY Sole, GeometryAssumption DEF Sound, TypeInv
  <1>1. /\ pc = "walk" /\ UNCHANGED <<fat, dir, disk, read_only, ret>>
        /\ call.i = call.new \div ClusterBytes
        /\ SeekLoad(f, s)
    BY <1>0 DEF WalkEnd, NoWrite, Quiet
  <1>2. /\ IsOpen(0) /\ Handle.first # 0 /\ call.new <= Handle.size /\ call.i \in 0 .. LastCluster
        /\ \/ Handle.cluster = Walk[call.i] /\ Handle.cluster \in Clusters
           \/ /\ Handle.cluster = Bad /\ "WRITE" \notin Handle.flags
              /\ call.new = Handle.size /\ call.new = call.i * ClusterBytes
    BY <1>1, AtWalk
  <1>3. call.new \in Nat /\ pc \in SeekLabels
    BY <1>1, AtSeeking DEF SeekLabels
  <1>4. /\ g.cluster = Handle.cluster /\ g.file_sector = call.new \div SectorSize
        /\ g.sectors_left = SectorsPerCluster - k - 1 /\ g.sector = s
        /\ g.cursor = call.new % SectorSize /\ g.size = Handle.size
    BY <1>0 DEF FileS
  <1>5. k \in 0 .. SectorsPerCluster - 1 /\ SectorsPerCluster \in Nat
    <2>1. k \in 0 .. SectorsPerCluster - 1
      BY <1>3, SplitPosition
    <2>2. SectorsPerCluster \in Nat
      BY GeometryAssumption
    <2> QED BY <2>1, <2>2
  <1>6. CASE Handle.cluster = Walk[call.i] /\ Handle.cluster \in Clusters
    <2>1. PICK c \in Clusters : c = Handle.cluster /\ Walk[call.i] = c
      BY <1>6
    <2>2. s = SectorOf(c) + k
      BY <1>5, <2>1, SectorInVolume
    <2>3. s \in Sectors
      BY <1>5, <2>2, SectorsBelong
    <2>4. OnCluster(Walk, g, call.i)
      <3>1. SectorsPerCluster - k - 1 = SectorsPerCluster - 1 - k
        BY <1>5
      <3> HIDE DEF g, s
      <3>2. g.cluster = c /\ g.sectors_left = SectorsPerCluster - 1 - k /\ g.sector = SectorOf(c) + k
        BY <1>4, <2>1, <2>2, <3>1
      <3> QED BY <1>1, <1>2, <1>3, <1>4, <2>1, <3>2, OnPosition
    <2> HIDE DEF s, l
    <2> QED BY <1>1, <1>2, <1>3, <2>3, <2>4, SeekLoads
  <1>7. CASE /\ Handle.cluster = Bad /\ "WRITE" \notin Handle.flags
             /\ call.new = Handle.size /\ call.new = call.i * ClusterBytes
    <2>1. PICK q \in Nat, b \in Nat \ {0} : q = call.i /\ b = ClusterBytes
      BY <1>0, PositiveSizes DEF Calls
    <2>2. call.new % ClusterBytes = 0
      <3>1. (q * b + 0) % b = 0
        BY <2>1, DivModUnique
      <3>2. q * b + 0 = call.new
        BY <1>7, <2>1, <1>3
      <3> QED BY <2>1, <3>1, <3>2
    <2>3. k = 0
      <3>1. 0 \div SectorSize = 0
        BY <1>0
      <3> QED BY <2>2, <3>1
    <2>4. call.new % SectorSize = 0
      <3>1. CASE q = 0
        <4>1. call.new = 0
          BY <1>7, <2>1, <3>1
        <4> QED BY <1>0, <4>1
      <3>2. CASE q # 0
        <4>1. PICK r \in Nat : q = r + 1
          <5>1. q - 1 \in Nat /\ q = (q - 1) + 1
            BY <3>2
          <5> QED BY <5>1
        <4>2. call.new = (r + 1) * ClusterBytes
          BY <1>7, <2>1, <4>1
        <4> QED BY <4>2, ClusterEnds
      <3> QED BY <3>1, <3>2
    <2>5. s = SectorOf(Bad) /\ s \in Sectors
      <3>1. SectorOf(Bad) \in Sectors
        BY EndSector
      <3>2. Sectors \subseteq 0 .. Word - 1 /\ Word \in Nat
        BY GeometryAssumption DEF Sectors, LastSector
      <3>3. PICK t \in Nat : t = SectorOf(Bad) /\ t < Word
        <4> HIDE DEF k, s, l, f, g
        <4>1. SectorOf(Bad) \in 0 .. Word - 1
          BY <3>1, <3>2
        <4>2. PICK t \in 0 .. Word - 1 : t = SectorOf(Bad)
          BY <4>1, Zenon
        <4> QED BY <3>2, <4>2
      <3>4. (t + 0) % Word = t
        BY <3>2, <3>3
      <3>5. s = SectorOf(Bad)
        BY <1>7, <2>3, <3>3, <3>4
      <3> QED BY <3>1, <3>5
    <2>6. AtEnd(g)
      <3> HIDE DEF g, s
      <3>1. Pos(g) = call.new
        BY <1>3, <1>4, SetPosition
      <3> QED BY <1>4, <1>7, <2>2, <2>4, <2>5, <3>1 DEF AtEnd
    <2> HIDE DEF s, l
    <2> QED BY <1>1, <1>2, <1>3, <1>7, <2>5, <2>6, SeekLoads
  <1> QED BY <1>2, <1>6, <1>7

\* Every step of fat_lseek.
LEMMA SeekRefines ==
  ASSUME SoleUse, Sound, TypeInv', VolumeInv', SeekStep
  PROVE  Refines
  BY SeekOutsideRefines, SeekFlushedRefines, SeekSectorRefines, SeekClusterRefines,
     SeekRewindRefines, WalkNextRefines, WalkMoveRefines, WalkEndRefines DEF SeekStep

-----------------------------------------------------------------------------
(* The byte loops. *)

\* In the byte loops the handle is open, and no seek is running.
LEMMA InBytes ==
  ASSUME SoleUse, Sound, pc = "byte"
  PROVE  /\ IsOpen(0) /\ ~call.seeking /\ call.op \in {"read", "write"}
         /\ ~Walking /\ ~Crossing
         /\ call.op = "write" => "WRITE" \in Handle.flags
         /\ Pos(Handle) <= Handle.size
  <1>1. Cur = Handle /\ call.fd = 0
    BY Sole DEF Sound, TypeInv
  <1>2. call.op \in {"read", "write"} /\ Pos(Handle) <= Handle.size
    BY DEF Sound, PosixInv, FlowInv, PlaceInv
  <1>3. /\ IsOpen(0) /\ ~call.seeking
        /\ call.op = "write" => "WRITE" \in Handle.flags
    BY <1>1, <1>2 DEF Sound, VolumeInv, CallInv
  <1>4. ~Walking /\ ~Crossing
    BY DEF Walking, Crossing, Linked
  <1> QED BY <1>2, <1>3, <1>4

\* A byte is moved within the cluster a reader stands on.
LEMMA ByteReader ==
  ASSUME SoleUse, Sound, pc = "byte", pc' \in {"byte", "flush", "done"}, ~call'.seeking,
         call'.flush = "sector" \/ pc' # "flush",
         fat' = fat, Handle' = Handle
  PROVE  ReaderInv'
  <1>1. ReaderInv /\ ~Walking
    BY InBytes DEF Sound, PosixInv
  <1>2. /\ \A i : OnCluster(Walk, Handle, i)' <=> OnCluster(Walk, Handle, i)
        /\ AtEnd(Handle)' <=> AtEnd(Handle)
        /\ Reading' <=> Reading
    BY ReaderSame DEF SamePlace
  <1>3. ~Crossing' /\ pc' # "select"
    BY DEF Crossing, Linked
  <1> QED BY <1>1, <1>2, <1>3 DEF ReaderInv

\* The byte loops call fat_next_sector.
LEMMA NeedSectorRefines ==
  ASSUME SoleUse, Sound, TypeInv', VolumeInv', pc = "byte", SectorUsedUp(Cur), NeedSector,
         Quiet, NoWrite,
         call.op = "write" => call.todo # <<>>,
         call.op = "read" => call.n > 0 /\ Pos(Handle) < Handle.size
  PROVE  Refines
  <1>0. Cur = Handle /\ Handle \in FileS /\ call \in Calls
    BY Sole DEF Sound, TypeInv
  <1>1. /\ pc' = "flush" /\ call' = [call EXCEPT !.flush = "sector"] /\ Handle' = Handle
        /\ Handle.cursor = SectorSize /\ UNCHANGED <<fat, read_only, ret>>
    BY <1>0 DEF NeedSector, Handle, SectorUsedUp, Quiet, NoWrite
  <1>2. /\ call'.op = call.op /\ call'.seeking = call.seeking /\ call'.todo = call.todo
        /\ call'.n = call.n /\ call'.got = call.got /\ call'.new = call.new
        /\ call'.flush = "sector"
    BY <1>0, <1>1 DEF Calls
  <1>3. /\ IsOpen(0) /\ ~call.seeking /\ call.op \in {"read", "write"} /\ ~Walking
    BY InBytes
  <1>4. FlowInv'
    BY <1>1, <1>2, <1>3 DEF FlowInv, Flushing, Hopping, Closing, Linked
  <1>5. ~Walking'
    BY <1>1, <1>2 DEF Walking
  <1>6. Steady /\ GoesOn
    BY <1>1, <1>2, <1>3, <1>5 DEF Steady, GoesOn
  <1>7. ReaderInv'
    BY <1>1, <1>2, <1>3, ByteReader
  <1> QED BY <1>1, <1>3, <1>4, <1>6, <1>7, CallMoves

\* The byte loops end.
LEMMA BytesDoneRefines ==
  ASSUME SoleUse, Sound, TypeInv', VolumeInv', BytesDone
  PROVE  Refines
  <1>0. Cur = Handle /\ Handle \in FileS /\ call \in Calls /\ Pos(Handle) \in Nat
    BY Sole, CursorAt DEF Sound, TypeInv
  <1>1. /\ pc = "byte" /\ pc' = "done" /\ call' = call /\ Handle' = Handle
        /\ UNCHANGED <<fat, read_only, ret>> /\ NoWrite
        /\ \/ call.op = "write" /\ call.todo = <<>>
           \/ call.op = "read" /\ (call.n = 0 \/ Pos(Handle) >= Handle.size)
    BY <1>0 DEF BytesDone, Handle, Quiet, NoWrite
  <1>2. /\ IsOpen(0) /\ ~call.seeking /\ call.op \in {"read", "write"} /\ ~Walking
        /\ Pos(Handle) <= Handle.size
    BY <1>1, InBytes
  <1>3. call.op = "read" => call.n = 0 \/ Pos(Handle) = Handle.size
    BY <1>0, <1>1, <1>2 DEF FileS
  <1>4. FlowInv'
    BY <1>1, <1>2 DEF FlowInv, Flushing, Hopping, Closing, Linked, Loading, Crossing
  <1>5. ~Walking'
    BY <1>1 DEF Walking
  <1>6. Steady /\ GoesOn
    BY <1>1, <1>2, <1>3, <1>5 DEF Steady, GoesOn
  <1>7. ReaderInv'
    BY <1>1, <1>2, ByteReader
  <1> QED BY <1>1, <1>2, <1>4, <1>6, <1>7, CallMoves

\* Functions from 1 .. n are sequences.
LEMMA FunctionIsSeq ==
  ASSUME NEW n \in Nat, NEW f, f = [i \in 1 .. n |-> f[i]], NEW x
  PROVE  f \in Seq({f[i] : i \in 1 .. n} \cup {x})
  OBVIOUS

\* Append as a function.
LEMMA AppendIs ==
  ASSUME NEW S, NEW s \in Seq(S), NEW x \in S, NEW t, NEW n \in Nat, Len(s) = n,
         t = [i \in 1 .. n + 1 |-> t[i]],
         \A i \in 1 .. n : t[i] = s[i], t[n + 1] = x
  PROVE  t = Append(s, x)
  <1>1. Append(s, x) \in Seq(S) /\ Len(Append(s, x)) = n + 1
    OBVIOUS
  <1>2. Append(s, x) = [i \in 1 .. n + 1 |-> Append(s, x)[i]]
    <2>1. PICK u \in Seq(S) : u = Append(s, x) /\ Len(u) = n + 1
      BY <1>1
    <2>2. u = [i \in 1 .. Len(u) |-> u[i]]
      OBVIOUS
    <2> QED BY <2>1, <2>2
  <1>3. \A i \in 1 .. n : Append(s, x)[i] = s[i]
    OBVIOUS
  <1>4. Append(s, x)[n + 1] = x
    OBVIOUS
  <1>5. \A i \in 1 .. n + 1 : Append(s, x)[i] = t[i]
    <2> SUFFICES ASSUME NEW i \in 1 .. n + 1 PROVE Append(s, x)[i] = t[i]
      OBVIOUS
    <2>1. i \in 1 .. n \/ i = n + 1
      OBVIOUS
    <2> QED BY <1>3, <1>4, <2>1
  <1> QED BY <1>2, <1>5

\* One byte has been put into the buffer, at the end of the file or before it.
PutInto(g, x) ==
  /\ g.first = Handle.first /\ g.file_sector = Handle.file_sector
  /\ "DIRTY" \in g.flags /\ g.buffer = [Handle.buffer EXCEPT ![Handle.cursor] = x]
Grown == IF Pos(Handle) = Handle.size THEN Handle.size + 1 ELSE Handle.size

\* The bytes of the file then.
LEMMA BytePut ==
  ASSUME SoleUse, Sound, pc = "byte", Handle.cursor # SectorSize, NEW x, NEW g, PutInto(g, x),
         NEW p \in 0 .. Grown - 1
  PROVE  FileByte(fat, disk, g, p) = IF p = Pos(Handle) THEN x ELSE FileByte(fat, disk, Handle, p)
  <1>0. /\ Handle \in FileS /\ SectorSize \in Nat \ {0} /\ Handle.size \in Nat
        /\ Grown \in Nat /\ p \in Nat
    BY Sole, GeometryAssumption DEF Sound, TypeInv, FileS, Grown
  <1>1. /\ IsOpen(0) /\ ~Walking /\ Pos(Handle) <= Handle.size
    BY InBytes
  <1>2. /\ Pos(Handle) \div SectorSize = Handle.file_sector
        /\ Pos(Handle) % SectorSize = Handle.cursor
        /\ Handle.cursor \in 0 .. SectorSize - 1 /\ Pos(Handle) \in Nat
    BY <1>0, CursorAt
  <1>3. CASE p \div SectorSize # Handle.file_sector
    BY <1>2, <1>3 DEF FileByte, PutInto
  <1>4. CASE p \div SectorSize = Handle.file_sector /\ p = Pos(Handle)
    <2>1. Handle.buffer \in [0 .. SectorSize - 1 -> Cells]
      BY <1>0 DEF FileS, Block
    <2>2. g.buffer[Handle.cursor] = x
      BY <1>2, <2>1 DEF PutInto
    <2> QED BY <1>2, <1>4, <2>2 DEF FileByte, PutInto
  <1>5. CASE p \div SectorSize = Handle.file_sector /\ p # Pos(Handle)
    <2>1. p \in 0 .. Handle.size - 1
      BY <1>0, <1>1, <1>2, <1>5 DEF Grown
    <2>2. FileByte(fat, disk, Handle, p) = Handle.buffer[p % SectorSize]
      BY <1>1, <1>5, <2>1, BufferedBytes
    <2>3. p % SectorSize # Handle.cursor
      BY <1>0, <1>5, SetPosition
    <2>4. g.buffer[p % SectorSize] = Handle.buffer[p % SectorSize]
      BY <2>3 DEF PutInto
    <2> QED BY <1>5, <2>2, <2>4 DEF FileByte, PutInto
  <1> QED BY <1>3, <1>4, <1>5

\* The loop of fat_write: a byte put into the buffer is PutByte.
LEMMA WriteByteRefines ==
  ASSUME SoleUse, Sound, TypeInv', VolumeInv', WriteByte
  PROVE  Refines
  <1> DEFINE grows == Pos(Handle) = Handle.size
             x == Head(call.todo)
             n == IF grows THEN Handle.size + 1 ELSE Handle.size
             g == [Handle EXCEPT !.buffer = [@ EXCEPT ![Handle.cursor] = x],
                                 !.cursor = @ + 1, !.size = n,
                                 !.flags = @ \cup {"DIRTY"} \cup
                                           (IF grows THEN {"FS_DIRTY"} ELSE {})]
  <1>0. /\ Cur = Handle /\ Handle \in FileS /\ call \in Calls /\ SectorSize \in Nat \ {0}
        /\ \A f : SetCur(f) => Handle' = f
        /\ Handle.size \in Nat /\ n \in Nat
    BY Sole, GeometryAssumption DEF Sound, TypeInv, FileS
  <1>1. /\ pc = "byte" /\ call.op = "write" /\ call.todo # <<>> /\ Quiet /\ NoWrite
        /\ UNCHANGED <<fat, dir, disk, read_only, ret>>
    BY DEF WriteByte, Quiet, NoWrite
  <1>2. CASE SectorUsedUp(Cur)
    <2>1. NeedSector
      BY <1>2 DEF WriteByte
    <2> QED BY <1>1, <1>2, <2>1, NeedSectorRefines
  <1>3. CASE ~SectorUsedUp(Cur)
    <2>1. /\ SetCur(g) /\ call' = [call EXCEPT !.todo = Tail(@)] /\ pc' = "byte"
      BY <1>0, <1>1, <1>3 DEF WriteByte
    <2>2. /\ Handle'.first = Handle.first /\ Handle'.ro = Handle.ro /\ Handle'.entry = Handle.entry
          /\ Handle'.file_sector = Handle.file_sector /\ Handle'.cursor = Handle.cursor + 1
          /\ Handle'.size = n /\ "DIRTY" \in Handle'.flags
          /\ Handle'.flags \ {"DIRTY", "FS_DIRTY"} = Handle.flags \ {"DIRTY", "FS_DIRTY"}
          /\ grows => "FS_DIRTY" \in Handle'.flags
          /\ "FS_DIRTY" \in Handle.flags => "FS_DIRTY" \in Handle'.flags
          /\ Handle'.buffer = [Handle.buffer EXCEPT ![Handle.cursor] = x]
      <3>1. Handle' = g
        BY <1>0, <2>1
      <3>2. /\ g.first = Handle.first /\ g.ro = Handle.ro /\ g.entry = Handle.entry
            /\ g.file_sector = Handle.file_sector /\ g.cursor = Handle.cursor + 1
            /\ g.size = n /\ g.buffer = [Handle.buffer EXCEPT ![Handle.cursor] = x]
            /\ g.flags = Handle.flags \cup {"DIRTY"} \cup (IF grows THEN {"FS_DIRTY"} ELSE {})
        <4> HIDE DEF n, x, grows
        <4> QED BY <1>0 DEF FileS
      <3> HIDE DEF g, x, n, grows
      <3>3. /\ "DIRTY" \in g.flags
            /\ g.flags \ {"DIRTY", "FS_DIRTY"} = Handle.flags \ {"DIRTY", "FS_DIRTY"}
            /\ grows => "FS_DIRTY" \in g.flags
            /\ "FS_DIRTY" \in Handle.flags => "FS_DIRTY" \in g.flags
        BY <3>2
      <3> QED BY <3>1, <3>2, <3>3
    <2>3. /\ call'.op = "write" /\ call'.todo = Tail(call.todo) /\ call'.n = call.n
          /\ call'.got = call.got /\ call'.new = call.new /\ call'.seeking = call.seeking
      BY <1>0, <1>1, <2>1 DEF Calls
    <2>4. /\ IsOpen(0) /\ ~call.seeking /\ "WRITE" \in Handle.flags /\ ~Walking
          /\ Pos(Handle) <= Handle.size
      BY <1>1, InBytes
    <2>5. /\ Handle.cursor # SectorSize /\ Pos(Handle) \in Nat
          /\ Pos(Handle') = Pos(Handle) + 1
      <3>1. Handle.cursor \in Nat /\ Handle.file_sector * SectorSize \in Nat
        BY <1>0 DEF FileS
      <3> QED BY <1>0, <1>3, <2>2, <3>1 DEF Pos, SectorUsedUp
    <2> HIDE DEF g, x
    <2>6. IsOpen(0)' /\ "WRITE" \in Handle'.flags
      BY <2>2, <2>4 DEF IsOpen, Handle
    <2>7. ~Walking' /\ ~Crossing' /\ ~Loading'
      BY <2>1 DEF Walking, Crossing, Loading, Linked
    <2>8. PlainInv /\ FlowInv /\ PlaceInv /\ StoredInv
      BY DEF Sound, PosixInv
    <2>9. n > 0 /\ Pos(Handle') <= n
      BY <1>0, <2>4, <2>5
    <2>10. PlainInv'
      BY <1>1, <2>1, <2>2, <2>8, <2>9 DEF PlainInv, Live
    <2>11. FlowInv'
      BY <2>1, <2>3, <2>4, <2>7 DEF FlowInv, Flushing, Hopping, Closing, Linked
    <2>12. PlaceInv'
      BY <2>1, <2>2, <2>3, <2>4, <2>7, <2>9 DEF PlaceInv
    <2>13. ReaderInv'
      BY <2>6, WritersDoNotRead
    <2>14. BufferInv'
      BY <2>2 DEF BufferInv
    <2>15. StoredInv'
      BY <1>1, <2>2, <2>3, <2>4, <2>8 DEF StoredInv, IsOpen, Handle
    <2>16. Exists' = TRUE
      <3>1. Exists'
        BY <2>2, <2>6, <2>9, <2>10, ExistsOpenNext
      <3> QED BY <3>1 DEF Exists, IsOpen
    <2>17. Len(Content) = Handle.size /\ Content = FileBytes(fat, disk, Handle)
      BY <2>4, ContentLength, ContentOpen, BytesNow DEF Sound, PosixInv
    <2>18. Content' = FileBytes(fat, disk, Handle')
      BY <1>1, <2>6, <2>10, ContentOpenNext, BytesNow
    <2>19. \A p \in 0 .. n - 1 : FileByte(fat, disk, Handle', p)
              = IF p = Pos(Handle) THEN x ELSE FileByte(fat, disk, Handle, p)
      <3>1. n = Grown
        BY DEF Grown
      <3>2. PICK h, y : h = Handle' /\ y = x
        OBVIOUS
      <3>3. PutInto(h, y)
        BY <2>2, <3>2 DEF PutInto
      <3> HIDE DEF n, grows
      <3> QED BY <1>1, <2>5, <3>1, <3>2, <3>3, BytePut
    <2>20. Content' = IF Pos(Handle) = Len(Content) THEN Append(Content, x)
                      ELSE [Content EXCEPT ![Pos(Handle) + 1] = x]
      <3>1. CASE grows
        <4>1. n = Handle.size + 1
          BY <3>1
        <4>2. PICK m \in Nat : m = Handle.size
          BY <1>0
        <4>3. \A i \in 1 .. m + 1 : i - 1 \in 0 .. n - 1
          BY <4>1, <4>2
        <4>4. /\ Content' = [i \in 1 .. m + 1 |-> FileByte(fat, disk, Handle', i - 1)]
              /\ Content = [i \in 1 .. m |-> FileByte(fat, disk, Handle, i - 1)]
          BY <2>2, <2>17, <2>18, <4>1, <4>2 DEF FileBytes
        <4>5. \A i \in 1 .. m : Content'[i] = Content[i]
          <5> SUFFICES ASSUME NEW i \in 1 .. m PROVE Content'[i] = Content[i]
            OBVIOUS
          <5>1. i - 1 \in 0 .. n - 1 /\ i - 1 # Pos(Handle)
            BY <3>1, <4>2, <4>3
          <5> QED BY <2>19, <4>4, <5>1
        <4>6. Content'[m + 1] = x
          <5>1. (m + 1) - 1 \in 0 .. n - 1 /\ (m + 1) - 1 = Pos(Handle)
            BY <3>1, <4>2, <4>3
          <5> QED BY <2>19, <4>4, <5>1
        <4> DEFINE S == {Content[i] : i \in 1 .. m} \cup {x}
        <4>7. Content \in Seq(S) /\ x \in S
          <5>1. Content = [i \in 1 .. m |-> Content[i]]
            BY <4>4
          <5> QED BY <5>1, FunctionIsSeq
        <4>8. Content' = Append(Content, x)
          <5>1. Content' = [i \in 1 .. m + 1 |-> Content'[i]]
            BY <4>4
          <5>2. Len(Content) = m
            BY <2>17, <4>2
          <5> HIDE DEF S
          <5> QED BY <4>5, <4>6, <4>7, <5>1, <5>2, AppendIs
        <4> QED BY <2>17, <3>1, <4>8
      <3>2. CASE ~grows
        <4>1. n = Handle.size
          BY <3>2
        <4>2. /\ Content' = [i \in 1 .. n |-> FileByte(fat, disk, Handle', i - 1)]
              /\ Content = [i \in 1 .. n |-> FileByte(fat, disk, Handle, i - 1)]
          BY <2>2, <2>17, <2>18, <4>1 DEF FileBytes
        <4>3. \A i \in 1 .. n : FileByte(fat, disk, Handle', i - 1)
                = IF i = Pos(Handle) + 1 THEN x ELSE FileByte(fat, disk, Handle, i - 1)
          <5> SUFFICES ASSUME NEW i \in 1 .. n
                       PROVE FileByte(fat, disk, Handle', i - 1)
                = IF i = Pos(Handle) + 1 THEN x ELSE FileByte(fat, disk, Handle, i - 1)
            OBVIOUS
          <5>1. i - 1 \in 0 .. n - 1 /\ (i - 1 = Pos(Handle) <=> i = Pos(Handle) + 1)
            BY <1>0, <2>5
          <5> QED BY <2>19, <5>1
        <4>4. Content' = [Content EXCEPT ![Pos(Handle) + 1] = x]
          BY <4>2, <4>3
        <4> QED BY <2>17, <3>2, <4>4
      <3> QED BY <3>1, <3>2
    <2>21. Posix!PutByte
      <3>1. /\ Job.op = "write" /\ Job.todo = call.todo
            /\ Job' = [Job EXCEPT !.todo = Tail(call.todo)]
        BY <1>1, <2>3, <2>4 DEF Job, Phase
      <3>2. [Job EXCEPT !.todo = Tail(call.todo)] = [Job EXCEPT !.todo = Tail(@)]
        BY <3>1
      <3> QED BY <1>1, <2>2, <2>5, <2>16, <2>20, <3>1, <3>2 DEF Posix!PutByte, Posix!Running, x
    <2> QED BY <2>10, <2>11, <2>12, <2>13, <2>14, <2>15, <2>21 DEF Refines, PosixInv, Posix!Next
  <1> QED BY <1>2, <1>3

\* The loop of fat_read: a byte taken from the buffer is GetByte.
LEMMA ReadByteRefines ==
  ASSUME SoleUse, Sound, TypeInv', VolumeInv', ReadByte
  PROVE  Refines
  <1> DEFINE x == Handle.buffer[Handle.cursor]
             g == [Handle EXCEPT !.cursor = @ + 1]
             c == [call EXCEPT !.n = @ - 1, !.got = Append(@, x)]
  <1>0. /\ Cur = Handle /\ Handle \in FileS /\ call \in Calls /\ SectorSize \in Nat \ {0}
        /\ \A f : SetCur(f) => Handle' = f
        /\ Handle.size \in Nat
    BY Sole, GeometryAssumption DEF Sound, TypeInv, FileS
  <1>1. /\ pc = "byte" /\ call.op = "read" /\ call.n > 0 /\ Pos(Handle) < Handle.size
        /\ Quiet /\ NoWrite /\ UNCHANGED <<fat, dir, disk, read_only, ret>>
    BY <1>0 DEF ReadByte, Quiet, NoWrite
  <1>2. CASE SectorUsedUp(Cur)
    <2>1. NeedSector
      BY <1>2 DEF ReadByte
    <2> QED BY <1>1, <1>2, <2>1, NeedSectorRefines
  <1>3. CASE ~SectorUsedUp(Cur)
    <2>1. SetCur(g) /\ call' = c /\ pc' = "byte"
      BY <1>0, <1>1, <1>3 DEF ReadByte
    <2>2. /\ Handle'.first = Handle.first /\ Handle'.ro = Handle.ro /\ Handle'.entry = Handle.entry
          /\ Handle'.file_sector = Handle.file_sector /\ Handle'.cursor = Handle.cursor + 1
          /\ Handle'.size = Handle.size /\ Handle'.flags = Handle.flags
          /\ Handle'.buffer = Handle.buffer /\ Handle'.sector = Handle.sector
          /\ Handle'.cluster = Handle.cluster /\ Handle'.sectors_left = Handle.sectors_left
      BY <1>0, <2>1 DEF FileS
    <2>3. /\ call'.op = "read" /\ call'.todo = call.todo /\ call'.n = call.n - 1
          /\ call'.got = Append(call.got, x) /\ call'.new = call.new /\ call'.seeking = call.seeking
      BY <1>0, <1>1, <2>1 DEF Calls
    <2>4. /\ IsOpen(0) /\ ~call.seeking /\ ~Walking
      BY <1>1, InBytes
    <2>5. /\ Handle.cursor # SectorSize /\ Pos(Handle) \in Nat
          /\ Pos(Handle') = Pos(Handle) + 1
          /\ Pos(Handle) \div SectorSize = Handle.file_sector
          /\ Pos(Handle) % SectorSize = Handle.cursor
          /\ Handle.cursor \in 0 .. SectorSize - 1
      <3>1. Handle.cursor \in Nat /\ Handle.file_sector * SectorSize \in Nat
        BY <1>0 DEF FileS
      <3>2. Handle.cursor # SectorSize /\ Pos(Handle') = Pos(Handle) + 1
        BY <1>0, <1>3, <2>2, <3>1 DEF Pos, SectorUsedUp
      <3> QED BY <1>0, <3>2, CursorAt
    <2> HIDE DEF g, c
    <2>6. IsOpen(0)'
      BY <2>2, <2>4 DEF IsOpen, Handle
    <2>7. ~Walking' /\ ~Crossing' /\ ~Loading'
      BY <2>1 DEF Walking, Crossing, Loading, Linked
    <2>8. PlainInv /\ FlowInv /\ PlaceInv /\ ReaderInv /\ BufferInv /\ StoredInv
      BY DEF Sound, PosixInv
    <2>9. Pos(Handle') <= Handle.size
      BY <1>0, <1>1, <2>5
    <2>10. PlainInv'
      BY <1>1, <2>1, <2>2, <2>8 DEF PlainInv, Live
    <2>11. FlowInv'
      BY <2>1, <2>3, <2>4, <2>7 DEF FlowInv, Flushing, Hopping, Closing, Linked
    <2>12. PlaceInv'
      BY <2>1, <2>2, <2>3, <2>7, <2>9 DEF PlaceInv
    <2>13. ReaderInv'
      <3> SUFFICES ASSUME Reading'
                   PROVE  (\E i \in 0 .. LastCluster : OnCluster(Walk, Handle, i)')
        BY <2>1, <2>3, <2>4, <2>7 DEF ReaderInv
      <3>1. Reading /\ Walk' = Walk
        BY <1>1, <2>2, <2>4, WalksNow DEF Reading, Walk
      <3>2. ~AtEnd(Handle)
        BY <1>0, <1>1, <2>5 DEF AtEnd
      <3>3. PICK i \in 0 .. LastCluster : OnCluster(Walk, Handle, i)
        BY <2>4, <2>8, <3>1, <3>2 DEF ReaderInv
      <3>4. OnCluster(Walk, Handle, i)'
        BY <2>2, <3>1, <3>3 DEF OnCluster, PlacedAt, SectorOf
      <3> QED BY <3>4
    <2>14. BufferInv'
      <3>1. Handle'.cursor < SectorSize => Handle.cursor < SectorSize
        BY <1>0, <2>2, <2>5
      <3> QED BY <1>1, <2>2, <2>4, <2>8, <3>1 DEF BufferInv
    <2>15. StoredInv'
      BY <1>1, <2>2, <2>3, <2>4, <2>8 DEF StoredInv, IsOpen, Handle
    <2>16. Content' = Content /\ Exists' = Exists
      <3>1. \A p \in 0 .. Handle.size - 1 :
               FileByte(fat', disk', Handle', p) = FileByte(fat, disk, Handle, p)
        BY <1>1, <2>2 DEF FileByte
      <3> QED BY <2>2, <2>4, <2>10, <3>1, SameContent
    <2>17. Len(Content) = Handle.size /\ Content = FileBytes(fat, disk, Handle)
      BY <2>4, ContentLength, ContentOpen, BytesNow DEF Sound, PosixInv
    <2>18. Content[Pos(Handle) + 1] = x
      <3>1. Pos(Handle) \in 0 .. Handle.size - 1
        BY <1>0, <1>1, <2>5
      <3>2. FileByte(fat, disk, Handle, Pos(Handle)) = x
        BY <2>4, <2>5, <3>1, BufferedBytes
      <3>3. PICK p \in Nat, m \in Nat : p = Pos(Handle) /\ m = Handle.size
        BY <1>0, <2>5
      <3>4. Content = [i \in 1 .. m |-> FileByte(fat, disk, Handle, i - 1)]
        BY <2>17, <3>3 DEF FileBytes
      <3>5. p + 1 \in 1 .. m /\ (p + 1) - 1 = p
        BY <3>1, <3>3
      <3> QED BY <3>2, <3>3, <3>4, <3>5
    <2>19. Posix!GetByte
      <3>1. Job = [op |-> "read", todo |-> call.todo, n |-> call.n, got |-> call.got, new |-> 0]
        BY <1>1, <2>4 DEF Job, Phase
      <3>2. Job' = [Job EXCEPT !.n = @ - 1, !.got = Append(@, x)]
        <4> HIDE DEF x
        <4>1. PICK y, m : y = Append(call.got, x) /\ m = call.n - 1
          OBVIOUS
        <4>2. /\ call'.n = m /\ call'.got = y
              /\ call'.op = "read" /\ call'.todo = call.todo /\ call'.seeking = call.seeking
          BY <2>3, <4>1
        <4>3. Job' = [op |-> "read", todo |-> call.todo, n |-> m, got |-> y, new |-> 0]
          BY <2>4, <4>2 DEF Job, Phase
        <4>4. [Job EXCEPT !.n = m, !.got = y] = Job'
          <5>1. PICK r, s : r = Job /\ s = Job'
            OBVIOUS
          <5>2. /\ r = [op |-> "read", todo |-> call.todo, n |-> call.n, got |-> call.got, new |-> 0]
                /\ s = [op |-> "read", todo |-> call.todo, n |-> m, got |-> y, new |-> 0]
            BY <3>1, <4>3, <5>1, Zenon
          <5>3. [r EXCEPT !.n = m, !.got = y] = s
            <6>1. PICK u : u = [r EXCEPT !.n = m, !.got = y]
              OBVIOUS
            <6>2. u.op = s.op /\ u.todo = s.todo /\ u.n = s.n /\ u.got = s.got /\ u.new = s.new
              BY <5>2, <6>1
            <6>3. u = [f \in DOMAIN r |-> u[f]]
              BY <6>1
            <6>4. s = [f \in {"op", "todo", "n", "got", "new"} |-> s[f]]
              BY <5>2
            <6>5. DOMAIN r = {"op", "todo", "n", "got", "new"}
              BY <5>2
            <6>6. \A f \in {"op", "todo", "n", "got", "new"} : u[f] = s[f]
              BY <6>2
            <6> QED BY <6>1, <6>3, <6>4, <6>5, <6>6
          <5> QED BY <5>1, <5>3, Zenon
        <4>5. Job.n = call.n /\ Job.got = call.got
          BY <3>1
        <4> QED BY <4>1, <4>4, <4>5
      <3> QED BY <1>1, <2>2, <2>5, <2>16, <2>17, <2>18, <3>1, <3>2 DEF Posix!GetByte, Posix!Running
    <2> QED BY <2>10, <2>11, <2>12, <2>13, <2>14, <2>15, <2>19 DEF Refines, PosixInv, Posix!Next
  <1> QED BY <1>2, <1>3

\* Every step of the byte loops.
LEMMA ByteRefines ==
  ASSUME SoleUse, Sound, TypeInv', VolumeInv', ByteStep
  PROVE  Refines
  BY WriteByteRefines, ReadByteRefines, BytesDoneRefines DEF ByteStep

-----------------------------------------------------------------------------
(* fat_unlink, which uses no handle of the caller's, and fat_close between *)
(* its two flushes. *)

\* There is at most one file.
LEMMA OneName ==
  ASSUME SoleUse, Sound, NEW s \in Slots, NEW t \in Slots, Live(s), Live(t)
  PROVE  s = t
  <1>1. dir[s].name \in Names /\ dir[t].name \in Names
    BY DEF Sound, PosixInv, PlainInv
  <1>2. dir[s].name = dir[t].name
    BY <1>1 DEF SoleUse
  <1> QED BY <1>2 DEF Sound, VolumeInv, DirInv

\* Entries of files.
LEMMA LiveThere == \A s \in Slots : Live(s) <=> s \in LiveSlots
  BY DEF Live, LiveSlots

\* What the caller of fat_unlink sees: the entry, until it is deleted.
LEMMA Unlinking ==
  ASSUME SoleUse, Sound, pc \in FreeLabels
  PROVE  /\ call.op = "unlink" /\ ~IsOpen(0) /\ ~call.seeking
         /\ pc # "delete" => LiveSlots = {}
  <1>1. call.op = "unlink"
    BY DEF Sound, VolumeInv, CallInv
  <1>2. ~IsOpen(0) /\ (pc # "delete" => LiveSlots = {}) /\ ~call.seeking
    BY <1>1 DEF Sound, PosixInv, StoredInv, FlowInv
  <1> QED BY <1>1, <1>2

\* The invariant, and what the caller sees, while fat_unlink frees the clusters.
LEMMA UnlinkGoesOn ==
  ASSUME SoleUse, Sound, pc \in FreeLabels, pc' \in {"free", "freed", "done"},
         file_num' = file_num, UNCHANGED <<disk, read_only, ret>>,
         call'.op = call.op, call'.seeking = call.seeking, call'.todo = call.todo,
         call'.n = call.n, call'.got = call.got, call'.new = call.new,
         LiveSlots' = {}, \A s \in Slots : dir'[s].ro = dir[s].ro
  PROVE  /\ PosixInv'
         /\ Content' = <<>> /\ Exists' = FALSE
         /\ UNCHANGED <<Handle.flags \ {"DIRTY", "FS_DIRTY"}, Pos(Handle), Job, ret>>
  <1>1. /\ call.op = "unlink" /\ ~IsOpen(0) /\ ~call.seeking
    BY Unlinking
  <1>2. Handle' = Handle /\ ~IsOpen(0)'
    BY <1>1 DEF Handle, IsOpen
  <1>3. ~Walking' /\ ~Crossing' /\ ~Loading'
    BY DEF Walking, Crossing, Loading, Linked
  <1>4. PlainInv /\ FlowInv /\ PlaceInv
    BY DEF Sound, PosixInv
  <1>5. PlainInv'
    <2>1. \A s \in Slots : ~Live(s)'
      BY DEF Live, LiveSlots
    <2> QED BY <1>2, <1>4, <2>1 DEF PlainInv
  <1>6. FlowInv'
    BY <1>1, <1>2, <1>3 DEF FlowInv, Flushing, Hopping, Closing, Linked
  <1>7. PlaceInv'
    BY <1>1, <1>2, <1>3, <1>4 DEF PlaceInv, Pos
  <1>8. ReaderInv' /\ BufferInv'
    BY <1>2 DEF ReaderInv, Reading, BufferInv
  <1>9. StoredInv'
    BY <1>1, <1>2 DEF StoredInv
  <1>10. Content' = <<>> /\ Exists' = FALSE
    BY <1>1, <1>2 DEF Content, Exists, Truncating
  <1>11. UNCHANGED <<Handle.flags \ {"DIRTY", "FS_DIRTY"}, Pos(Handle), Job, ret>>
    BY <1>1, <1>2 DEF Pos, Job, Phase
  <1> QED BY <1>5, <1>6, <1>7, <1>8, <1>9, <1>10, <1>11 DEF PosixInv

\* The entry marked deleted is Remove.
LEMMA DeleteRefines ==
  ASSUME SoleUse, Sound, TypeInv', VolumeInv', DeleteEntry
  PROVE  Refines
  <1>1. /\ pc = "delete" /\ pc' = "free" /\ UNCHANGED <<disk, read_only, ret, file_num, call>>
        /\ dir' = [dir EXCEPT ![call.slot].kind = "deleted"]
    BY NoFault DEF DeleteEntry, Quiet
  <1>2. dir \in [Slots -> DirEntry] /\ call.slot \in Slots
    BY <1>1 DEF Sound, TypeInv, TypeOK
  <1>3. Live(call.slot)
    BY <1>1 DEF Sound, VolumeInv, FreeInv
  <1>4. \A s \in Slots : dir'[s].ro = dir[s].ro
    BY <1>1, <1>2 DEF DirEntry
  <1>5. LiveSlots' = {}
    <2>1. \A s \in Slots : dir'[s].kind # "file"
      <3> SUFFICES ASSUME NEW s \in Slots, dir'[s].kind = "file" PROVE FALSE
        OBVIOUS
      <3>1. s # call.slot
        BY <1>1, <1>2 DEF DirEntry
      <3>2. dir'[s] = dir[s]
        BY <1>1, <1>2, <3>1
      <3>3. Live(s)
        BY <3>2 DEF Live
      <3> QED BY <1>2, <1>3, <3>1, <3>3, OneName
    <2> QED BY <2>1 DEF LiveSlots
  <1>6. call.op = "unlink" /\ ~IsOpen(0)
    BY <1>1, Unlinking DEF FreeLabels
  <1>7. /\ PosixInv'
        /\ Content' = <<>> /\ Exists' = FALSE
        /\ UNCHANGED <<Handle.flags \ {"DIRTY", "FS_DIRTY"}, Pos(Handle), Job, ret>>
    BY <1>1, <1>4, <1>5, UnlinkGoesOn DEF FreeLabels
  <1>8. Exists
    BY <1>2, <1>3, <1>6 DEF Exists, Live, LiveSlots
  <1>9. Job.op = "unlink"
    BY <1>6 DEF Job, Phase
  <1>10. Posix!Remove
    BY <1>7, <1>8, <1>9 DEF Posix!Remove, Posix!Running
  <1> QED BY <1>7, <1>10 DEF Refines, Posix!Next

\* Every step of fat_delete.
LEMMA FreeRefines ==
  ASSUME SoleUse, Sound, TypeInv', VolumeInv', FreeStep
  PROVE  Refines
  <1>1. CASE FreeEntry \/ FreeLast
    <2>0. call \in Calls
      BY Sole DEF Sound, TypeInv
    <2>1. /\ pc \in {"free", "freed"} /\ pc' \in {"free", "freed", "done"}
          /\ UNCHANGED <<dir, disk, file_num, read_only, ret>>
      BY <1>1 DEF FreeEntry, FreeLast, Quiet
    <2>2. /\ call'.op = call.op /\ call'.seeking = call.seeking /\ call'.todo = call.todo
          /\ call'.n = call.n /\ call'.got = call.got /\ call'.new = call.new
      BY <1>1, <2>0 DEF FreeEntry, FreeLast, Calls
    <2>3. LiveSlots = {} /\ LiveSlots' = LiveSlots /\ call.op = "unlink" /\ ~IsOpen(0)
      BY <2>1, Unlinking DEF FreeLabels, LiveSlots
    <2>4. Content = <<>> /\ Exists = FALSE
      BY <2>3 DEF Content, Exists, Truncating
    <2>5. /\ PosixInv'
          /\ Content' = <<>> /\ Exists' = FALSE
          /\ UNCHANGED <<Handle.flags \ {"DIRTY", "FS_DIRTY"}, Pos(Handle), Job, ret>>
      BY <2>1, <2>2, <2>3, UnlinkGoesOn DEF FreeLabels
    <2>6. UNCHANGED Posix!posix
      BY <2>4, <2>5 DEF Posix!posix
    <2> QED BY <2>5, <2>6 DEF Refines
  <1>2. CASE DeleteEntry
    BY <1>2, DeleteRefines
  <1>3. ~FreeUnreadable
    BY NoFault DEF FreeUnreadable
  <1> QED BY <1>1, <1>2, <1>3 DEF FreeStep

\* fat_close between its flushes.
LEMMA CloseInfoRefines ==
  ASSUME SoleUse, Sound, TypeInv', VolumeInv', CloseInfo
  PROVE  Refines
  <1>0. Cur = Handle /\ Handle \in FileS /\ call \in Calls /\ call.fd = 0
    BY Sole DEF Sound, TypeInv
  <1>1. /\ pc = "closing" /\ NoWrite /\ UNCHANGED <<fat, read_only, ret>> /\ Handle' = Handle
        /\ \/ /\ "FS_DIRTY" \in Handle.flags /\ pc' = "info"
              /\ call' = [call EXCEPT !.info = "close"]
           \/ "FS_DIRTY" \notin Handle.flags /\ pc' = "done" /\ call' = call
    BY <1>0 DEF CloseInfo, Quiet, NoWrite, Handle
  <1>2. /\ call'.op = call.op /\ call'.seeking = call.seeking /\ call'.todo = call.todo
        /\ call'.n = call.n /\ call'.got = call.got /\ call'.new = call.new
        /\ pc' = "info" => call'.info = "close"
    BY <1>0, <1>1 DEF Calls
  <1>3. call.op = "close" /\ "DIRTY" \notin Handle.flags /\ FlowInv /\ ReaderInv
    BY <1>1 DEF Sound, PosixInv, FlowInv, Closing
  <1>4. ~call.seeking /\ IsOpen(0)
    BY <1>0, <1>1, <1>3 DEF Sound, SpaceInv, ClosingInv, VolumeInv, CallInv, FreeLabels
  <1>5. ~Walking /\ ~Walking' /\ ~Crossing' /\ ~Loading' /\ pc' # "select"
    BY <1>1, <1>2 DEF Walking, Crossing, Loading, Linked
  <1>6. FlowInv'
    BY <1>1, <1>2, <1>3, <1>4, <1>5 DEF FlowInv, Flushing, Hopping, Closing, Linked
  <1>7. Steady /\ GoesOn
    BY <1>1, <1>2, <1>3, <1>4, <1>5 DEF Steady, GoesOn
  <1>8. ReaderInv'
    <2>1. SamePlace(Handle', Handle)
      BY <1>1 DEF SamePlace
    <2>2. /\ \A i : OnCluster(Walk, Handle, i)' <=> OnCluster(Walk, Handle, i)
          /\ AtEnd(Handle)' <=> AtEnd(Handle)
          /\ Reading' <=> Reading
      BY <1>1, <2>1, ReaderSame
    <2> QED BY <1>2, <1>3, <1>4, <1>5, <2>2 DEF ReaderInv
  <1> QED BY <1>1, <1>5, <1>6, <1>7, <1>8, CallMoves

-----------------------------------------------------------------------------
(* The end of a call. *)

\* The invariant between calls.
LEMMA IdlePosix ==
  ASSUME pc' = "idle", call' = NoCall, PlainInv', Pos(Handle)' <= Handle'.size,
         Reading' => (\E i \in 0 .. LastCluster : OnCluster(Walk, Handle, i)') \/ AtEnd(Handle)',
         BufferInv',
         IsOpen(0)' /\ Handle'.entry # 0 /\ "FS_DIRTY" \notin Handle'.flags =>
           dir'[Handle'.entry].size = Handle'.size
  PROVE  PosixInv'
  <1>1. call'.op = "none" /\ call'.seeking = FALSE
    BY DEF NoCall
  <1>2. ~Walking' /\ ~Crossing' /\ ~Loading'
    BY DEF Walking, Crossing, Loading, Linked
  <1>3. FlowInv'
    BY <1>1, <1>2 DEF FlowInv, Flushing, Hopping, Closing, Linked
  <1>4. PlaceInv'
    BY <1>1, <1>2 DEF PlaceInv
  <1>5. ReaderInv'
    BY <1>1, <1>2 DEF ReaderInv
  <1>6. StoredInv'
    BY <1>1 DEF StoredInv
  <1> QED BY <1>3, <1>4, <1>5, <1>6 DEF PosixInv

\* Between calls nothing is running.
LEMMA IdleJob ==
  ASSUME call' = NoCall
  PROVE  Job' = Posix!NoJob
  BY DEF NoCall, Job, Phase, Posix!NoJob

\* What holds when a call returns.
LEMMA Returning ==
  ASSUME SoleUse, Sound, Return
  PROVE  /\ pc \in {"done", "fail"} /\ pc' = "idle" /\ call' = NoCall /\ ~call.seeking
         /\ UNCHANGED <<fat, dir, disk, read_only>>
         /\ ret'.op = call.op /\ ret'.got = call.got
         /\ pc = "done" => ret'.err = "OK" /\ ret'.new = call.new
         /\ pc = "fail" => ret'.err = IF call.op = "lseek" THEN "ESEEK" ELSE "EIO"
         /\ call.op \in {"read", "write", "lseek", "close", "unlink"}
         /\ pc = "fail" => call.op \in {"write", "lseek", "close"}
         /\ call.op # "unlink" => IsOpen(0)
         /\ ~Walking
  <1>0. call \in Calls /\ call.fd = 0
    BY Sole DEF Sound, TypeInv
  <1>1. /\ pc \in {"done", "fail"} /\ pc' = "idle" /\ call' = NoCall
        /\ UNCHANGED <<fat, dir, disk, read_only>>
    BY DEF Return, NoWrite
  <1>2. /\ ret'.op = call.op /\ ret'.got = call.got
        /\ pc = "done" => ret'.err = "OK" /\ ret'.new = call.new
        /\ pc = "fail" => ret'.err = IF call.op = "lseek" THEN "ESEEK" ELSE "EIO"
    BY DEF Return
  <1>3. /\ call.op \notin {"none", "open"}
        /\ pc = "fail" => call.op # "unlink"
        /\ call.op # "unlink" => IsOpen(0)
    BY <1>0, <1>1 DEF Sound, VolumeInv, CallInv, FreeLabels
  <1>4. ~call.seeking
    BY <1>1 DEF Sound, ChainInv, AccessInv
  <1>5. pc = "fail" => call.op # "read"
    BY DEF Sound, PosixInv, FlowInv
  <1>6. call.op \in {"read", "write", "lseek", "close", "unlink"}
    BY <1>0, <1>3 DEF Calls
  <1>7. ~Walking
    BY <1>1 DEF Walking
  <1> QED BY <1>1, <1>2, <1>3, <1>4, <1>5, <1>6, <1>7

\* The handle stays open, and may remember that its entry has to be written.
LEMMA ReturnOpen ==
  ASSUME SoleUse, Sound, TypeInv', VolumeInv', Return, IsOpen(0),
         Handle' = Handle \/ Handle' = [Handle EXCEPT !.flags = @ \cup {"FS_DIRTY"}]
  PROVE  /\ PosixInv' /\ Content' = Content /\ Exists' = Exists /\ Job' = Posix!NoJob
         /\ Handle'.flags \ {"DIRTY", "FS_DIRTY"} = Handle.flags \ {"DIRTY", "FS_DIRTY"}
         /\ Pos(Handle)' = Pos(Handle)
  <1>0. Handle \in FileS
    BY Sole DEF Sound, TypeInv
  <1>1. /\ pc \in {"done", "fail"} /\ pc' = "idle" /\ call' = NoCall /\ ~Walking
        /\ UNCHANGED <<fat, dir, disk, read_only>>
    BY Returning
  <1>2. /\ Handle'.first = Handle.first /\ Handle'.size = Handle.size /\ Handle'.ro = Handle.ro
        /\ Handle'.entry = Handle.entry /\ Handle'.buffer = Handle.buffer
        /\ SamePlace(Handle', Handle)
        /\ "DIRTY" \in Handle'.flags <=> "DIRTY" \in Handle.flags
        /\ "FS_DIRTY" \in Handle.flags => "FS_DIRTY" \in Handle'.flags
    <2>1. CASE Handle' = Handle
      BY <2>1 DEF SamePlace
    <2>2. CASE Handle' = [Handle EXCEPT !.flags = @ \cup {"FS_DIRTY"}]
      <3>1. Handle'.flags = Handle.flags \cup {"FS_DIRTY"}
        BY <1>0, <2>2 DEF FileS
      <3>2. /\ Handle'.first = Handle.first /\ Handle'.size = Handle.size /\ Handle'.ro = Handle.ro
            /\ Handle'.entry = Handle.entry /\ Handle'.buffer = Handle.buffer
            /\ Handle'.cluster = Handle.cluster /\ Handle'.sector = Handle.sector
            /\ Handle'.sectors_left = Handle.sectors_left /\ Handle'.cursor = Handle.cursor
            /\ Handle'.file_sector = Handle.file_sector
        BY <1>0, <2>2 DEF FileS
      <3> QED BY <3>1, <3>2 DEF SamePlace
    <2> QED BY <2>1, <2>2
  <1>3. PlainInv /\ PlaceInv /\ ReaderInv /\ BufferInv /\ StoredInv
    BY DEF Sound, PosixInv
  <1>4. PlainInv'
    BY <1>1, <1>2, <1>3 DEF PlainInv, Live
  <1>5. Pos(Handle)' = Pos(Handle) /\ Pos(Handle)' <= Handle'.size
    BY <1>2, <1>3 DEF PlaceInv, Pos, SamePlace
  <1>6. Reading' => (\E i \in 0 .. LastCluster : OnCluster(Walk, Handle, i)') \/ AtEnd(Handle)'
    <2>1. /\ \A i : OnCluster(Walk, Handle, i)' <=> OnCluster(Walk, Handle, i)
          /\ AtEnd(Handle)' <=> AtEnd(Handle)
          /\ Reading' <=> Reading
      BY <1>1, <1>2, ReaderSame
    <2> QED BY <1>1, <1>3, <2>1 DEF ReaderInv
  <1>7. BufferInv'
    BY <1>1, <1>2, <1>3 DEF BufferInv, SamePlace
  <1>8. IsOpen(0)' /\ Handle'.entry # 0 /\ "FS_DIRTY" \notin Handle'.flags =>
           dir'[Handle'.entry].size = Handle'.size
    BY <1>1, <1>2, <1>3 DEF StoredInv
  <1>9. PosixInv'
    BY <1>1, <1>4, <1>5, <1>6, <1>7, <1>8, IdlePosix
  <1>10. Content' = Content /\ Exists' = Exists
    <2>1. \A p \in 0 .. Handle.size - 1 :
             FileByte(fat', disk', Handle', p) = FileByte(fat, disk, Handle, p)
      BY <1>1, <1>2 DEF FileByte, SamePlace
    <2> QED BY <1>2, <1>4, <2>1, SameContent DEF SamePlace
  <1> QED BY <1>1, <1>2, <1>5, <1>9, <1>10, IdleJob DEF SamePlace

\* The bytes of a file that no handle has, and those of one that keeps nothing
\* in its buffer.
FileOn(f, d, first, size) == [i \in 1 .. size |-> ByteIn(f, d, first, i - 1)]

\* The bytes the FAT leads to.
LEMMA StoredNow ==
  ASSUME NEW first, NEW size
  PROVE  StoredContent(first, size) = FileOn(fat, disk, first, size)
  <1>1. ChainFrom(first) = WalkIn(fat, first)
    BY DEF ChainFrom, WalkIn, Walks, Clusters, Bad
  <1>2. \A p : StoredByte(first, p) = ByteIn(fat, disk, first, p)
    BY <1>1 DEF StoredByte, ByteIn
  <1> QED BY <1>2 DEF StoredContent, FileOn

\* The contents of the file while it is closed ...
LEMMA ContentClosed ==
  ~IsOpen(0) /\ call.op # "open" =>
    /\ LiveSlots = {} => Content = <<>>
    /\ \A s \in Slots : LiveSlots = {s} => Content = FileOn(fat, disk, dir[s].first, dir[s].size)
  <1> SUFFICES ASSUME ~IsOpen(0), call.op # "open"
               PROVE  /\ LiveSlots = {} => Content = <<>>
                      /\ \A s \in Slots : LiveSlots = {s} =>
                           Content = FileOn(fat, disk, dir[s].first, dir[s].size)
    OBVIOUS
  <1>1. LiveSlots = {} => Content = <<>>
    BY DEF Content, Truncating
  <1>2. ASSUME NEW s \in Slots, LiveSlots = {s}
        PROVE  Content = FileOn(fat, disk, dir[s].first, dir[s].size)
    <2>1. (CHOOSE t \in LiveSlots : TRUE) = s
      BY <1>2
    <2>2. Content = StoredContent(dir[s].first, dir[s].size)
      BY <1>2, <2>1 DEF Content, Truncating
    <2> QED BY <2>2, StoredNow
  <1> QED BY <1>1, <1>2

\* ... also after a step.
LEMMA ContentClosedNext ==
  ASSUME ~IsOpen(0)', call'.op # "open"
  PROVE  /\ LiveSlots' = {} => Content' = <<>>
         /\ \A s \in Slots : LiveSlots' = {s} =>
              Content' = FileOn(fat', disk', dir'[s].first, dir'[s].size)
  <1>1. (~IsOpen(0) /\ call.op # "open" =>
           /\ LiveSlots = {} => Content = <<>>
           /\ \A s \in Slots : LiveSlots = {s} =>
                Content = FileOn(fat, disk, dir[s].first, dir[s].size))'
    BY ContentClosed, PTL
  <1> QED BY <1>1 DEF FileOn, ByteIn, WalkIn, Walks, SectorOf, ClusterBytes, Clusters, Bad, Slots

\* The contents of an open file whose buffer has not been changed.
LEMMA ContentClean ==
  ASSUME SoleUse, Sound, IsOpen(0), "DIRTY" \notin Handle.flags
  PROVE  Content = FileOn(fat, disk, Handle.first, Handle.size)
  <1>1. Content = FileBytes(fat, disk, Handle)
    BY ContentOpen, BytesNow DEF Sound, PosixInv
  <1>2. \A p : FileByte(fat, disk, Handle, p) = ByteIn(fat, disk, Handle.first, p)
    BY DEF FileByte
  <1> QED BY <1>1, <1>2 DEF FileBytes, FileOn

\* The entry of the only file.
LEMMA SoleEntry ==
  ASSUME SoleUse, Sound
  PROVE  /\ \A s \in Slots : Live(s) => LiveSlots = {s}
         /\ IsOpen(0) /\ Handle.entry # 0 => Handle.entry \in Slots /\ LiveSlots = {Handle.entry}
         /\ IsOpen(0) /\ Handle.entry = 0 => LiveSlots = {}
  <1>0. 0 \in Handles /\ Handle \in FileS
    BY Sole DEF Sound, TypeInv
  <1>1. ASSUME NEW s \in Slots, Live(s) PROVE LiveSlots = {s}
    <2>1. \A t \in LiveSlots : t = s
      BY <1>1, OneName DEF LiveSlots, Live
    <2>2. s \in LiveSlots
      BY <1>1, LiveThere
    <2> QED BY <2>1, <2>2
  <1>2. ASSUME IsOpen(0), Handle.entry # 0
        PROVE  Handle.entry \in Slots /\ Live(Handle.entry)
    <2>1. Handle.entry \in Slots
      BY <1>0, <1>2, GeometryAssumption DEF FileS, Slots
    <2> QED BY <1>0, <1>2, <2>1 DEF Sound, VolumeInv, HandleInv, EntryInv, Handle
  <1>3. ASSUME IsOpen(0), Handle.entry = 0, NEW s \in Slots PROVE ~Live(s)
    <2>1. SUFFICES ASSUME Live(s) PROVE FALSE
      OBVIOUS
    <2>2. s # Handle.entry
      BY <1>3, GeometryAssumption DEF Slots
    <2>3. dir[s].name # Handle.name /\ Handle.name \in Names
      BY <1>0, <1>3, <2>1, <2>2 DEF Sound, VolumeInv, HandleInv, EntryInv, FilesInv, Handle
    <2>4. dir[s].name \in Names
      BY <2>1 DEF Sound, PosixInv, PlainInv
    <2> QED BY <2>3, <2>4 DEF SoleUse
  <1>4. IsOpen(0) /\ Handle.entry = 0 => LiveSlots = {}
    BY <1>3 DEF LiveSlots, Live
  <1> QED BY <1>1, <1>2, <1>4

\* A handle that is not open is Closed.
LEMMA ClosedHandle ==
  ASSUME SoleUse, ~IsOpen(0), VolumeInv, TypeOK
  PROVE  Handle = Closed
  BY Sole DEF VolumeInv, HandleInv, ClosedInv, Handle

\* What a closed handle is for the caller.
LEMMA ClosedSeen ==
  Closed.flags = {} /\ Closed.ro = FALSE /\ Closed.first = 0 /\ Closed.size = 0
    /\ Closed.entry = 0 /\ Pos(Closed) = 0
  <1>1. Closed.flags = {} /\ Closed.ro = FALSE /\ Closed.first = 0 /\ Closed.size = 0
          /\ Closed.entry = 0 /\ Closed.file_sector = 0 /\ Closed.cursor = 0
    BY DEF Closed
  <1>2. 0 * SectorSize + 0 = 0
    BY GeometryAssumption
  <1> QED BY <1>1, <1>2 DEF Pos

\* Between calls, with the handle closed.
LEMMA IdleClosed ==
  ASSUME SoleUse, Sound, pc' = "idle", call' = NoCall, Handle' = Closed,
         UNCHANGED <<dir, read_only>>
  PROVE  PosixInv' /\ ~IsOpen(0)' /\ Pos(Handle)' = 0
  <1>1. ~IsOpen(0)'
    BY ClosedSeen DEF IsOpen, Handle
  <1>2. PlainInv'
    BY ClosedSeen DEF Sound, PosixInv, PlainInv, Live
  <1>3. Pos(Handle)' = 0 /\ Pos(Handle)' <= Handle'.size
    BY ClosedSeen DEF Pos
  <1>4. BufferInv' /\ ~Reading'
    BY <1>1 DEF BufferInv, Reading
  <1> QED BY <1>1, <1>2, <1>3, <1>4, IdlePosix

\* fat_close has stored all there is.
LEMMA ClosesStored ==
  ASSUME SoleUse, Sound, pc = "done", call.op = "close", IsOpen(0), UNCHANGED <<fat, dir, disk>>,
         call' = NoCall, ~IsOpen(0)'
  PROVE  Content' = Content /\ Exists' = Exists
  <1>0. Handle \in FileS /\ Cur = Handle /\ 0 \in Handles
    BY Sole DEF Sound, TypeInv
  <1>1. "DIRTY" \notin Handle.flags /\ (Handle.first # 0 => "FS_DIRTY" \notin Handle.flags)
    BY DEF Sound, PosixInv, StoredInv
  <1>2. Content = FileOn(fat, disk, Handle.first, Handle.size)
    BY <1>1, ContentClean
  <1>3. LiveSlots' = LiveSlots /\ call'.op # "open"
    BY DEF LiveSlots, NoCall
  <1>4. /\ LiveSlots = {} => Content' = <<>>
        /\ \A s \in Slots : LiveSlots = {s} =>
             Content' = FileOn(fat, disk, dir[s].first, dir[s].size)
    BY <1>3, ContentClosedNext
  <1>5. Exists' <=> LiveSlots # {}
    BY <1>3 DEF Exists
  <1>6. Exists <=> Handle.size > 0
    BY ExistsOpen DEF Sound, PosixInv
  <1>7. CASE Handle.first = 0
    <2>1. Unstored(Handle)
      BY <1>7, NoClusters
    <2>2. Handle.size = 0 /\ Handle.entry = 0
      BY <1>0, <1>1, <2>1 DEF Unstored, FileS
    <2>3. LiveSlots = {}
      BY <2>2, SoleEntry
    <2>4. Content = <<>>
      BY <1>2, <2>2 DEF FileOn
    <2> QED BY <1>4, <1>5, <1>6, <2>2, <2>3, <2>4 DEF Exists
  <1>8. CASE Handle.first # 0
    <2>1. Handle.entry # 0
      BY <1>0, <1>8 DEF Sound, SpaceInv, ClosingInv
    <2>2. dir[Handle.entry].first = Handle.first
      BY <1>0, <1>8, <2>1 DEF Sound, SpaceInv, SavedInv, Handle
    <2>3. dir[Handle.entry].size = Handle.size
      BY <1>1, <1>8, <2>1 DEF Sound, PosixInv, StoredInv
    <2>4. Handle.entry \in Slots /\ LiveSlots = {Handle.entry}
      BY <2>1, SoleEntry
    <2>5. Content' = Content
      BY <1>2, <1>4, <2>2, <2>3, <2>4
    <2>6. Handle.size > 0
      BY <1>8 DEF Sound, PosixInv, PlainInv
    <2> QED BY <1>5, <1>6, <2>4, <2>5, <2>6 DEF Exists
  <1> QED BY <1>7, <1>8

\* fat_close returns: EndClose.
LEMMA CloseRefines ==
  ASSUME SoleUse, Sound, TypeInv', VolumeInv', Return, pc = "done", call.op = "close"
  PROVE  Refines
  <1>1. /\ pc' = "idle" /\ call' = NoCall /\ ~call.seeking /\ IsOpen(0)
        /\ UNCHANGED <<fat, dir, disk, read_only>>
        /\ ret'.op = "close" /\ ret'.err = "OK"
    BY Returning
  <1>2. Handle' = Closed
    <2>1. SetCur(Closed)
      BY DEF Return, Finished
    <2> QED BY <2>1, Sole DEF Sound, TypeInv
  <1>3. PosixInv' /\ ~IsOpen(0)' /\ Pos(Handle)' = 0
    BY <1>1, <1>2, IdleClosed
  <1>4. Content' = Content /\ Exists' = Exists
    BY <1>1, <1>3, ClosesStored
  <1>5. Job' = Posix!NoJob /\ Job.op = "close"
    BY <1>1, IdleJob DEF Job, Phase
  <1>6. Handle'.flags \ {"DIRTY", "FS_DIRTY"} = {}
    BY <1>2, ClosedSeen
  <1>7. Posix!EndClose
    BY <1>1, <1>3, <1>4, <1>5, <1>6 DEF Posix!EndClose, Posix!Running, Posix!Done, Posix!Answer
  <1> QED BY <1>3, <1>7 DEF Refines, Posix!Next

\* fat_unlink returns: EndUnlink.
LEMMA UnlinkEnds ==
  ASSUME SoleUse, Sound, TypeInv', VolumeInv', Return, call.op = "unlink"
  PROVE  Refines
  <1>1. /\ pc = "done" /\ pc' = "idle" /\ call' = NoCall /\ ~call.seeking
        /\ UNCHANGED <<fat, dir, disk, read_only>>
        /\ ret'.op = "unlink" /\ ret'.err = "OK"
    BY Returning
  <1>2. ~IsOpen(0) /\ LiveSlots = {}
    BY <1>1 DEF Sound, PosixInv, StoredInv
  <1>3. Handle' = Handle /\ Handle = Closed
    <2>1. file_num' = file_num
      BY DEF Return, Finished
    <2> QED BY <1>2, <2>1, ClosedHandle DEF Handle, Sound, TypeInv
  <1>4. PosixInv' /\ ~IsOpen(0)'
    BY <1>1, <1>3, IdleClosed
  <1>5. LiveSlots' = {} /\ call'.op # "open"
    BY <1>1, <1>2 DEF LiveSlots, NoCall
  <1>6. Content' = Content /\ Exists' = Exists /\ ~Exists
    BY <1>2, <1>4, <1>5, ContentClosed, ContentClosedNext DEF Exists
  <1>7. Job' = Posix!NoJob /\ Job.op = "unlink"
    BY <1>1, IdleJob DEF Job, Phase
  <1>8. Pos(Handle)' = Pos(Handle)
    BY <1>3 DEF Pos
  <1>9. Posix!EndUnlink
    BY <1>1, <1>3, <1>6, <1>7, <1>8
       DEF Posix!EndUnlink, Posix!Running, Posix!Done, Posix!Answer, Posix!File
  <1> QED BY <1>4, <1>9 DEF Refines, Posix!Next

\* Every call returns what PosixFile lets it return.
LEMMA ReturnRefines ==
  ASSUME SoleUse, Sound, TypeInv', VolumeInv', Return
  PROVE  Refines
  <1>0. Handle \in FileS /\ Cur = Handle
    BY Sole DEF Sound, TypeInv
  <1>1. /\ pc \in {"done", "fail"} /\ ~call.seeking
        /\ ret'.op = call.op /\ ret'.got = call.got
        /\ pc = "done" => ret'.err = "OK" /\ ret'.new = call.new
        /\ pc = "fail" => ret'.err = IF call.op = "lseek" THEN "ESEEK" ELSE "EIO"
        /\ call.op \in {"read", "write", "lseek", "close", "unlink"}
        /\ pc = "fail" => call.op \in {"write", "lseek", "close"}
        /\ call.op # "unlink" => IsOpen(0)
    BY Returning
  <1>2. CASE call.op = "unlink"
    BY <1>2, UnlinkEnds
  <1>3. CASE call.op = "close" /\ pc = "done"
    BY <1>3, CloseRefines
  <1>4. CASE call.op \in {"read", "write", "lseek"} \/ (call.op = "close" /\ pc = "fail")
    <2>1. Handle' = Handle \/ Handle' = [Handle EXCEPT !.flags = @ \cup {"FS_DIRTY"}]
      <3>1. file_num' = file_num \/ SetCur([Cur EXCEPT !.flags = @ \cup {"FS_DIRTY"}])
        BY <1>4 DEF Return, Finished
      <3>2. SetCur([Handle EXCEPT !.flags = @ \cup {"FS_DIRTY"}])
              => Handle' = [Handle EXCEPT !.flags = @ \cup {"FS_DIRTY"}]
        BY Sole DEF Sound, TypeInv
      <3> QED BY <1>0, <3>1, <3>2 DEF Handle
    <2>2. /\ PosixInv' /\ Content' = Content /\ Exists' = Exists /\ Job' = Posix!NoJob
          /\ Handle'.flags \ {"DIRTY", "FS_DIRTY"} = Handle.flags \ {"DIRTY", "FS_DIRTY"}
          /\ Pos(Handle)' = Pos(Handle)
      BY <1>1, <1>4, <2>1, ReturnOpen
    <2>3. UNCHANGED Posix!File
      BY <2>2 DEF Posix!File
    <2>4. /\ Job.op = Phase /\ Job.todo = call.todo /\ Job.n = call.n /\ Job.got = call.got
          /\ call.op = "lseek" => Job.new = call.new
      BY DEF Job
    <2>5. Len(Content) = Handle.size
      BY <1>1, <1>4, ContentLength
    <2>6. PlaceInv /\ StoredInv
      BY DEF Sound, PosixInv
    <2>7. CASE call.op = "write"
      <3>1. Job.op = "write"
        BY <1>1, <2>4, <2>7 DEF Phase
      <3>2. CASE pc = "done"
        <4>1. Posix!EndWrite
          BY <1>1, <2>2, <2>3, <2>4, <2>6, <2>7, <3>1, <3>2
             DEF Posix!EndWrite, Posix!Running, Posix!Done, Posix!Answer, PlaceInv
        <4> QED BY <2>2, <4>1 DEF Refines, Posix!Next
      <3>3. CASE pc = "fail"
        <4>1. call.todo # <<>> /\ Pos(Handle) = Handle.size
          BY <2>6, <2>7, <3>3 DEF PlaceInv
        <4>2. Posix!FailWrite
          BY <1>1, <2>2, <2>3, <2>4, <2>5, <2>7, <3>1, <3>3, <4>1
             DEF Posix!FailWrite, Posix!Running, Posix!Done, Posix!Answer
        <4> QED BY <2>2, <4>2 DEF Refines, Posix!Next
      <3> QED BY <1>1, <3>2, <3>3
    <2>8. CASE call.op = "read"
      <3>1. Job.op = "read" /\ pc = "done"
        BY <1>1, <2>4, <2>8 DEF Phase
      <3>2. call.n = 0 \/ Pos(Handle) = Handle.size
        BY <2>6, <2>8, <3>1 DEF PlaceInv
      <3>3. Posix!EndRead
        BY <1>1, <2>2, <2>3, <2>4, <2>5, <2>8, <3>1, <3>2
           DEF Posix!EndRead, Posix!Running, Posix!Done, Posix!Answer
      <3> QED BY <2>2, <3>3 DEF Refines, Posix!Next
    <2>9. CASE call.op = "lseek"
      <3>1. Job.op = IF pc = "done" THEN "moved" ELSE "refused"
        BY <1>1, <2>4, <2>9 DEF Phase
      <3>2. Posix!EndSeek
        BY <1>1, <2>2, <2>3, <2>4, <2>9, <3>1
           DEF Posix!EndSeek, Posix!Running, Posix!Done, Posix!Answer
      <3> QED BY <2>2, <3>2 DEF Refines, Posix!Next
    <2>10. CASE call.op = "close"
      <3>1. Job.op = "close" /\ pc = "fail"
        BY <1>1, <1>4, <2>4, <2>10 DEF Phase
      <3>2. Exists
        BY <1>1, <2>6, <2>10, <3>1, ExistsOpen DEF StoredInv, Sound, PosixInv
      <3>3. Posix!FailClose
        BY <1>1, <2>2, <2>3, <2>10, <3>1, <3>2
           DEF Posix!FailClose, Posix!Running, Posix!Done, Posix!Answer
      <3> QED BY <2>2, <3>3 DEF Refines, Posix!Next
    <2> QED BY <1>4, <2>7, <2>8, <2>9, <2>10
  <1> QED BY <1>1, <1>2, <1>3, <1>4

-----------------------------------------------------------------------------
(* Calls begin. *)

\* A step that changes neither the disk nor the handle leaves the file as it is.
LEMMA FileStays ==
  ASSUME SoleUse, Sound, TypeInv', VolumeInv', PlainInv', UNCHANGED <<fat, dir, disk>>,
         Handle' = Handle
  PROVE  /\ Content' = Content /\ Exists' = Exists
         /\ UNCHANGED <<Handle.flags \ {"DIRTY", "FS_DIRTY"}, Pos(Handle)>>
  <1>1. UNCHANGED <<Handle.flags \ {"DIRTY", "FS_DIRTY"}, Pos(Handle)>>
    BY DEF Pos
  <1>2. CASE IsOpen(0)
    <2>1. \A p \in 0 .. Handle.size - 1 :
            FileByte(fat', disk', Handle', p) = FileByte(fat, disk, Handle, p)
      OBVIOUS
    <2> QED BY <1>1, <1>2, <2>1, SameContent
  <1>3. CASE ~IsOpen(0)
    <2>1. ~IsOpen(0)' /\ LiveSlots' = LiveSlots
      BY <1>3 DEF IsOpen, Handle, LiveSlots
    <2>2. call.op # "open" /\ call'.op # "open"
      BY DEF Sound, VolumeInv, CallInv, PosixInv, PlainInv, NoCall
    <2>3. LiveSlots = {} \/ \E s \in Slots : LiveSlots = {s}
      <3>1. ASSUME NEW s \in LiveSlots PROVE s \in Slots /\ LiveSlots = {s}
        BY <3>1, SoleEntry, LiveThere DEF LiveSlots
      <3> QED BY <3>1
    <2>4. Content' = Content
      BY <1>3, <2>1, <2>2, <2>3, ContentClosed, ContentClosedNext
    <2>5. Exists' = Exists
      BY <1>3, <2>1 DEF Exists
    <2> QED BY <1>1, <2>4, <2>5
  <1> QED BY <1>2, <1>3

\* Nothing changes but the answer to a refused call.
LEMMA NothingMoves ==
  ASSUME SoleUse, Sound, UNCHANGED <<fat, dir, disk, file_num, read_only, pc, call>>
  PROVE  PosixInv' /\ UNCHANGED <<Handle, Job>>
  <1>0. Handle' = Handle /\ SamePlace(Handle', Handle) /\ Job' = Job
    BY DEF Handle, SamePlace, Job, Phase
  <1>1. /\ IsOpen(0)' <=> IsOpen(0)
        /\ Flushing' <=> Flushing
        /\ Hopping' <=> Hopping
        /\ Closing' <=> Closing
        /\ Walking' <=> Walking
        /\ Loading' <=> Loading
        /\ Crossing' <=> Crossing
        /\ LiveSlots' = LiveSlots
    BY DEF IsOpen, Flushing, Hopping, Closing, Walking, Loading, Crossing, Linked, LiveSlots
  <1>2. /\ Walk' = Walk
        /\ \A i : OnCluster(Walk, Handle, i)' <=> OnCluster(Walk, Handle, i)
        /\ AtEnd(Handle)' <=> AtEnd(Handle)
        /\ Pos(Handle)' = Pos(Handle)
        /\ Reading' <=> Reading
        /\ Reading => \A n : RiskySeek(Handle, n)' <=> RiskySeek(Handle, n)
    BY <1>0, ReaderSame
  <1>3. PlainInv /\ FlowInv /\ PlaceInv /\ ReaderInv /\ BufferInv /\ StoredInv
    BY DEF Sound, PosixInv
  <1>4. PlainInv'
    BY <1>0, <1>3 DEF PlainInv, Live
  <1>5. FlowInv'
    BY <1>0, <1>1, <1>3 DEF FlowInv
  <1>6. PlaceInv'
    BY <1>0, <1>1, <1>2, <1>3 DEF PlaceInv
  <1>7. ReaderInv'
    BY <1>0, <1>1, <1>2, <1>3 DEF ReaderInv
  <1>8. BufferInv' /\ StoredInv'
    BY <1>0, <1>1, <1>3 DEF BufferInv, StoredInv
  <1> QED BY <1>0, <1>4, <1>5, <1>6, <1>7, <1>8 DEF PosixInv

\* A step of somebody else.
LEMMA StutterRefines ==
  ASSUME SoleUse, Sound, TypeInv', VolumeInv', UNCHANGED vars
  PROVE  Refines
  <1>1. UNCHANGED <<fat, dir, disk, file_num, read_only, pc, call, ret>>
    BY DEF vars
  <1>2. PosixInv' /\ UNCHANGED <<Handle, Job>>
    BY <1>1, NothingMoves
  <1>3. UNCHANGED <<Content, Exists, Handle.flags \ {"DIRTY", "FS_DIRTY"}, Pos(Handle)>>
    BY <1>1, <1>2, FileStays DEF PosixInv
  <1> QED BY <1>1, <1>2, <1>3 DEF Refines, Posix!posix

\* Between calls.
LEMMA NowIdle ==
  ASSUME SoleUse, Sound, pc = "idle"
  PROVE  call = NoCall /\ Posix!Idle /\ Job = Posix!NoJob /\ ~call.seeking
  <1>1. call = NoCall
    BY DEF Sound, PosixInv, PlainInv
  <1>2. Job = Posix!NoJob
    BY <1>1 DEF NoCall, Job, Phase, Posix!NoJob
  <1> QED BY <1>1, <1>2 DEF NoCall, Posix!Idle, Posix!NoJob

\* A call refused.
LEMMA RefusedRefines ==
  ASSUME SoleUse, Sound, TypeInv', VolumeInv', Idle, NEW op, NEW err, Refuse(op, err),
         \/ ~IsOpen(0) /\ op \in {"lseek", "close"} /\ err = "EBADF"
         \/ "READ" \notin Handle.flags /\ op = "read" /\ err = "EBADF"
         \/ "WRITE" \notin Handle.flags /\ op = "write" /\ err = "EBADF"
         \/ IsOpen(0) /\ op \in {"open", "unlink"} /\ err = "ENFILE"
         \/ ~Exists /\ op \in {"open", "unlink"} /\ err = "ENOENT"
         \/ Exists /\ op = "open" /\ err = "EEXIST"
  PROVE  Refines
  <1>1. UNCHANGED <<fat, dir, disk, file_num, read_only, pc, call>>
    BY DEF Idle, Ready, NoWrite, Refuse
  <1>2. PosixInv' /\ UNCHANGED <<Handle, Job>>
    BY <1>1, NothingMoves
  <1>3. UNCHANGED <<Content, Exists, Handle.flags \ {"DIRTY", "FS_DIRTY"}, Pos(Handle)>>
    BY <1>1, <1>2, FileStays DEF PosixInv
  <1>4. ret'.op = op /\ ret'.err = err
    BY DEF Refuse, Result
  <1>5. Posix!Idle
    BY NowIdle DEF Idle, Ready
  <1>6. /\ IsOpen(0) => Handle.flags \ {"DIRTY", "FS_DIRTY"} # {}
        /\ ~IsOpen(0) => Handle.flags \ {"DIRTY", "FS_DIRTY"} = {}
    <2>1. ~IsOpen(0) => Handle = Closed
      BY ClosedHandle DEF Sound, TypeInv
    <2> QED BY <2>1, ClosedSeen DEF IsOpen, Handle
  <1>7. UNCHANGED <<Posix!File, Job>>
    BY <1>2, <1>3 DEF Posix!File
  <1>8. Posix!Answer(op, err)
    BY <1>4 DEF Posix!Answer
  <1>9. Posix!Refuse
    BY <1>5, <1>6, <1>7, <1>8 DEF Posix!Refuse
  <1> QED BY <1>2, <1>9 DEF Refines, Posix!Next

\* A call starts, with the handle as it is.
LEMMA Starting ==
  ASSUME SoleUse, Sound, TypeInv', VolumeInv', pc = "idle",
         UNCHANGED <<fat, dir, disk, file_num, read_only>>,
         pc' \in {"byte", "flush", "delete"},
         pc' = "byte" => call'.op \in {"read", "write"} /\ ~call'.seeking,
         pc' = "flush" => /\ call'.op \in {"write", "lseek", "close"}
                          /\ call'.flush = IF call'.op = "close" THEN "close" ELSE "seek"
                          /\ call'.seeking <=> call'.op # "close"
                          /\ call'.op = "write" => call'.todo # <<>> /\ call'.new = Handle.size
                          /\ call'.op # "close" =>
                               Pos(Handle) = call'.old /\ ~RiskySeek(Handle, call'.new),
         pc' = "delete" => call'.op = "unlink" /\ ~IsOpen(0) /\ ~call'.seeking
  PROVE  /\ PosixInv'
         /\ Content' = Content /\ Exists' = Exists
         /\ UNCHANGED <<Handle.flags \ {"DIRTY", "FS_DIRTY"}, Pos(Handle)>>
  <1>0. Handle' = Handle /\ SamePlace(Handle', Handle) /\ (IsOpen(0)' <=> IsOpen(0))
    BY DEF Handle, SamePlace, IsOpen
  <1>1. ~Walking /\ ~Walking' /\ ~Crossing' /\ ~Loading' /\ ~Hopping' /\ ~Closing'
    BY DEF Walking, Crossing, Loading, Linked, Hopping, Closing
  <1>2. PlainInv /\ PlaceInv /\ ReaderInv /\ BufferInv /\ StoredInv
    BY DEF Sound, PosixInv
  <1>3. PlainInv'
    BY <1>0, <1>2 DEF PlainInv, Live
  <1>4. FlowInv'
    BY <1>1 DEF FlowInv, Flushing
  <1>5. PlaceInv'
    BY <1>0, <1>1, <1>2 DEF PlaceInv, Pos
  <1>6. ReaderInv'
    <2>1. /\ \A i : OnCluster(Walk, Handle, i)' <=> OnCluster(Walk, Handle, i)
          /\ AtEnd(Handle)' <=> AtEnd(Handle)
          /\ Pos(Handle)' = Pos(Handle)
          /\ Reading' <=> Reading
          /\ Reading => \A n : RiskySeek(Handle, n)' <=> RiskySeek(Handle, n)
      BY <1>0, ReaderSame
    <2> QED BY <1>1, <1>2, <2>1 DEF ReaderInv
  <1>7. BufferInv' /\ StoredInv'
    BY <1>0, <1>1, <1>2 DEF BufferInv, StoredInv
  <1> QED BY <1>0, <1>3, <1>4, <1>5, <1>6, <1>7, FileStays DEF PosixInv

\* What the calls on a handle start from.
LEMMA HandleCall ==
  ASSUME SoleUse, Sound, Idle, NEW h \in Handles
  PROVE  /\ h = 0 /\ file_num[h] = Handle /\ (Has(h, {"OPEN"}) <=> IsOpen(0)) /\ Handle \in FileS
         /\ pc = "idle" /\ UNCHANGED <<fat, dir, disk, read_only>>
         /\ Posix!Idle /\ Job = Posix!NoJob
  <1>1. h = 0 /\ Handle \in FileS
    BY Sole DEF Sound, TypeInv
  <1>2. pc = "idle" /\ UNCHANGED <<fat, dir, disk, read_only>>
    BY DEF Idle, Ready, NoWrite
  <1> QED BY <1>1, <1>2, NowIdle DEF Handle, Has, IsOpen

\* The records of calls that begin.
LEMMA JobFields ==
  ASSUME NEW u, NEW v, NEW S, u = [f \in S |-> u[f]], v = [f \in S |-> v[f]],
         \A f \in S : u[f] = v[f]
  PROVE  u = v
  OBVIOUS

\* The jobs of PosixFile that begin.
LEMMA NewJobs ==
  ASSUME NEW op, NEW x
  PROVE  /\ [Posix!NoJob EXCEPT !.op = op, !.todo = x]
              = [op |-> op, todo |-> x, n |-> 0, got |-> <<>>, new |-> 0]
         /\ [Posix!NoJob EXCEPT !.op = op, !.n = x]
              = [op |-> op, todo |-> <<>>, n |-> x, got |-> <<>>, new |-> 0]
         /\ [Posix!NoJob EXCEPT !.op = op, !.new = x]
              = [op |-> op, todo |-> <<>>, n |-> 0, got |-> <<>>, new |-> x]
  <1> DEFINE S == {"op", "todo", "n", "got", "new"}
  <1>1. PICK j : j = Posix!NoJob
    OBVIOUS
  <1>2. /\ DOMAIN j = S
        /\ j.op = "none" /\ j.todo = <<>> /\ j.n = 0 /\ j.got = <<>> /\ j.new = 0
    BY <1>1 DEF Posix!NoJob
  <1>3. [j EXCEPT !.op = op, !.todo = x]
          = [op |-> op, todo |-> x, n |-> 0, got |-> <<>>, new |-> 0]
    <2>1. PICK u : u = [j EXCEPT !.op = op, !.todo = x]
      OBVIOUS
    <2>2. PICK v : v = [op |-> op, todo |-> x, n |-> 0, got |-> <<>>, new |-> 0]
      OBVIOUS
    <2>3. u = [f \in S |-> u[f]] /\ v = [f \in S |-> v[f]] /\ \A f \in S : u[f] = v[f]
      <3>1. u.op = v.op /\ u.todo = v.todo /\ u.n = v.n /\ u.got = v.got /\ u.new = v.new
        BY <1>2, <2>1, <2>2
      <3>2. u = [f \in DOMAIN j |-> u[f]]
        BY <2>1
      <3>3. v = [f \in S |-> v[f]]
        BY <2>2
      <3>4. \A f \in S : u[f] = v[f]
        BY <3>1
      <3> HIDE DEF S
      <3> QED BY <1>2, <3>2, <3>3, <3>4
    <2> HIDE DEF S
    <2>4. u = v
      BY <2>3, JobFields
    <2> QED BY <2>1, <2>2, <2>4
  <1>4. [j EXCEPT !.op = op, !.n = x]
          = [op |-> op, todo |-> <<>>, n |-> x, got |-> <<>>, new |-> 0]
    <2>1. PICK u : u = [j EXCEPT !.op = op, !.n = x]
      OBVIOUS
    <2>2. PICK v : v = [op |-> op, todo |-> <<>>, n |-> x, got |-> <<>>, new |-> 0]
      OBVIOUS
    <2>3. u = [f \in S |-> u[f]] /\ v = [f \in S |-> v[f]] /\ \A f \in S : u[f] = v[f]
      <3>1. u.op = v.op /\ u.todo = v.todo /\ u.n = v.n /\ u.got = v.got /\ u.new = v.new
        BY <1>2, <2>1, <2>2
      <3>2. u = [f \in DOMAIN j |-> u[f]]
        BY <2>1
      <3>3. v = [f \in S |-> v[f]]
        BY <2>2
      <3>4. \A f \in S : u[f] = v[f]
        BY <3>1
      <3> HIDE DEF S
      <3> QED BY <1>2, <3>2, <3>3, <3>4
    <2> HIDE DEF S
    <2>4. u = v
      BY <2>3, JobFields
    <2> QED BY <2>1, <2>2, <2>4
  <1>5. [j EXCEPT !.op = op, !.new = x]
          = [op |-> op, todo |-> <<>>, n |-> 0, got |-> <<>>, new |-> x]
    <2>1. PICK u : u = [j EXCEPT !.op = op, !.new = x]
      OBVIOUS
    <2>2. PICK v : v = [op |-> op, todo |-> <<>>, n |-> 0, got |-> <<>>, new |-> x]
      OBVIOUS
    <2>3. u = [f \in S |-> u[f]] /\ v = [f \in S |-> v[f]] /\ \A f \in S : u[f] = v[f]
      <3>1. u.op = v.op /\ u.todo = v.todo /\ u.n = v.n /\ u.got = v.got /\ u.new = v.new
        BY <1>2, <2>1, <2>2
      <3>2. u = [f \in DOMAIN j |-> u[f]]
        BY <2>1
      <3>3. v = [f \in S |-> v[f]]
        BY <2>2
      <3>4. \A f \in S : u[f] = v[f]
        BY <3>1
      <3> HIDE DEF S
      <3> QED BY <1>2, <3>2, <3>3, <3>4
    <2> HIDE DEF S
    <2>4. u = v
      BY <2>3, JobFields
    <2> QED BY <2>1, <2>2, <2>4
  <1> QED BY <1>1, <1>3, <1>4, <1>5

\* fat_close begins: BeginClose.
LEMMA CloseStarts ==
  ASSUME SoleUse, Sound, TypeInv', VolumeInv', NEW h \in Handles, Close(h)
  PROVE  Refines
  <1>1. /\ h = 0 /\ file_num[h] = Handle /\ IsOpen(0) /\ pc = "idle"
        /\ UNCHANGED <<fat, dir, disk, read_only>>
        /\ Posix!Idle
    BY HandleCall DEF Close
  <1>2. /\ pc' = "flush" /\ UNCHANGED <<ret, file_num>>
        /\ call' = [NoCall EXCEPT !.op = "close", !.fd = h, !.flush = "close"]
    BY DEF Close, Start
  <1>3. /\ call'.op = "close" /\ call'.flush = "close" /\ call'.seeking = FALSE
        /\ call'.todo = <<>> /\ call'.n = 0 /\ call'.got = <<>>
    BY <1>2 DEF NoCall
  <1>4. /\ PosixInv'
        /\ Content' = Content /\ Exists' = Exists
        /\ UNCHANGED <<Handle.flags \ {"DIRTY", "FS_DIRTY"}, Pos(Handle)>>
    BY <1>1, <1>2, <1>3, Starting
  <1>5. Job' = [Posix!NoJob EXCEPT !.op = "close"]
    BY <1>3 DEF Job, Phase, Posix!NoJob
  <1>6. Handle.flags \ {"DIRTY", "FS_DIRTY"} # {}
    BY <1>1 DEF IsOpen, Handle
  <1>7. Posix!BeginClose
    BY <1>1, <1>2, <1>4, <1>5, <1>6 DEF Posix!BeginClose, Posix!File
  <1> QED BY <1>4, <1>7 DEF Refines, Posix!Next

\* fat_read begins: BeginRead.
LEMMA ReadStarts ==
  ASSUME SoleUse, Sound, TypeInv', VolumeInv', NEW h \in Handles, NEW n \in 1 .. MaxCount, Read(h, n)
  PROVE  Refines
  <1>1. /\ h = 0 /\ file_num[h] = Handle /\ pc = "idle"
        /\ UNCHANGED <<fat, dir, disk, read_only>>
        /\ Posix!Idle
    BY HandleCall DEF Read
  <1>2. /\ pc' = "byte" /\ UNCHANGED <<ret, file_num>>
        /\ call' = [NoCall EXCEPT !.op = "read", !.fd = h, !.n = n]
    BY DEF Read, Start
  <1>3. /\ call'.op = "read" /\ call'.seeking = FALSE
        /\ call'.todo = <<>> /\ call'.n = n /\ call'.got = <<>>
    BY <1>2 DEF NoCall
  <1>4. /\ PosixInv'
        /\ Content' = Content /\ Exists' = Exists
        /\ UNCHANGED <<Handle.flags \ {"DIRTY", "FS_DIRTY"}, Pos(Handle)>>
    BY <1>1, <1>2, <1>3, Starting
  <1>5. Job' = [op |-> "read", todo |-> <<>>, n |-> n, got |-> <<>>, new |-> 0]
    BY <1>3 DEF Job, Phase
  <1>6. Job' = [Posix!NoJob EXCEPT !.op = "read", !.n = n] /\ Job'.op = "read" /\ Job'.n = n
    BY <1>5, NewJobs
  <1>7. {"OPEN", "READ"} \subseteq Handle.flags \ {"DIRTY", "FS_DIRTY"}
    BY <1>1 DEF Read, Has
  <1>8. Job'.n \in Nat
    BY <1>6, BoundsAssumption
  <1>9. Posix!BeginRead(Job'.n)
    BY <1>1, <1>2, <1>4, <1>6, <1>7 DEF Posix!BeginRead, Posix!File
  <1> QED BY <1>1, <1>4, <1>6, <1>8, <1>9 DEF Refines, Posix!Next

\* What is written is a sequence of bytes, not an empty one.
LEMMA PayloadBytes ==
  ASSUME NEW bs \in Payloads
  PROVE  bs \in Seq(Bytes) /\ bs # <<>>
  <1>1. PICK n \in 1 .. MaxCount : bs \in [1 .. n -> Bytes]
    BY DEF Payloads
  <1>2. n \in Nat /\ n > 0
    BY <1>1, BoundsAssumption
  <1>3. Len(bs) = n /\ bs \in Seq(Bytes)
    BY <1>1, <1>2
  <1> QED BY <1>2, <1>3

\* fat_write begins, appending or not: BeginWrite.
LEMMA WriteStarts ==
  ASSUME SoleUse, Sound, TypeInv', VolumeInv', NEW h \in Handles, NEW bs \in Payloads, Write(h, bs)
  PROVE  Refines
  <1>1. /\ h = 0 /\ file_num[h] = Handle /\ pc = "idle"
        /\ UNCHANGED <<fat, dir, disk, read_only>>
        /\ Posix!Idle
    BY HandleCall DEF Write
  <1> DEFINE adds == "APPEND" \in Handle.flags
  <1>. PICK c : c = [NoCall EXCEPT !.op = "write", !.fd = h, !.todo = bs]
    OBVIOUS
  <1>2. /\ UNCHANGED <<ret, file_num>>
        /\ adds => /\ pc' = "flush" /\ MaySeek(Handle, Handle.size)
                   /\ call' = [c EXCEPT !.seeking = TRUE, !.flush = "seek",
                                        !.old = Pos(Handle), !.new = Handle.size]
        /\ ~adds => pc' = "byte" /\ call' = c
    BY <1>1 DEF Write, Start
  <1>3. /\ call'.op = "write" /\ (call'.seeking <=> adds)
        /\ call'.todo = bs /\ call'.n = 0 /\ call'.got = <<>>
        /\ adds => call'.flush = "seek" /\ call'.old = Pos(Handle) /\ call'.new = Handle.size
    <2>1. /\ c.op = "write" /\ c.todo = bs /\ c.n = 0 /\ c.got = <<>> /\ c.seeking = FALSE
          /\ DOMAIN c = DOMAIN NoCall
      BY DEF NoCall
    <2>2. CASE ~adds
      BY <1>2, <2>1, <2>2
    <2>3. CASE adds
      BY <1>2, <2>1, <2>3 DEF NoCall
    <2> QED BY <2>2, <2>3
  <1>4. bs \in Seq(Bytes) /\ bs # <<>>
    BY PayloadBytes
  <1>5. adds => ~RiskySeek(Handle, Handle.size)
    BY <1>2 DEF MaySeek, SoleUse, SafeUse
  <1>6. /\ PosixInv'
        /\ Content' = Content /\ Exists' = Exists
        /\ UNCHANGED <<Handle.flags \ {"DIRTY", "FS_DIRTY"}, Pos(Handle)>>
    BY <1>1, <1>2, <1>3, <1>4, <1>5, Starting
  <1>7. Job' = [op |-> IF adds THEN "append" ELSE "write", todo |-> bs, n |-> 0, got |-> <<>>,
                new |-> 0]
    BY <1>3 DEF Job, Phase
  <1>8. /\ Job' = [Posix!NoJob EXCEPT !.op = IF adds THEN "append" ELSE "write", !.todo = bs]
        /\ Job'.op \in {"write", "append"} /\ Job'.todo = bs
    BY <1>7, NewJobs
  <1>9. /\ {"OPEN", "WRITE"} \subseteq Handle.flags \ {"DIRTY", "FS_DIRTY"}
        /\ adds <=> "APPEND" \in Handle.flags \ {"DIRTY", "FS_DIRTY"}
    BY <1>1 DEF Write, Has
  <1>10. Posix!BeginWrite(Job'.todo)
    BY <1>1, <1>2, <1>6, <1>8, <1>9 DEF Posix!BeginWrite, Posix!File
  <1> QED BY <1>1, <1>4, <1>6, <1>8, <1>10 DEF Refines, Posix!Next

\* fat_lseek begins: BeginSeek.
LEMMA SeekStarts ==
  ASSUME SoleUse, Sound, TypeInv', VolumeInv', NEW h \in Handles, NEW ptr \in Int,
         NEW whence \in {"SET", "CUR", "END"}, Lseek(h, ptr, whence)
  PROVE  Refines
  <1>1. /\ h = 0 /\ file_num[h] = Handle /\ pc = "idle" /\ IsOpen(0) /\ Handle \in FileS
        /\ UNCHANGED <<fat, dir, disk, read_only>>
        /\ Posix!Idle
    BY HandleCall DEF Lseek
  <1> DEFINE new == (SeekBase(Handle, whence) + ptr) % Word
  <1>2. /\ UNCHANGED <<ret, file_num>> /\ pc' = "flush" /\ MaySeek(Handle, new)
        /\ call' = [NoCall EXCEPT !.op = "lseek", !.fd = h, !.seeking = TRUE,
                                  !.flush = "seek", !.old = Pos(Handle), !.new = new]
    BY <1>1 DEF Lseek, Start
  <1>3. new \in Nat
    <2>1. Pos(Handle) \in Nat /\ Handle.size \in Nat
      BY <1>1, CursorAt DEF FileS
    <2>2. SeekBase(Handle, whence) \in Int
      BY <2>1 DEF SeekBase
    <2>3. PICK b \in Int : b = SeekBase(Handle, whence) + ptr
      BY <2>2
    <2>4. Word \in Nat \ {0}
      BY GeometryAssumption
    <2> QED BY <2>3, <2>4
  <1> HIDE DEF new
  <1>4. /\ call'.op = "lseek" /\ call'.seeking = TRUE
        /\ call'.todo = <<>> /\ call'.n = 0 /\ call'.got = <<>>
        /\ call'.flush = "seek" /\ call'.old = Pos(Handle) /\ call'.new = new
    BY <1>2 DEF NoCall
  <1>5. ~RiskySeek(Handle, new)
    BY <1>2 DEF MaySeek, SoleUse, SafeUse
  <1>6. /\ PosixInv'
        /\ Content' = Content /\ Exists' = Exists
        /\ UNCHANGED <<Handle.flags \ {"DIRTY", "FS_DIRTY"}, Pos(Handle)>>
    BY <1>1, <1>2, <1>4, <1>5, Starting
  <1>7. Job' = [op |-> "lseek", todo |-> <<>>, n |-> 0, got |-> <<>>, new |-> new]
    BY <1>4 DEF Job, Phase
  <1>8. Job' = [Posix!NoJob EXCEPT !.op = "lseek", !.new = new] /\ Job'.op = "lseek" /\ Job'.new = new
    BY <1>7, NewJobs
  <1>9. Handle.flags \ {"DIRTY", "FS_DIRTY"} # {}
    BY <1>1 DEF IsOpen, Handle
  <1>10. Posix!BeginSeek(Job'.new)
    BY <1>1, <1>2, <1>6, <1>8, <1>9 DEF Posix!BeginSeek, Posix!File
  <1> QED BY <1>1, <1>3, <1>6, <1>8, <1>10 DEF Refines, Posix!Next

\* Calls on a handle that is closed or may not do this are refused.
LEMMA BadHandleRefines ==
  ASSUME SoleUse, Sound, TypeInv', VolumeInv', NEW h \in Handles, BadHandle(h)
  PROVE  Refines
  <1>1. /\ Idle /\ h = 0 /\ file_num[h] = Handle
    BY HandleCall DEF BadHandle
  <1>2. ~IsOpen(0) => "WRITE" \notin Handle.flags /\ "READ" \notin Handle.flags
    BY ClosedHandle, ClosedSeen DEF Sound, TypeInv
  <1>3. CASE ~Has(h, {"OPEN", "WRITE"}) /\ Refuse("write", "EBADF")
    <2>1. "WRITE" \notin Handle.flags
      BY <1>1, <1>2, <1>3 DEF Has, IsOpen, Handle
    <2> QED BY <1>1, <1>3, <2>1, RefusedRefines
  <1>4. CASE ~Has(h, {"OPEN", "READ"}) /\ Refuse("read", "EBADF")
    <2>1. "READ" \notin Handle.flags
      BY <1>1, <1>2, <1>4 DEF Has, IsOpen, Handle
    <2> QED BY <1>1, <1>4, <2>1, RefusedRefines
  <1>5. CASE ~Has(h, {"OPEN"}) /\ \E op \in {"lseek", "close"} : Refuse(op, "EBADF")
    <2>1. ~IsOpen(0)
      BY <1>1, <1>5 DEF Has, IsOpen, Handle
    <2> QED BY <1>1, <1>5, <2>1, RefusedRefines
  <1> QED BY <1>3, <1>4, <1>5 DEF BadHandle

\* A name that is looked for and found, or not found.
LEMMA LookedUp ==
  ASSUME SoleUse, Sound, ~IsOpen(0), NEW n \in Names
  PROVE  /\ \A s \in Slots : Lookup(s, n) => Live(s) /\ LiveSlots = {s} /\ Exists
         /\ Missing(n) => LiveSlots = {} /\ ~Exists
  <1>1. ASSUME NEW s \in Slots, Lookup(s, n) PROVE Live(s) /\ LiveSlots = {s} /\ Exists
    <2>1. Live(s)
      BY <1>1 DEF Lookup, IsNamed, Live
    <2> QED BY <2>1, SoleEntry DEF Exists
  <1>2. ASSUME Missing(n) PROVE LiveSlots = {}
    <2>1. ASSUME NEW s \in Slots, Live(s) PROVE FALSE
      <3>1. dir[s].name # n
        BY <1>2, <2>1, MissingNowhere DEF Sound, VolumeInv
      <3>2. dir[s].name \in Names
        BY <2>1 DEF Sound, PosixInv, PlainInv
      <3> QED BY <3>1, <3>2 DEF SoleUse
    <2> QED BY <2>1 DEF LiveSlots, Live
  <1>3. Missing(n) => ~Exists
    BY <1>2 DEF Exists
  <1> QED BY <1>1, <1>2, <1>3

\* The table of open files has one entry.
LEMMA FullTable ==
  ASSUME SoleUse, Sound
  PROVE  TableFull <=> IsOpen(0)
  BY Sole DEF TableFull, Sound, TypeInv

\* fat_unlink begins: BeginUnlink.
LEMMA UnlinkStarts ==
  ASSUME SoleUse, Sound, TypeInv', VolumeInv', NEW n \in Names, Unlink(n)
  PROVE  Refines
  <1>1. Idle /\ pc = "idle" /\ UNCHANGED <<fat, dir, disk, read_only>> /\ ~IsOpen(0)
    BY FullTable DEF Unlink, Idle, Ready, NoWrite
  <1>2. PICK s \in Slots :
          /\ Lookup(s, n) /\ pc' = "delete" /\ UNCHANGED <<ret, file_num>>
          /\ call' = [NoCall EXCEPT !.op = "unlink", !.slot = s, !.res = dir[s].first]
    BY DEF Unlink, Start
  <1>3. /\ call'.op = "unlink" /\ call'.seeking = FALSE
        /\ call'.todo = <<>> /\ call'.n = 0 /\ call'.got = <<>>
    BY <1>2 DEF NoCall
  <1>4. /\ PosixInv'
        /\ Content' = Content /\ Exists' = Exists
        /\ UNCHANGED <<Handle.flags \ {"DIRTY", "FS_DIRTY"}, Pos(Handle)>>
    BY <1>1, <1>2, <1>3, Starting
  <1>5. Job' = [Posix!NoJob EXCEPT !.op = "unlink"]
    BY <1>3 DEF Job, Phase, Posix!NoJob
  <1>6. Handle.flags \ {"DIRTY", "FS_DIRTY"} = {} /\ Exists /\ Posix!Idle
    BY <1>1, <1>2, ClosedHandle, ClosedSeen, LookedUp, NowIdle DEF Sound, TypeInv
  <1>7. Posix!BeginUnlink
    BY <1>2, <1>4, <1>5, <1>6 DEF Posix!BeginUnlink, Posix!File
  <1> QED BY <1>4, <1>7 DEF Refines, Posix!Next

\* A handle fat_open has filled.
LEMMA Opening ==
  ASSUME SoleUse, Sound, TypeInv', VolumeInv', Idle, UNCHANGED <<pc, call>>,
         NEW m \in Modes,
         Handle'.flags = AccessFlags(m), ~Handle'.ro, Pos(Handle)' = 0,
         Handle'.first # 0 => Handle'.size > 0,
         Handle'.entry # 0 => dir[Handle'.entry].size = Handle'.size,
         Handle'.first # 0 =>
           OnCluster(Walk, Handle, 0)' /\ Handle'.buffer = disk[Handle'.sector]
  PROVE  /\ PosixInv' /\ IsOpen(0)' /\ Job' = Job
         /\ Handle'.flags \ {"DIRTY", "FS_DIRTY"} = Posix!Access(m)
         /\ Content' = FileOn(fat, disk, Handle'.first, Handle'.size)
         /\ Exists' <=> Handle'.size > 0
  <1>1. /\ pc = "idle" /\ pc' = "idle" /\ UNCHANGED <<fat, dir, disk, read_only>>
        /\ call = NoCall /\ call' = NoCall
    BY NowIdle DEF Idle, Ready, NoWrite
  <1>2. /\ "DIRTY" \notin Handle'.flags /\ "OPEN" \in Handle'.flags
        /\ Handle'.flags \ {"DIRTY", "FS_DIRTY"} = Posix!Access(m)
    BY DEF AccessFlags, Posix!Access
  <1>3. PlainInv'
    BY <1>1, <1>2 DEF Sound, PosixInv, PlainInv, Live
  <1>4. Handle'.size \in Nat
    <2>1. 0 \in Handles
      BY Sole DEF Sound, TypeInv
    <2> QED BY <2>1 DEF TypeInv, TypeOK, Handle, FileS
  <1>5. Pos(Handle)' <= Handle'.size
    BY <1>4
  <1>6. Reading' => (\E i \in 0 .. LastCluster : OnCluster(Walk, Handle, i)') \/ AtEnd(Handle)'
    <2>1. 0 \in 0 .. LastCluster
      BY GeometryAssumption
    <2> QED BY <2>1 DEF Reading
  <1>7. BufferInv'
    BY <1>1 DEF BufferInv
  <1>8. IsOpen(0)' /\ Handle'.entry # 0 /\ "FS_DIRTY" \notin Handle'.flags =>
           dir'[Handle'.entry].size = Handle'.size
    BY <1>1
  <1>9. PosixInv'
    BY <1>1, <1>3, <1>5, <1>6, <1>7, <1>8, IdlePosix
  <1>10. IsOpen(0)'
    BY <1>2 DEF IsOpen, Handle
  <1>11. Content' = FileOn(fat, disk, Handle'.first, Handle'.size)
    <2>1. Content' = FileBytes(fat', disk', Handle')
      BY <1>3, <1>10, ContentOpenNext, BytesNow
    <2>2. \A p : FileByte(fat', disk', Handle', p) = ByteIn(fat, disk, Handle'.first, p)
      BY <1>1, <1>2 DEF FileByte
    <2> QED BY <2>1, <2>2 DEF FileBytes, FileOn
  <1>12. Exists' <=> Handle'.size > 0
    BY <1>3, <1>10, ExistsOpenNext
  <1> QED BY <1>1, <1>2, <1>9, <1>10, <1>11, <1>12, IdleJob, NowIdle

\* fat_open of a name that is not there: OpenNew, or refused.
LEMMA CreateRefines ==
  ASSUME SoleUse, Sound, TypeInv', VolumeInv', NEW n \in Names, NEW m \in Modes, NEW ro \in RoModes,
         OpenMissing(n, m, ro)
  PROVE  Refines
  <1>1. Idle /\ Missing(n)
    BY DEF OpenMissing
  <1>2. PICK h \in Handles :
          /\ NextFile(h)
          /\ IF "CREAT" \notin m THEN Refuse("open", "ENOENT")
             ELSE IF read_only THEN Refuse("open", "EROFS")
             ELSE /\ file_num' = [file_num EXCEPT ![h] = NewFile(n, m, ro)]
                  /\ ret' = [Result("open", "OK") EXCEPT !.fd = h]
                  /\ UNCHANGED <<pc, call>>
    BY DEF OpenMissing, CreateIn
  <1>3. h = 0 /\ ~IsOpen(0) /\ ~read_only
    BY <1>2, Sole DEF NextFile, Sound, TypeInv, PosixInv, PlainInv
  <1>4. LiveSlots = {} /\ ~Exists
    BY <1>1, <1>3, LookedUp
  <1>5. CASE "CREAT" \notin m
    BY <1>1, <1>2, <1>4, <1>5, RefusedRefines
  <1>6. CASE "CREAT" \in m
    <2>1. /\ Handle' = NewFile(n, m, ro)
          /\ ret' = [Result("open", "OK") EXCEPT !.fd = h]
          /\ UNCHANGED <<pc, call>>
      BY <1>2, <1>3, <1>6, Sole DEF Handle, Sound, TypeInv, TypeOK
    <2>2. /\ Handle'.flags = AccessFlags(m) /\ Handle'.ro = ro
          /\ Handle'.first = 0 /\ Handle'.size = 0 /\ Handle'.entry = 0
          /\ Handle'.file_sector = 0 /\ Handle'.cursor = 0
      BY <2>1 DEF NewFile, Closed
    <2>3. ~ro
      BY DEF SoleUse
    <2>4. Pos(Handle)' = 0
      <3>1. 0 * SectorSize + 0 = 0
        BY GeometryAssumption
      <3> QED BY <2>2, <3>1 DEF Pos
    <2>5. /\ PosixInv' /\ IsOpen(0)' /\ Job' = Job
          /\ Handle'.flags \ {"DIRTY", "FS_DIRTY"} = Posix!Access(m)
          /\ Content' = FileOn(fat, disk, 0, 0)
          /\ Exists' <=> FALSE
      <3>1. ~(0 > 0)
        OBVIOUS
      <3> QED BY <1>1, <2>1, <2>2, <2>3, <2>4, <3>1, Opening
    <2>6. Content' = <<>>
      BY <2>5 DEF FileOn
    <2>7. ret'.op = "open" /\ ret'.err = "OK"
      BY <2>1 DEF Result
    <2>8. Handle.flags \ {"DIRTY", "FS_DIRTY"} = {} /\ Posix!Idle
      BY <1>1, <1>3, ClosedHandle, ClosedSeen, NowIdle DEF Sound, TypeInv, Idle, Ready
    <2>9. Exists' = Exists
      BY <1>4, <2>5 DEF Exists
    <2>10. Posix!OpenNew(m)
      BY <1>4, <1>6, <2>4, <2>5, <2>6, <2>7, <2>8, <2>9 DEF Posix!OpenNew, Posix!Answer
    <2> QED BY <2>5, <2>10 DEF Refines, Posix!Next
  <1> QED BY <1>5, <1>6

\* fat_open of a file: OpenOld, or refused.
LEMMA OpenRefines ==
  ASSUME SoleUse, Sound, TypeInv', VolumeInv', NEW n \in Names, NEW m \in Modes, OpenFound(n, m)
  PROVE  Refines
  <1>1. Idle /\ UNCHANGED fat
    BY DEF OpenFound, Idle, Ready, NoWrite
  <1>2. PICK h \in Handles, s \in Slots :
          /\ NextFile(h) /\ Lookup(s, n)
          /\ IF {"CREAT", "EXCL"} \subseteq m THEN Refuse("open", "EEXIST")
             ELSE IF "WRITE" \in m /\ read_only THEN Refuse("open", "EROFS")
             ELSE IF "WRITE" \in m /\ dir[s].ro THEN Refuse("open", "EACCES")
             ELSE /\ file_num' = [file_num EXCEPT ![h] = OldFile(s, m)]
                  /\ ~ {"WRITE", "TRUNC"} \subseteq m =>
                       /\ ret' = [Result("open", "OK") EXCEPT !.fd = h]
                       /\ UNCHANGED <<pc, call>>
    BY DEF OpenFound, OpenIn
  <1>3. h = 0 /\ ~IsOpen(0) /\ ~read_only /\ ~dir[s].ro /\ ~ {"WRITE", "TRUNC"} \subseteq m
    BY <1>2, Sole DEF NextFile, Sound, TypeInv, PosixInv, PlainInv, SoleUse, SafeUse
  <1>4. Live(s) /\ LiveSlots = {s} /\ Exists
    BY <1>2, <1>3, LookedUp
  <1>5. CASE {"CREAT", "EXCL"} \subseteq m
    BY <1>1, <1>2, <1>4, <1>5, RefusedRefines
  <1>6. CASE ~ {"CREAT", "EXCL"} \subseteq m
    <2>1. /\ Handle' = OldFile(s, m)
          /\ ret' = [Result("open", "OK") EXCEPT !.fd = h]
          /\ UNCHANGED <<pc, call>>
      BY <1>2, <1>3, <1>6, Sole DEF Handle, Sound, TypeInv, TypeOK
    <2>2. /\ Handle'.flags = AccessFlags(m) /\ Handle'.ro = dir[s].ro
          /\ Handle'.first = dir[s].first /\ Handle'.size = dir[s].size /\ Handle'.entry = s
          /\ Handle'.file_sector = 0 /\ Handle'.cursor = 0
          /\ Handle'.cluster = dir[s].first /\ Handle'.sector = SectorOf(dir[s].first)
          /\ Handle'.sectors_left = SectorsPerCluster - 1
          /\ Handle'.buffer = disk[SectorOf(dir[s].first)]
      BY <2>1 DEF OldFile, Closed
    <2>3. dir[s].size > 0 /\ dir[s].first \in Clusters
      BY <1>4 DEF Sound, PosixInv, PlainInv, VolumeInv, DirInv
    <2>4. Pos(Handle)' = 0
      <3>1. 0 * SectorSize + 0 = 0
        BY GeometryAssumption
      <3> QED BY <2>2, <3>1 DEF Pos
    <2>5. OnCluster(Walk, Handle, 0)'
      <3>1. (Walk[0])' = dir[s].first
        <4>1. Walk' = WalkIn(fat', Handle'.first)
          BY WalksNow DEF Walk
        <4> QED BY <2>2, <4>1, WalkInWalks
      <3>2. /\ SectorOf(dir[s].first) \in Int /\ SectorsPerCluster \in Nat
            /\ SectorsPerCluster - 1 < SectorsPerCluster
            /\ 0 = 0 * SectorsPerCluster + (SectorsPerCluster - 1 - (SectorsPerCluster - 1))
        BY <2>3, GeometryAssumption DEF SectorOf, Clusters
      <3>3. SectorOf(dir[s].first) + (SectorsPerCluster - 1)
              = SectorOf(dir[s].first) + SectorsPerCluster - 1
        BY <3>2
      <3> QED BY <2>2, <2>3, <3>1, <3>2, <3>3 DEF OnCluster, PlacedAt, SectorOf
    <2>6. /\ PosixInv' /\ IsOpen(0)' /\ Job' = Job
          /\ Handle'.flags \ {"DIRTY", "FS_DIRTY"} = Posix!Access(m)
          /\ Content' = FileOn(fat, disk, dir[s].first, dir[s].size)
          /\ Exists' <=> TRUE
      BY <1>1, <1>3, <2>1, <2>2, <2>3, <2>4, <2>5, Opening
    <2>7. Content' = Content
      <3>1. call.op # "open"
        BY <1>1, NowIdle DEF Idle, Ready, NoCall
      <3> QED BY <1>3, <1>4, <2>6, <3>1, ContentClosed
    <2>8. ret'.op = "open" /\ ret'.err = "OK"
      BY <2>1 DEF Result
    <2>9. Handle.flags \ {"DIRTY", "FS_DIRTY"} = {} /\ Posix!Idle
      BY <1>1, <1>3, ClosedHandle, ClosedSeen, NowIdle DEF Sound, TypeInv, Idle, Ready
    <2>10. Exists' = Exists
      BY <1>4, <2>6 DEF Exists
    <2>11. Posix!OpenOld(m)
      BY <1>3, <1>4, <1>6, <2>4, <2>6, <2>7, <2>8, <2>9, <2>10 DEF Posix!OpenOld, Posix!Answer
    <2> QED BY <2>6, <2>11 DEF Refines, Posix!Next
  <1> QED BY <1>5, <1>6

\* Every call begins as PosixFile lets it begin.
LEMMA BeginRefines ==
  ASSUME SoleUse, Sound, TypeInv', VolumeInv', Begin
  PROVE  Refines
  <1>1. ASSUME NEW n \in Names, OpenNoHandle(n) \/ UnlinkRefused(n) PROVE Refines
    <2>1. CASE OpenNoHandle(n)
      BY <2>1, FullTable, RefusedRefines DEF OpenNoHandle
    <2>2. CASE UnlinkRefused(n) /\ TableFull
      BY <2>2, FullTable, RefusedRefines DEF UnlinkRefused
    <2>3. CASE UnlinkRefused(n) /\ ~TableFull
      BY <2>3, FullTable, LookedUp, RefusedRefines DEF UnlinkRefused
    <2> QED BY <1>1, <2>1, <2>2, <2>3
  <1>2. ASSUME NEW h \in Handles, NEW w \in {"SET", "CUR", "END"}, NEW p \in -MaxSize .. MaxSize,
               Lseek(h, p, w)
        PROVE Refines
    <2>1. p \in Int
      BY BoundsAssumption
    <2> QED BY <1>2, <2>1, SeekStarts
  <1>3. ASSUME NEW h \in Handles, Close(h) \/ BadHandle(h) PROVE Refines
    BY <1>3, CloseStarts, BadHandleRefines
  <1>4. ASSUME NEW h \in Handles, NEW bs \in Payloads, Write(h, bs) PROVE Refines
    BY <1>4, WriteStarts
  <1>5. ASSUME NEW h \in Handles, NEW n \in 1 .. MaxCount, Read(h, n) PROVE Refines
    BY <1>5, ReadStarts
  <1>6. ASSUME NEW n \in Names, NEW m \in Modes,
               OpenFound(n, m) \/ \E ro \in RoModes : OpenMissing(n, m, ro)
        PROVE Refines
    BY <1>6, OpenRefines, CreateRefines
  <1>7. ASSUME NEW n \in Names, Unlink(n) PROVE Refines
    BY <1>7, UnlinkStarts
  <1>8. SafeUse /\ \A n, m : ~OpenUnread(n, m)
    BY NoFault DEF OpenUnread, SoleUse
  <1> QED BY <1>1, <1>2, <1>3, <1>4, <1>5, <1>6, <1>7, <1>8, DirectoryWorks DEF Begin

\* Every step keeps the invariant and is a step of PosixFile or none.
LEMMA StepRefines ==
  ASSUME SoleUse, Sound, TypeInv', VolumeInv', [Next]_vars
  PROVE  Refines
  <1>1. CASE Step
    BY <1>1, FlushRefines, InfoRefines, NextRefines, SeekRefines, ByteRefines, FreeRefines,
       CloseInfoRefines, ReturnRefines DEF Step
  <1>2. CASE Begin
    BY <1>2, BeginRefines
  <1>3. ~Crash
    BY DEF Crash, SoleUse, Sound, TypeInv, TypeOK
  <1>4. CASE UNCHANGED vars
    BY <1>4, StutterRefines
  <1> QED BY <1>1, <1>2, <1>3, <1>4 DEF Next

-----------------------------------------------------------------------------
(* The refinement. *)

\* The initial states.
LEMMA InitRefines == SoleUse /\ Init => Sound /\ Posix!Init
  <1> SUFFICES ASSUME SoleUse, Init PROVE Sound /\ Posix!Init
    OBVIOUS
  <1>1. TypeInv /\ VolumeInv /\ ChainInv /\ SpaceInv
    BY InitType, InitSafe, InitChains, InitSpace
  <1>2. /\ Handle = Closed /\ call = NoCall /\ pc = "idle" /\ ~read_only /\ ret.op = "none"
        /\ \A s \in Slots : dir[s].kind = "end" /\ ~dir[s].ro
    BY <1>1, Sole DEF Init, Handle, TypeInv, Result, EmptySlot
  <1>3. ~IsOpen(0) /\ LiveSlots = {} /\ \A s \in Slots : ~Live(s)
    BY <1>2, ClosedSeen DEF IsOpen, Handle, LiveSlots, Live
  <1>4. call.op = "none" /\ call.seeking = FALSE
    BY <1>2 DEF NoCall
  <1>5. ~Walking /\ ~Crossing /\ ~Loading
    BY <1>2 DEF Walking, Crossing, Loading, Linked
  <1>6. PlainInv
    BY <1>2, <1>3, ClosedSeen DEF PlainInv
  <1>7. FlowInv
    BY <1>2, <1>4, <1>5 DEF FlowInv, Flushing, Hopping, Closing, Linked
  <1>8. PlaceInv
    BY <1>2, <1>4, <1>5, ClosedSeen DEF PlaceInv
  <1>9. ReaderInv /\ BufferInv /\ StoredInv
    BY <1>3, <1>4 DEF ReaderInv, Reading, BufferInv, StoredInv
  <1>10. Content = <<>> /\ ~Exists
    BY <1>3, <1>4, ContentClosed DEF Exists
  <1>11. Job = Posix!NoJob
    BY <1>2 DEF NoCall, Job, Phase, Posix!NoJob
  <1>12. Posix!Init
    BY <1>2, <1>10, <1>11, ClosedSeen DEF Posix!Init
  <1> QED BY <1>1, <1>6, <1>7, <1>8, <1>9, <1>12 DEF Sound, PosixInv

\* The invariant is inductive, and its steps are steps of PosixFile.
LEMMA NextRefinesPosix ==
  SoleUse /\ Sound /\ [Next]_vars => Sound' /\ [Posix!Next]_(Posix!posix)
  <1> SUFFICES ASSUME SoleUse, Sound, [Next]_vars
               PROVE  Sound' /\ [Posix!Next]_(Posix!posix)
    OBVIOUS
  <1>1. SafeUse /\ TypeInv /\ VolumeInv /\ ChainInv /\ SpaceInv
    BY DEF SoleUse, Sound
  <1>2. TypeInv' /\ VolumeInv' /\ ChainInv'
    BY <1>1, NextInOrder
  <1>3. SpaceInv'
    BY <1>1, <1>2, NextKeepsSpace
  <1>4. Refines
    BY <1>2, StepRefines
  <1> QED BY <1>2, <1>3, <1>4 DEF Refines, Sound

\* gristle.c, fat_open, fat_read, fat_write, fat_lseek, fat_close and fat_unlink:
\* one file used through one handle behaves as a sequence of bytes with a
\* position.  Reads return the bytes last written, wherever buffer, sectors and
\* clusters have them; seeks land where they say; closing and opening again
\* changes nothing; only a write at the end of the file, or storing a file that
\* exists, can fail.  This for every geometry of the volume, every size of file
\* and sequence of calls, under SoleUse.
THEOREM PosixImplemented == ASSUME SoleUse PROVE Spec => ImplementsPosix
  <1>1. Init => Sound /\ Posix!Init
    BY InitRefines
  <1>2. Sound /\ [Next]_vars => Sound' /\ [Posix!Next]_(Posix!posix)
    BY NextRefinesPosix
  <1> QED BY <1>1, <1>2, PTL DEF Spec, ImplementsPosix, Posix!Spec
=============================================================================
