---------------------------- MODULE FatFsChains ----------------------------
(***************************************************************************)
(* Theorems about FatFs and FatVolume: under SafeUse the chains of the FAT *)
(* keep up with the files (ChainInv, below).  Every cluster in             *)
(* use has a rank, its distance from the first cluster of its chain; the   *)
(* ranks are chosen anew where a chain is begun, extended or freed, and    *)
(* kept by every other step.  From the ranks follow that data is written   *)
(* only into clusters of its own file, and that every size in the          *)
(* directory is covered by the file's chain.                               *)
(***************************************************************************)
EXTENDS FatFsSafety, FatVolume, WellFoundedInduction

(***************************************************************************)
(* The chains.  rank is the place of a cluster in the chain it belongs to, *)
(* -1 for a cluster in no chain: a free one, one whose link has not been   *)
(* written yet or never was, or the rest of a deleted file.  No variable   *)
(* holds it: some ranking fits every reachable state.                      *)
(***************************************************************************)
Ranks == [Clusters -> Int]
InChain(rank, c, first) == c \in Clusters /\ owner[c] = first /\ rank[c] >= 0
Chained(rank) ==
  /\ \A c \in Clusters : rank[c] >= -1
  /\ \A c \in Clusters : rank[c] = 0 <=> owner[c] = c
  /\ \A c \in Clusters : rank[c] >= 0 => owner[c] \in Clusters /\ owner[owner[c]] = owner[c]
  /\ \A c \in Clusters : rank[c] >= 0 /\ fat[c] \in Clusters => rank[fat[c]] = rank[c] + 1
  /\ \A c \in Clusters : rank[c] > 0 =>
       \E d \in Clusters : fat[d] = c /\ rank[d] = rank[c] - 1
  /\ \A c, d \in Clusters :
       rank[c] >= 0 /\ rank[d] = rank[c] /\ owner[c] = owner[d] => c = d
  /\ \A c, d \in Clusters :
       rank[c] >= 0 /\ rank[d] >= 0 /\ owner[c] = owner[d] /\ fat[d] = EndMarker
         => rank[c] <= rank[d]

\* The chain that starts at first has room for a file of n bytes; it has the
\* cluster that byte p of the file is in.
Covers(rank, first, n) ==
  \E c \in Clusters : InChain(rank, c, first) /\ n <= (rank[c] + 1) * ClusterBytes
Reaches(rank, first, p) ==
  \E c \in Clusters : InChain(rank, c, first) /\ p < (rank[c] + 1) * ClusterBytes
SizesInv(rank) ==
  /\ \A s \in Slots : Live(s) => Covers(rank, dir[s].first, dir[s].size)
  /\ \A h \in Handles : IsOpen(h) =>
       IF file_num[h].first = 0 THEN file_num[h].size <= SectorSize
       ELSE Covers(rank, file_num[h].first, file_num[h].size)

(***************************************************************************)
(* Where a handle that may write stands: cluster, sector, sectors_left and *)
(* file_sector agree with each other and with the chain, except while      *)
(* fat_lseek walks the chain, and in a call that never returns.            *)
(***************************************************************************)
Walking ==
  \/ pc \in {"walk", "walked", "lost"}
  \/ pc = "flush" /\ call.flush = "next"
  \/ pc \in {"next", "chain"} /\ call.next = "walk"
  \/ pc = "info" /\ call.info = "next" /\ call.next = "walk"
Aligned(rank, f) ==
  /\ PlacedAt(f, f.cluster)
  /\ f.file_sector = rank[f.cluster] * SectorsPerCluster
                       + (SectorsPerCluster - 1 - f.sectors_left)
StandsAt(rank, f) == InChain(rank, f.cluster, f.first) /\ Aligned(rank, f)
StandInv(rank) == \A h \in Handles :
  IsOpen(h) /\ "WRITE" \in file_num[h].flags /\ file_num[h].first # 0
    /\ ~(Walking /\ h = call.fd) => StandsAt(rank, file_num[h])

\* fat_next_sector leaves the last sector of a cluster for the next cluster.
Linked == pc = "select" \/ (pc = "info" /\ call.info = "next")
Crossing == (pc \in {"next", "chain"} \/ Linked) /\ ~Walking
CrossInv(rank) == Crossing /\ "WRITE" \in Cur.flags =>
  /\ Cur.sectors_left = 0
  /\ Linked => rank[call.res] = rank[Cur.cluster] + 1

(***************************************************************************)
(* fat_lseek of a handle that may write, in its phases: the flush before   *)
(* it, the next sector loaded when the cursor has run off the sector, the  *)
(* choice of a case, the walk along the chain.                             *)
(***************************************************************************)
WriterSeeks == call.seeking /\ "WRITE" \in Cur.flags
SeekFlushing ==
  (pc \in {"flush", "data"} \/ (pc = "info" /\ call.info = "flush")) /\ call.flush = "seek"
Loading == pc = "sector" \/ (pc = "flush" /\ call.flush = "sector") \/ Crossing
\* The cluster to move to is there or can be had.
Room(rank) == (\E k \in FatIndex : fat[k] = 0) \/ Reaches(rank, Cur.first, call.new)
SeekerInv(rank) == WriterSeeks =>
  /\ pc = "flush" /\ call.flush = "seek" => ~RiskySeek(Cur, call.new)
  /\ "DIRTY" \in Cur.flags => SeekFlushing /\ pc # "info"
  /\ SeekFlushing \/ pc = "seek" => Pos(Cur) = call.old
  /\ Loading => Pos(Cur) = call.old /\ Cur.cursor = SectorSize /\ call.new <= Cur.size
  /\ pc = "case" =>
       /\ call.new <= Cur.size
       /\ \/ Pos(Cur) = call.old /\ Cur.cursor < SectorSize
          \/ call.new < call.old /\ call.old % ClusterBytes = 0
  /\ Walking /\ pc # "lost" =>
       /\ call.new <= Cur.size
       /\ InChain(rank, Cur.cluster, Cur.first) /\ rank[Cur.cluster] = call.i
       /\ call.i <= call.new \div ClusterBytes
       /\ pc # "walk" => call.i < call.new \div ClusterBytes
       /\ pc = "walked" \/ Linked =>
            InChain(rank, call.res, Cur.first) /\ rank[call.res] = call.i + 1
  /\ pc # "chain" /\ ~(pc = "flush" /\ call.flush = "seek") /\ Cur.first # 0
       /\ call.new <= Cur.size => Room(rank)

\* What needs no ranking: who may write, and which labels belong to a seek.
FlagsInv == \A h \in Handles :
  /\ "DIRTY" \in file_num[h].flags => "WRITE" \in file_num[h].flags
  /\ "APPEND" \in file_num[h].flags => Faulty = {}
AccessInv ==
  /\ FlagsInv
  /\ WriterSeeks => Faulty = {}
  /\ pc = "data" => "DIRTY" \in Cur.flags
  /\ pc = "chain" => "WRITE" \in Cur.flags
  /\ pc \in SeekLabels \/ SeekFlushing => call.seeking
  /\ pc \in {"flush", "data"} \/ (pc = "info" /\ call.info = "flush") =>
       (call.flush = "next" => call.seeking /\ call.next = "walk")
  /\ pc \in {"next", "chain"} \/ Linked => (call.next = "walk" => call.seeking /\ pc # "select")
  /\ call.seeking =>
       /\ pc \notin FreeLabels \cup {"idle", "done", "fail", "closing", "byte"}
       /\ call.flush \in {"seek", "sector", "next"}
       /\ pc = "info" => call.info \in {"flush", "next"}
\* Only the flush before a seek or of a call that does not seek allocates a
\* file's first cluster.
FirstInv ==
  pc = "data" \/ (pc = "info" /\ call.info = "flush") =>
    (call.seeking => call.flush = "seek")

\* fat_free_clusters zeroes the first cluster of a chain before the others.
FreeingInv ==
  LET first == owner[call.res]
  IN /\ pc = "free" /\ call.block = NoBlock => first = call.res
     /\ pc = "freed" \/ (pc = "free" /\ call.block # NoBlock) =>
          first \in call.zeroed \/ owner[first] # first

RankInv(rank) ==
  Chained(rank) /\ SizesInv(rank) /\ StandInv(rank) /\ CrossInv(rank) /\ SeekerInv(rank)
ChainInv == AccessInv /\ FirstInv /\ FreeingInv /\ \E rank \in Ranks : RankInv(rank)

-----------------------------------------------------------------------------
(* Positions in a file, as sectors and clusters. *)

\* From one multiple to the next.
LEMMA NextMultiple ==
  ASSUME NEW a \in Nat, NEW b \in Nat
  PROVE  (a + 1) * b = a * b + b
  BY Z3

\* Quotient and remainder.
LEMMA DivMod ==
  ASSUME NEW a \in Nat, NEW b \in Nat \ {0}
  PROVE  a \div b \in Nat /\ a % b \in 0 .. b - 1 /\ a = (a \div b) * b + (a % b)
  OBVIOUS

\* The quotient and the remainder are the only such pair.
LEMMA DivModUnique ==
  ASSUME NEW b \in Nat \ {0}, NEW q \in Nat, NEW r \in 0 .. b - 1
  PROVE  (q * b + r) \div b = q /\ (q * b + r) % b = r
  <1> DEFINE a == q * b + r
             k == a \div b
             m == a % b
  <1>1. a \in Nat /\ k \in Nat /\ m \in 0 .. b - 1 /\ a = k * b + m
    OBVIOUS
  <1>2. a = q * b + r
    OBVIOUS
  <1> HIDE DEF a, k, m
  <1>3. ASSUME q <= k - 1 PROVE FALSE
    <2>1. (q + 1) * b <= k * b /\ (q + 1) * b = q * b + b
      BY <1>1, <1>3, MulMonotone, Z3
    <2> QED BY <1>1, <1>2, <2>1
  <1>4. ASSUME k <= q - 1 PROVE FALSE
    <2>1. (k + 1) * b <= q * b /\ (k + 1) * b = k * b + b
      BY <1>1, <1>4, MulMonotone, Z3
    <2> QED BY <1>1, <1>2, <2>1
  <1>5. k = q
    BY <1>1, <1>3, <1>4
  <1>6. m = r
    BY <1>1, <1>2, <1>5
  <1> QED BY <1>5, <1>6 DEF a, k, m

\* Byte u of sector j of the cluster of rank r.
LEMMA Positions ==
  ASSUME NEW r \in Nat, NEW j \in 0 .. SectorsPerCluster - 1, NEW u \in 0 .. SectorSize,
         NEW p, p = (r * SectorsPerCluster + j) * SectorSize + u
  PROVE  /\ p \in Nat /\ p <= (r + 1) * ClusterBytes /\ (r + 1) * ClusterBytes \in Nat
         /\ u < SectorSize => /\ p < (r + 1) * ClusterBytes
                              /\ p \div SectorSize = r * SectorsPerCluster + j
                              /\ p % SectorSize = u
                              /\ p \div ClusterBytes = r
                              /\ (p % ClusterBytes) \div SectorSize = j
         /\ u = SectorSize /\ j = SectorsPerCluster - 1 => p = (r + 1) * ClusterBytes
  <1> DEFINE n == SectorsPerCluster
             B == SectorSize
             C == ClusterBytes
             rn == r * n
             v == j * B
             w == r * C
  <1>1. n \in Nat \ {0} /\ B \in Nat \ {0} /\ C = n * B
    BY GeometryAssumption DEF ClusterBytes
  <1>2. C \in Nat \ {0} /\ rn \in Nat /\ v \in Nat /\ w \in Nat
    <2>1. C \in Nat \ {0}
      BY PositiveSizes
    <2> HIDE DEF C
    <2> QED BY <1>1, <2>1
  <1>3. v <= (n - 1) * B /\ (n - 1) * B = n * B - B /\ (n - 1) * B \in Nat
    BY <1>1, MulMonotone, Z3
  <1>4. rn * B = w
    BY <1>1, Z3
  <1>5. (rn + j) * B = w + v
    BY <1>1, <1>2, <1>4, Z3
  <1>6. (r + 1) * C = w + C
    <2>1. C \in Nat
      BY <1>2
    <2> HIDE DEF C
    <2> QED BY <2>1, NextMultiple
  <1>7. p = w + v + u
    BY <1>5
  <1>8. v + u <= C /\ (u < B => v + u < C) /\ (u = B /\ j = n - 1 => v + u = C)
    BY <1>1, <1>2, <1>3
  <1>9. ASSUME u < B
        PROVE  p \div B = rn + j /\ p % B = u /\ p \div C = r /\ (p % C) \div B = j
    <2>1. rn + j \in Nat /\ u \in 0 .. B - 1 /\ p = (rn + j) * B + u
      BY <1>1, <1>2, <1>9
    <2>2. p \div B = rn + j /\ p % B = u
      BY <1>1, <2>1, DivModUnique
    <2>3. v + u \in 0 .. C - 1 /\ p = r * C + (v + u)
      BY <1>2, <1>7, <1>8, <1>9
    <2> HIDE DEF C, v, w, rn
    <2>4. p \div C = r /\ p % C = v + u
      BY <1>2, <2>3, DivModUnique
    <2>5. (v + u) \div B = j
      BY <1>1, <2>1, DivModUnique DEF v
    <2> QED BY <2>2, <2>4, <2>5
  <1> HIDE DEF C, v, w, rn
  <1>10. p \in Nat /\ p <= w + C /\ (u < B => p < w + C) /\ (u = B /\ j = n - 1 => p = w + C)
    BY <1>2, <1>7, <1>8, GeometryAssumption
  <1>11. (r + 1) * C \in Nat
    BY <1>2, <1>6
  <1> QED BY <1>6, <1>9, <1>10, <1>11 DEF C, rn

\* The sector of a position: in its cluster and in its file.
LEMMA SplitPosition ==
  ASSUME NEW p \in Nat
  PROVE  /\ p \div ClusterBytes \in Nat
         /\ (p % ClusterBytes) \div SectorSize \in 0 .. SectorsPerCluster - 1
         /\ p \div SectorSize = (p \div ClusterBytes) * SectorsPerCluster
                                  + ((p % ClusterBytes) \div SectorSize)
         /\ p % SectorSize \in 0 .. SectorSize - 1
         /\ p = (p \div SectorSize) * SectorSize + (p % SectorSize)
  <1> DEFINE n == SectorsPerCluster
             B == SectorSize
             C == ClusterBytes
             r == p \div C
             m == p % C
             j == m \div B
             u == m % B
  <1>1. n \in Nat \ {0} /\ B \in Nat \ {0} /\ C = n * B /\ C \in Nat \ {0}
    BY GeometryAssumption, PositiveSizes DEF ClusterBytes
  <1>2. j \in 0 .. n - 1
    BY <1>1, SectorInCluster DEF ClusterBytes
  <1> HIDE DEF C
  <1>3. r \in Nat /\ m \in 0 .. C - 1 /\ p = r * C + m
    BY <1>1, DivMod
  <1> HIDE DEF r, m
  <1>4. j \in Nat /\ u \in 0 .. B - 1 /\ m = j * B + u
    <2>1. m \in Nat /\ B \in Nat \ {0}
      BY <1>1, <1>3
    <2> HIDE DEF B
    <2>2. m \div B \in Nat /\ m % B \in 0 .. B - 1 /\ m = (m \div B) * B + (m % B)
      BY <2>1, DivMod
    <2> QED BY <2>2
  <1> HIDE DEF j, u
  <1>5. p = (r * n + j) * B + u
    <2>1. r * C = (r * n) * B
      BY <1>1, <1>3, Z3
    <2>2. (r * n + j) * B = (r * n) * B + j * B
      BY <1>1, <1>3, <1>4, Z3
    <2> QED BY <1>1, <1>3, <1>4, <2>1, <2>2
  <1>6. p \div B = r * n + j /\ p % B = u
    <2>1. u \in 0 .. B /\ u < B
      BY <1>1, <1>4
    <2> QED BY <1>2, <1>3, <1>5, <2>1, Positions
  <1>7. p \div B \in Nat /\ p % B \in 0 .. B - 1 /\ p = (p \div B) * B + (p % B)
    BY <1>1, DivMod
  <1> QED BY <1>2, <1>3, <1>6, <1>7 DEF r, m, j, u, C

\* Positions at the end of a cluster and behind it.
LEMMA ClusterEnds ==
  ASSUME NEW r \in Nat, NEW p \in Nat
  PROVE  /\ (r + 1) * ClusterBytes \in Nat \ {0}
         /\ ((r + 1) * ClusterBytes) % ClusterBytes = 0
         /\ ((r + 1) * ClusterBytes) % SectorSize = 0
         /\ p < (r + 1) * ClusterBytes => p \div ClusterBytes <= r
         /\ p <= (r + 1) * ClusterBytes => p \div ClusterBytes <= r + 1
         /\ p \div ClusterBytes <= r => p < (r + 1) * ClusterBytes
  <1> DEFINE n == SectorsPerCluster
             B == SectorSize
             C == ClusterBytes
             e == (r + 1) * C
             q == p \div C
             m == p % C
  <1>1. n \in Nat \ {0} /\ B \in Nat \ {0} /\ C = n * B /\ C \in Nat \ {0}
    BY GeometryAssumption, PositiveSizes DEF ClusterBytes
  <1>2. e = ((r + 1) * n) * B + 0 /\ (r + 1) * n \in Nat /\ 0 \in 0 .. B - 1
    BY <1>1, Z3
  <1>3. e % B = 0
    BY <1>1, <1>2, DivModUnique
  <1> HIDE DEF C
  <1>4. e = (r + 1) * C + 0 /\ 0 \in 0 .. C - 1 /\ r + 1 \in Nat
    BY <1>1
  <1>5. e % C = 0
    BY <1>1, <1>4, DivModUnique
  <1>6. q \in Nat /\ m \in 0 .. C - 1 /\ p = q * C + m
    BY <1>1, DivMod
  <1> HIDE DEF q, m
  <1>7. e \in Nat /\ e = r * C + C /\ r * C \in Nat
    BY <1>1, Z3
  <1>8. ASSUME q >= r + 1 PROVE p >= e
    <2>1. (r + 1) * C <= q * C
      BY <1>1, <1>6, <1>8, MulMonotone
    <2> QED BY <1>1, <1>6, <1>7, <2>1
  <1>9. ASSUME q >= r + 2 PROVE p > e
    <2>1. (r + 2) * C <= q * C /\ (r + 2) * C = (r + 1) * C + C
      BY <1>1, <1>6, <1>9, MulMonotone, Z3
    <2> QED BY <1>1, <1>6, <1>7, <2>1
  <1>10. ASSUME q <= r PROVE p < e
    <2>1. q * C <= r * C
      BY <1>1, <1>6, <1>10, MulMonotone
    <2> QED BY <1>1, <1>6, <1>7, <2>1
  <1> HIDE DEF e
  <1> QED BY <1>1, <1>3, <1>5, <1>6, <1>7, <1>8, <1>9, <1>10 DEF e, q, C

-----------------------------------------------------------------------------
(* Who writes and who seeks. *)

\* The flags say the same of who may write and append.
LEMMA FlagsKept ==
  ASSUME TypeOK, FlagsInv, NEW f, SetCur(f),
         "DIRTY" \in f.flags => "WRITE" \in f.flags,
         "APPEND" \in f.flags => "APPEND" \in Cur.flags
  PROVE  FlagsInv'
  <1>1. call.fd \in Handles /\ \A h \in Handles : file_num'[h] = IF h = call.fd THEN f ELSE file_num[h]
    BY CurType DEF SetCur, TypeOK
  <1> QED BY <1>1 DEF FlagsInv, Cur

\* A step of a call on an open file, seen through its labels: flags keeps what
\* the step may not change.
SameRights(f) ==
  /\ SetCur(f) /\ call'.fd = call.fd
  /\ "WRITE" \in f.flags <=> "WRITE" \in Cur.flags
  /\ "DIRTY" \in f.flags => "WRITE" \in f.flags
  /\ "APPEND" \in f.flags => "APPEND" \in Cur.flags

\* The labels fat_flush, fat_next_sector, fat_next_cluster and
\* fat_flush_fileinfo return to.
LEMMA SectorAccess ==
  ASSUME TypeOK, AccessInv, NEW f, SameRights(f), NEW ok \in BOOLEAN,
         pc' = AfterSector(ok), call'.seeking = call.seeking, call'.flush = call.flush
  PROVE  AccessInv'
  <1>1. FlagsInv' /\ Cur' = f
    BY FlagsKept, CurAfter DEF SameRights, AccessInv
  <1>2. pc' \in {"case", "byte", "done", "fail"} /\ (pc' = "case" <=> call.seeking)
    BY DEF AfterSector
  <1> QED BY <1>1, <1>2 DEF AccessInv, WriterSeeks, SeekFlushing, Linked, SeekLabels, FreeLabels, SameRights

\* From the labels fat_next_cluster returns to.
LEMMA NextAccess ==
  ASSUME TypeOK, AccessInv, NEW f, SameRights(f), NEW c, pc' = AfterNext(c),
         call'.seeking = call.seeking, call'.flush = call.flush, call'.next = call.next,
         call.next = "walk" => call.seeking
  PROVE  AccessInv'
  <1>1. FlagsInv' /\ Cur' = f
    BY FlagsKept, CurAfter DEF SameRights, AccessInv
  <1>2. CASE call.next # "walk" /\ c = Bad
    BY <1>2, SectorAccess DEF AfterNext
  <1>3. CASE call.next # "walk" /\ c # Bad
    <2>1. pc' = "select"
      BY <1>3 DEF AfterNext
    <2> QED BY <1>1, <1>3, <2>1 DEF AccessInv, WriterSeeks, SeekFlushing, Linked, SeekLabels, FreeLabels, SameRights
  <1>4. CASE call.next = "walk"
    <2>1. pc' = "walked"
      BY <1>4 DEF AfterNext
    <2> QED BY <1>1, <1>4, <2>1 DEF AccessInv, WriterSeeks, SeekFlushing, Linked, SeekLabels, FreeLabels, SameRights
  <1> QED BY <1>2, <1>3, <1>4

\* From the labels fat_flush returns to.
LEMMA FlushAccess ==
  ASSUME TypeOK, AccessInv, NEW f, SameRights(f), NEW ok \in BOOLEAN, pc' = AfterFlush(ok),
         call' = call, pc \in {"flush", "data"} \/ (pc = "info" /\ call.info = "flush")
  PROVE  AccessInv'
  <1>1. FlagsInv' /\ Cur' = f
    BY FlagsKept, CurAfter DEF SameRights, AccessInv
  <1>2. CASE call.flush = "sector" /\ ~ok
    BY <1>2, SectorAccess DEF AfterFlush
  <1>3. CASE call.flush = "next" /\ ~ok
    <2>1. pc' = AfterNext(Bad) /\ call.seeking
      BY <1>3 DEF AfterFlush, AccessInv
    <2> QED BY <2>1, NextAccess
  <1>4. CASE (call.flush \in {"sector", "next"} /\ ok) \/ call.flush = "seek"
    <2>1. pc' = IF call.flush = "seek" THEN "seek" ELSE call.flush
      BY <1>4 DEF AfterFlush
    <2>2. pc' \in {"seek", "sector", "next"}
      BY <1>4, <2>1
    <2> QED BY <1>1, <1>4, <2>1, <2>2 DEF AccessInv, WriterSeeks, SeekFlushing, Linked, SeekLabels, FreeLabels, SameRights
  <1>5. CASE call.flush \notin {"seek", "sector", "next"}
    <2>1. pc' \in {"closing", "fail"} /\ ~call.seeking
      BY <1>5 DEF AfterFlush, AccessInv
    <2> QED BY <1>1, <1>5, <2>1 DEF AccessInv, WriterSeeks, SeekFlushing, Linked, SeekLabels, FreeLabels, SameRights
  <1> QED BY <1>2, <1>3, <1>4, <1>5

\* From the labels fat_flush_fileinfo returns to.
LEMMA InfoAccess ==
  ASSUME TypeOK, AccessInv, NEW f, SameRights(f), NEW ok \in BOOLEAN, pc' = AfterInfo(ok),
         call' = call, pc = "info"
  PROVE  AccessInv'
  <1>1. FlagsInv' /\ Cur' = f
    BY FlagsKept, CurAfter DEF SameRights, AccessInv
  <1>2. CASE call.info = "flush"
    <2>1. pc' = AfterFlush(TRUE)
      BY <1>2 DEF AfterInfo
    <2> QED BY <1>2, <2>1, FlushAccess
  <1>3. CASE call.info = "next"
    <2>1. pc' = AfterNext(call.res) /\ (call.next = "walk" => call.seeking)
      BY <1>3 DEF AfterInfo, AccessInv, Linked
    <2> QED BY <2>1, NextAccess
  <1>4. CASE call.info \notin {"flush", "next"}
    <2>1. pc' \in {"done", "fail"} /\ ~call.seeking
      BY <1>4 DEF AfterInfo, AccessInv
    <2> QED BY <1>1, <1>4, <2>1 DEF AccessInv, WriterSeeks, SeekFlushing, Linked, SeekLabels, FreeLabels, SameRights
  <1> QED BY <1>2, <1>3, <1>4

\* What the flags of the open file allow the running call.
LEMMA CurRights ==
  ASSUME TypeOK, AccessInv, UNCHANGED <<file_num, call>>
  PROVE  SameRights(Cur)
  <1>1. SetCur(Cur) /\ call.fd \in Handles
    BY SameCur, CurType
  <1> QED BY <1>1 DEF SameRights, AccessInv, FlagsInv, Cur

\* The steps of fat_flush.
LEMMA FlushesAccess ==
  ASSUME TypeOK, VolumeInv, AccessInv, FlushStep
  PROVE  AccessInv'
  <1>0. Cur \in FileS /\ call.fd \in Handles
    BY CurType
  <1>1. CASE FlushClean \/ FlushNoSpace \/ FlushWriteFails
    <2>1. /\ pc \in {"flush", "data"} /\ UNCHANGED <<file_num, call>>
          /\ \E ok \in BOOLEAN : pc' = AfterFlush(ok)
      BY <1>1 DEF FlushClean, FlushNoSpace, FlushWriteFails
    <2> QED BY <2>1, CurRights, FlushAccess
  <1>2. CASE FlushWrite
    <2> DEFINE f == [Cur EXCEPT !.flags = @ \ {"DIRTY"}]
    <2>1. /\ SetCur(f) /\ pc \in {"flush", "data"}
          /\ \/ pc = "data" /\ pc' = "info" /\ call' = [call EXCEPT !.info = "flush"]
             \/ pc' = AfterFlush(TRUE) /\ call' = call
      BY <1>2 DEF FlushWrite
    <2>2. call'.fd = call.fd /\ f.flags = Cur.flags \ {"DIRTY"} /\ call \in Calls
      BY <1>0, <2>1 DEF FileS, Calls, TypeOK
    <2> HIDE DEF f
    <2>3. SameRights(f)
      BY <2>1, <2>2 DEF SameRights
    <2>4. CASE pc = "data" /\ pc' = "info" /\ call' = [call EXCEPT !.info = "flush"]
      <3>1. FlagsInv' /\ Cur' = f
        BY <2>3, FlagsKept, CurAfter DEF SameRights, AccessInv
      <3>2. /\ call'.info = "flush" /\ call'.flush = call.flush /\ call'.next = call.next
            /\ call'.seeking = call.seeking
        BY <2>2, <2>4 DEF Calls
      <3> QED BY <2>3, <2>4, <3>1, <3>2 DEF AccessInv, WriterSeeks, SeekFlushing, Linked,
                                            SeekLabels, FreeLabels, SameRights
    <2> QED BY <2>1, <2>3, <2>4, FlushAccess
  <1>3. ASSUME NEW k \in FatIndex, FlushAllocate(k) PROVE AccessInv'
    <2> DEFINE f == [Cur EXCEPT !.first = k, !.cluster = k, !.sector = SectorOf(k),
                                !.sectors_left = SectorsPerCluster - 1,
                                !.flags = @ \cup {"FS_DIRTY"}]
    <2>1. k # 0
      BY <1>3, FreeIsCluster, Markers DEF FlushAllocate, VolumeInv
    <2>2. /\ pc = "flush" /\ pc' = "data" /\ call' = call /\ SetCur(f) /\ "DIRTY" \in Cur.flags
      BY <1>3, <2>1 DEF FlushAllocate
    <2>3. f.flags = Cur.flags \cup {"FS_DIRTY"}
      BY <1>0 DEF FileS
    <2> HIDE DEF f
    <2>4. SameRights(f)
      BY <2>2, <2>3, <1>0 DEF SameRights, AccessInv, FlagsInv, Cur
    <2>5. FlagsInv' /\ Cur' = f
      BY <2>4, FlagsKept, CurAfter DEF SameRights, AccessInv
    <2> QED BY <2>2, <2>3, <2>4, <2>5 DEF AccessInv, WriterSeeks, SeekFlushing, Linked,
                                          SeekLabels, FreeLabels, SameRights
  <1> QED BY <1>1, <1>2, <1>3 DEF FlushStep

\* The steps of fat_flush_fileinfo.
LEMMA InfosAccess ==
  ASSUME SafeUse, TypeOK, AccessInv, InfoStep
  PROVE  AccessInv'
  <1>0. Cur \in FileS /\ call.fd \in Handles
    BY CurType
  <1>1. CASE InfoSkip \/ InfoUnreadable
    <2>1. pc = "info" /\ UNCHANGED <<file_num, call>> /\ \E ok \in BOOLEAN : pc' = AfterInfo(ok)
      BY <1>1 DEF InfoSkip, InfoUnreadable
    <2> QED BY <2>1, CurRights, InfoAccess
  <1>2. ASSUME NEW s \in Slots, InfoWrite(s) PROVE AccessInv'
    <2>1. PICK f : /\ SetCur(f)
                   /\ f \in {Saved(Cur, s), [Cur EXCEPT !.entry = s, !.buffer = MetaBlock]}
      BY <1>2 DEF InfoWrite
    <2>2. f.flags \in {Cur.flags, Cur.flags \ {"FS_DIRTY"}}
      BY <1>0, <2>1 DEF FileS, Saved
    <2>3. call' = call /\ pc = "info" /\ \E ok \in BOOLEAN : pc' = AfterInfo(ok)
      BY <1>2 DEF InfoWrite
    <2>4. SameRights(f)
      BY <2>1, <2>2, <2>3, <1>0 DEF SameRights, AccessInv, FlagsInv, Cur
    <2> QED BY <2>3, <2>4, InfoAccess
  <1>3. CASE InfoLost
    BY <1>3 DEF InfoLost, AccessInv, FlagsInv, WriterSeeks, SeekFlushing, Linked, SeekLabels,
                FreeLabels, Cur
  <1> QED BY <1>1, <1>2, <1>3, DirectoryWorks DEF InfoStep

\* The steps of fat_next_sector and fat_next_cluster.
LEMMA NextsAccess ==
  ASSUME TypeOK, AccessInv, NextStep
  PROVE  AccessInv'
  <1>0. Cur \in FileS /\ call.fd \in Handles /\ call \in Calls
    BY CurType DEF TypeOK
  <1>1. CASE SectorHop \/ SelectCluster
    <2>1. /\ pc \in {"sector", "select"} /\ call' = call
          /\ \E ok \in BOOLEAN : pc' = AfterSector(ok)
      BY <1>1 DEF SectorHop, SelectCluster
    <2>2. PICK f : SetCur(f) /\ f.flags = Cur.flags
      <3>1. CASE SectorHop
        <4> DEFINE s == (Cur.sector + 1) % Word
                   g == [Cur EXCEPT !.sectors_left = @ - 1, !.file_sector = @ + 1,
                                    !.cursor = 0, !.sector = s]
        <4>1. SetCur([g EXCEPT !.buffer = disk[s]]) \/ SetCur(g)
          BY <3>1 DEF SectorHop
        <4>2. g.flags = Cur.flags /\ [g EXCEPT !.buffer = disk[s]].flags = Cur.flags
          BY <1>0 DEF FileS
        <4> QED BY <4>1, <4>2
      <3>2. CASE SelectCluster
        <4> DEFINE s == SectorOf(call.res)
                   g == [Cur EXCEPT !.file_sector = @ + 1, !.sector = s,
                                    !.sectors_left = SectorsPerCluster - 1,
                                    !.cluster = call.res, !.cursor = 0]
        <4>1. SetCur([g EXCEPT !.buffer = disk[s]]) \/ SetCur(g)
          BY <3>2 DEF SelectCluster
        <4>2. g.flags = Cur.flags /\ [g EXCEPT !.buffer = disk[s]].flags = Cur.flags
          BY <1>0 DEF FileS
        <4> QED BY <4>1, <4>2
      <3> QED BY <1>1, <3>1, <3>2
    <2>3. SameRights(f)
      BY <1>0, <2>1, <2>2 DEF SameRights, AccessInv, FlagsInv, Cur
    <2> QED BY <2>1, <2>3, SectorAccess
  <1>2. CASE SectorEnd
    <2>1. pc' = "next" /\ call' = [call EXCEPT !.next = "sector", !.res = Bad] /\ file_num' = file_num
      BY <1>2 DEF SectorEnd
    <2>2. /\ call'.next = "sector" /\ call'.flush = call.flush /\ call'.seeking = call.seeking
          /\ call'.fd = call.fd
      BY <1>0, <2>1 DEF Calls
    <2>3. FlagsInv' /\ Cur' = Cur
      BY <2>1, <2>2 DEF FlagsInv, AccessInv, Cur
    <2>4. pc = "sector"
      BY <1>2 DEF SectorEnd
    <2> QED BY <2>1, <2>2, <2>3, <2>4 DEF AccessInv, WriterSeeks, SeekFlushing, Linked,
                                          SeekLabels, FreeLabels
  <1>3. CASE NextLink \/ NextEnd \/ NextUnreadable \/ NextChainFails
    <2>1. /\ pc \in {"next", "chain"} /\ \E c : NextReturn(c)
          /\ file_num' = file_num \/ SetCur([Cur EXCEPT !.buffer = MetaBlock])
      BY <1>3 DEF NextLink, NextEnd, NextUnreadable, NextChainFails
    <2>2. PICK c : pc' = AfterNext(c) /\ call' = [call EXCEPT !.res = c]
      BY <2>1 DEF NextReturn
    <2>3. /\ call'.fd = call.fd /\ call'.seeking = call.seeking /\ call'.flush = call.flush
          /\ call'.next = call.next
      BY <1>0, <2>2 DEF Calls
    <2>4. PICK f : SetCur(f) /\ f.flags = Cur.flags
      BY <1>0, <2>1, SameCur DEF FileS
    <2>5. SameRights(f)
      BY <1>0, <2>3, <2>4 DEF SameRights, AccessInv, FlagsInv, Cur
    <2>6. call.next = "walk" => call.seeking
      BY <2>1 DEF AccessInv
    <2> QED BY <2>2, <2>3, <2>5, <2>6, NextAccess
  <1>4. CASE NextChain
    <2>1. /\ pc = "chain" /\ pc' = "info" /\ call' = [call EXCEPT !.info = "next"]
          /\ file_num' = file_num
      BY <1>4 DEF NextChain
    <2>2. /\ call'.next = call.next /\ call'.flush = call.flush /\ call'.seeking = call.seeking
          /\ call'.fd = call.fd /\ call'.info = "next"
      BY <1>0, <2>1 DEF Calls
    <2>3. FlagsInv' /\ Cur' = Cur
      BY <2>1, <2>2 DEF FlagsInv, AccessInv, Cur
    <2> QED BY <2>1, <2>2, <2>3 DEF AccessInv, WriterSeeks, SeekFlushing, Linked,
                                    SeekLabels, FreeLabels
  <1>5. ASSUME NEW k \in FatIndex, NextAllocate(k) PROVE AccessInv'
    <2> DEFINE f == [Cur EXCEPT !.buffer = MetaBlock]
    <2>1. /\ pc = "next" /\ SetCur(f) /\ "WRITE" \in Cur.flags
          /\ \/ NextReturn(Bad)
             \/ pc' = "chain" /\ call' = [call EXCEPT !.res = k]
      BY <1>5 DEF NextAllocate
    <2>2. \E c : call' = [call EXCEPT !.res = c]
      BY <2>1 DEF NextReturn
    <2>3. /\ call'.next = call.next /\ call'.flush = call.flush /\ call'.seeking = call.seeking
          /\ call'.fd = call.fd
      BY <1>0, <2>2 DEF Calls
    <2>4. f.flags = Cur.flags
      BY <1>0 DEF FileS
    <2> HIDE DEF f
    <2>5. SameRights(f)
      BY <1>0, <2>1, <2>3, <2>4 DEF SameRights, AccessInv, FlagsInv, Cur
    <2>6. CASE pc' = "chain"
      <3>1. FlagsInv' /\ Cur' = f
        BY <2>5, FlagsKept, CurAfter DEF SameRights, AccessInv
      <3> QED BY <2>1, <2>3, <2>4, <2>6, <3>1 DEF AccessInv, WriterSeeks, SeekFlushing, Linked,
                                               SeekLabels, FreeLabels
    <2>7. CASE NextReturn(Bad)
      <3>1. pc' = AfterNext(Bad) /\ (call.next = "walk" => call.seeking)
        BY <2>1, <2>7 DEF NextReturn, AccessInv
      <3> QED BY <2>3, <2>5, <3>1, NextAccess
    <2> QED BY <2>1, <2>6, <2>7
  <1> QED BY <1>1, <1>2, <1>3, <1>4, <1>5 DEF NextStep

\* A step to a label that claims nothing, or to one of a seek.
LEMMA MovesAccess ==
  ASSUME TypeOK, AccessInv, NEW f, SameRights(f),
         ~call'.seeking, pc' \in {"byte", "done", "fail", "flush", "info", "delete", "free", "freed"},
         pc' = "flush" => call'.flush \in {"sector", "close"},
         pc' = "info" => call'.info = "close"
  PROVE  AccessInv'
  <1>1. FlagsInv' /\ Cur' = f
    BY FlagsKept, CurAfter DEF SameRights, AccessInv
  <1> QED BY <1>1 DEF AccessInv, WriterSeeks, SeekFlushing, Linked, SeekLabels, FreeLabels

\* A step from one label of fat_lseek to another.
LEMMA SeekGoesOnAccess ==
  ASSUME TypeOK, AccessInv, NEW f, SameRights(f), call.seeking, call'.seeking,
         pc' \in {"case", "walk", "flush"}, call'.flush \in {"sector", "next", call.flush},
         pc' = "flush" => call'.flush \in {"sector", "next"},
         pc' = "flush" /\ call'.flush = "next" => call'.next = "walk"
  PROVE  AccessInv'
  <1>1. FlagsInv' /\ Cur' = f
    BY FlagsKept, CurAfter DEF SameRights, AccessInv
  <1> QED BY <1>1 DEF AccessInv, WriterSeeks, SeekFlushing, Linked, SeekLabels, FreeLabels, SameRights

\* The steps of fat_lseek.
LEMMA SeeksAccess ==
  ASSUME TypeOK, AccessInv, SeekStep
  PROVE  AccessInv'
  <1>0. Cur \in FileS /\ call.fd \in Handles /\ call \in Calls
    BY CurType DEF TypeOK
  <1>1. ASSUME NEW ok, EndSeek(ok), NEW f, SetCur(f), f.flags = Cur.flags PROVE AccessInv'
    <2>1. pc' \in {"byte", "done", "fail"} /\ ~call'.seeking /\ call'.fd = call.fd
      BY <1>0, <1>1 DEF EndSeek, AfterSeek, Calls
    <2>2. SameRights(f)
      BY <1>0, <1>1, <2>1 DEF SameRights, AccessInv, FlagsInv, Cur
    <2> QED BY <2>1, <2>2, MovesAccess
  <1>2. ASSUME NEW n, NEW p, NEW l, NEW s,
               SeekLoad([Cur EXCEPT !.file_sector = n, !.cursor = p, !.sectors_left = l], s)
        PROVE  AccessInv'
    <2> DEFINE g == [Cur EXCEPT !.file_sector = n, !.cursor = p, !.sectors_left = l]
               a == [g EXCEPT !.sector = s, !.buffer = disk[s]]
               b == [g EXCEPT !.sector = s]
    <2>1. (SetCur(a) \/ SetCur(b)) /\ \E ok : EndSeek(ok)
      BY <1>2 DEF SeekLoad
    <2>2. a.flags = Cur.flags /\ b.flags = Cur.flags
      BY <1>0 DEF FileS
    <2> HIDE DEF a, b
    <2> QED BY <1>1, <2>1, <2>2
  <1>3. CASE SeekOutside
    <2>1. EndSeek(FALSE) /\ SetCur(Cur)
      BY <1>3, SameCur DEF SeekOutside
    <2> QED BY <1>1, <2>1
  <1>4. CASE SeekSector
    <2> DEFINE f == [Cur EXCEPT !.cursor = call.new % SectorSize]
    <2>1. EndSeek(TRUE) /\ SetCur(f)
      BY <1>4 DEF SeekSector
    <2>2. f.flags = Cur.flags
      BY <1>0 DEF FileS
    <2> HIDE DEF f
    <2> QED BY <1>1, <2>1, <2>2
  <1>5. CASE SeekCluster \/ WalkEnd
    BY <1>2, <1>5 DEF SeekCluster, WalkEnd
  <1>6. CASE SeekFlushed \/ WalkNext
    <2>1. /\ pc \in SeekLabels /\ file_num' = file_num
          /\ \/ pc' = "flush" /\ call' = [call EXCEPT !.flush = "sector"]
             \/ pc' = "case" /\ call' = call
             \/ pc' = "flush" /\ call' = [call EXCEPT !.flush = "next", !.next = "walk", !.res = Bad]
      BY <1>6 DEF SeekFlushed, WalkNext, SeekLabels
    <2>2. /\ call'.fd = call.fd /\ call'.seeking = call.seeking
          /\ call'.flush \in {"sector", "next", call.flush}
          /\ pc' = "flush" => call'.flush \in {"sector", "next"}
          /\ pc' = "flush" /\ call'.flush = "next" => call'.next = "walk"
      BY <1>0, <2>1 DEF Calls
    <2>3. SameRights(Cur) /\ call.seeking
      BY <1>0, <2>1, <2>2, SameCur DEF SameRights, AccessInv, FlagsInv, Cur
    <2> QED BY <2>1, <2>2, <2>3, SeekGoesOnAccess
  <1>7. CASE SeekRewind \/ WalkMove
    <2>1. pc' = "walk" /\ pc \in SeekLabels /\ \E c, i : call' = [call EXCEPT !.i = i]
      BY <1>7 DEF SeekRewind, WalkMove, SeekLabels
    <2>2. PICK c : SetCur([Cur EXCEPT !.cluster = c])
      BY <1>7 DEF SeekRewind, WalkMove
    <2> DEFINE f == [Cur EXCEPT !.cluster = c]
    <2>3. f.flags = Cur.flags /\ SetCur(f)
      BY <1>0, <2>2 DEF FileS
    <2>4. call'.fd = call.fd /\ call'.seeking = call.seeking /\ call'.flush = call.flush
      BY <1>0, <2>1 DEF Calls
    <2> HIDE DEF f
    <2>5. SameRights(f) /\ call.seeking
      BY <1>0, <2>1, <2>3, <2>4 DEF SameRights, AccessInv, FlagsInv, Cur
    <2> QED BY <2>1, <2>4, <2>5, SeekGoesOnAccess
  <1> QED BY <1>3, <1>4, <1>5, <1>6, <1>7 DEF SeekStep

\* The loops of fat_write and fat_read.
LEMMA BytesAccess ==
  ASSUME TypeOK, VolumeInv, AccessInv, ByteStep
  PROVE  AccessInv'
  <1>0. Cur \in FileS /\ call.fd \in Handles /\ call \in Calls
    BY CurType DEF TypeOK
  <1>1. pc = "byte" /\ ~call.seeking
    BY DEF ByteStep, WriteByte, ReadByte, BytesDone, AccessInv
  <1>2. CASE NeedSector
    <2>1. /\ pc' = "flush" /\ call'.flush = "sector" /\ call'.seeking = call.seeking
          /\ call'.fd = call.fd /\ file_num' = file_num
      BY <1>0, <1>2 DEF NeedSector, Calls
    <2>2. SameRights(Cur)
      BY <1>0, <2>1, SameCur DEF SameRights, AccessInv, FlagsInv, Cur
    <2> QED BY <1>1, <2>1, <2>2, MovesAccess
  <1>3. CASE WriteByte /\ ~NeedSector
    <2> DEFINE grows == Pos(Cur) = Cur.size
               f == [Cur EXCEPT
                   !.buffer = [@ EXCEPT ![Cur.cursor] = Head(call.todo)],
                   !.cursor = @ + 1,
                   !.size = IF grows THEN @ + 1 ELSE @,
                   !.flags = @ \cup {"DIRTY"} \cup
                             (IF grows THEN {"FS_DIRTY"} ELSE {})]
    <2>1. /\ SetCur(f) /\ pc' = "byte" /\ call' = [call EXCEPT !.todo = Tail(@)]
          /\ call.op = "write"
      BY <1>1, <1>3 DEF WriteByte
    <2>2. call'.seeking = call.seeking /\ call'.fd = call.fd
      BY <1>0, <2>1 DEF Calls
    <2>3. f.flags = Cur.flags \cup {"DIRTY"} \cup (IF grows THEN {"FS_DIRTY"} ELSE {})
      BY <1>0 DEF FileS
    <2>4. "WRITE" \in Cur.flags
      BY <1>1, <2>1 DEF VolumeInv, CallInv
    <2> HIDE DEF f, grows
    <2>5. SameRights(f)
      BY <1>0, <2>1, <2>2, <2>3, <2>4 DEF SameRights
    <2> QED BY <1>1, <2>1, <2>2, <2>5, MovesAccess
  <1>4. CASE ReadByte /\ ~NeedSector
    <2> DEFINE f == [Cur EXCEPT !.cursor = @ + 1]
    <2>1. /\ SetCur(f) /\ pc' = "byte"
          /\ call' = [call EXCEPT !.n = @ - 1, !.got = Append(@, Cur.buffer[Cur.cursor])]
      BY <1>1, <1>4 DEF ReadByte
    <2>2. call'.seeking = call.seeking /\ call'.fd = call.fd /\ f.flags = Cur.flags
      BY <1>0, <2>1 DEF Calls, FileS
    <2> HIDE DEF f
    <2>5. SameRights(f)
      BY <1>0, <2>1, <2>2 DEF SameRights, AccessInv, FlagsInv, Cur
    <2> QED BY <1>1, <2>1, <2>2, <2>5, MovesAccess
  <1>5. CASE BytesDone
    <2>1. pc' = "done" /\ UNCHANGED <<file_num, call>>
      BY <1>5 DEF BytesDone
    <2> QED BY <1>1, <2>1, CurRights, MovesAccess
  <1> QED BY <1>2, <1>3, <1>4, <1>5 DEF ByteStep

\* The steps of fat_free_clusters, fat_delete and fat_close.
LEMMA EndsAccess ==
  ASSUME TypeOK, VolumeInv, AccessInv, FreeStep \/ CloseInfo
  PROVE  AccessInv'
  <1>0. Cur \in FileS /\ call.fd \in Handles /\ call \in Calls
    BY CurType DEF TypeOK
  <1>1. file_num' = file_num /\ pc \in {"free", "freed", "delete", "closing"}
    BY DEF FreeStep, FreeEntry, FreeUnreadable, FreeLast, DeleteEntry, CloseInfo
  <1>2. /\ pc' \in {"free", "freed", "done", "info"} /\ call'.fd = call.fd
        /\ call'.seeking = call.seeking /\ (pc' = "info" => call'.info = "close")
    <2>1. CASE FreeEntry
      BY <1>0, <2>1 DEF FreeEntry, Calls
    <2>2. CASE FreeUnreadable \/ FreeLast \/ DeleteEntry \/ CloseInfo
      BY <1>0, <2>2 DEF FreeUnreadable, FreeLast, DeleteEntry, CloseInfo, Calls
    <2> QED BY <2>1, <2>2 DEF FreeStep
  <1>3. ~call.seeking
    BY <1>1 DEF AccessInv, FreeLabels
  <1>4. SameRights(Cur)
    BY <1>0, <1>1, <1>2, SameCur DEF SameRights, AccessInv, FlagsInv, Cur
  <1> QED BY <1>2, <1>3, <1>4, MovesAccess

\* Between calls only the flags matter.
LEMMA IdleAccess ==
  ASSUME FlagsInv', pc' = "idle", ~call'.seeking
  PROVE  AccessInv'
  BY DEF AccessInv, WriterSeeks, SeekFlushing, Linked, SeekLabels, FreeLabels

\* A call returns.
LEMMA ReturnAccess ==
  ASSUME TypeOK, AccessInv, Return
  PROVE  AccessInv'
  <1>0. Cur \in FileS /\ call.fd \in Handles
    BY CurType
  <1>1. pc' = "idle" /\ ~call'.seeking
    BY DEF Return, NoCall
  <1>2. PICK f : /\ SetCur(f)
                 /\ f \in {Cur, Closed, Truncated(Cur), [Cur EXCEPT !.flags = @ \cup {"FS_DIRTY"}]}
    BY SameCur DEF Return, Finished
  <1>3. f.flags \in {{}, Cur.flags, Cur.flags \cup {"FS_DIRTY"}}
    <2>1. Truncated(Cur).flags = Cur.flags \cup {"FS_DIRTY"}
      BY <1>0 DEF Truncated, FileS
    <2>2. [Cur EXCEPT !.flags = @ \cup {"FS_DIRTY"}].flags = Cur.flags \cup {"FS_DIRTY"}
      BY <1>0 DEF FileS
    <2>3. Closed.flags = {}
      BY DEF Closed
    <2> QED BY <1>2, <2>1, <2>2, <2>3
  <1>4. "DIRTY" \in f.flags => "WRITE" \in f.flags
    BY <1>0, <1>3 DEF AccessInv, FlagsInv, Cur
  <1>5. FlagsInv'
    BY <1>2, <1>3, <1>4, FlagsKept DEF AccessInv
  <1> QED BY <1>1, <1>5, IdleAccess

\* A handle is opened.
LEMMA OpenedFlags ==
  ASSUME TypeOK, FlagsInv, NEW h \in Handles, NEW f, file_num' = [file_num EXCEPT ![h] = f],
         "DIRTY" \notin f.flags, "APPEND" \in f.flags => Faulty = {}
  PROVE  FlagsInv'
  BY DEF TypeOK, FlagsInv

\* Nothing is opened dirty, and nothing to append to where operations fail.
LEMMA AccessFlagsSafe ==
  ASSUME SafeUse, NEW m \in Modes
  PROVE  "DIRTY" \notin AccessFlags(m) /\ ("APPEND" \in AccessFlags(m) => Faulty = {})
  BY DEF SafeUse, AccessFlags

\* A file whose first sector could not be read.
UnreadFile(s, m) == [OldFile(s, m) EXCEPT !.buffer = MetaBlock]

\* fat_open.
LEMMA OpensAccess ==
  ASSUME SafeUse, TypeOK, AccessInv, NEW n \in Names, NEW m \in Modes,
         \/ OpenFound(n, m) \/ OpenUnread(n, m)
         \/ \E ro \in RoModes : OpenMissing(n, m, ro)
  PROVE  AccessInv'
  <1>1. pc = "idle" /\ FlagsInv /\ ~call.seeking
    BY DEF AccessInv, OpenFound, OpenUnread, OpenMissing, Idle, Ready
  <1>2. pc' = "idle" /\ call' = call
    BY <1>1 DEF OpenFound, OpenUnread, OpenIn, OpenMissing, CreateIn, Refuse, SafeUse
  <1>3. \/ file_num' = file_num
        \/ \E h \in Handles, ro \in RoModes : file_num' = [file_num EXCEPT ![h] = NewFile(n, m, ro)]
        \/ \E h \in Handles, s \in Slots : \E f \in {OldFile(s, m), UnreadFile(s, m)} :
             file_num' = [file_num EXCEPT ![h] = f]
    BY DEF OpenFound, OpenUnread, OpenIn, OpenMissing, CreateIn, Refuse, UnreadFile
  <1>4. /\ \A ro \in RoModes : NewFile(n, m, ro).flags = AccessFlags(m)
        /\ \A s \in Slots : /\ OldFile(s, m).flags = AccessFlags(m)
                            /\ UnreadFile(s, m).flags = AccessFlags(m)
    BY DEF NewFile, OldFile, UnreadFile, Closed
  <1>5. FlagsInv'
    <2>1. CASE file_num' = file_num
      BY <1>1, <2>1 DEF FlagsInv
    <2>2. ASSUME NEW h \in Handles, NEW ro \in RoModes,
                 file_num' = [file_num EXCEPT ![h] = NewFile(n, m, ro)]
          PROVE  FlagsInv'
      <3> DEFINE f == NewFile(n, m, ro)
      <3>1. f.flags = AccessFlags(m) /\ file_num' = [file_num EXCEPT ![h] = f]
        BY <1>4, <2>2
      <3> HIDE DEF f
      <3> QED BY <1>1, <3>1, AccessFlagsSafe, OpenedFlags
    <2>3. ASSUME NEW h \in Handles, NEW s \in Slots,
                 NEW f \in {OldFile(s, m), UnreadFile(s, m)},
                 file_num' = [file_num EXCEPT ![h] = f]
          PROVE  FlagsInv'
      <3>1. f.flags = AccessFlags(m)
        BY <1>4
      <3> QED BY <1>1, <2>3, <3>1, AccessFlagsSafe, OpenedFlags
    <2> QED BY <1>3, <2>1, <2>2, <2>3
  <1> QED BY <1>1, <1>2, <1>5, IdleAccess

\* A call begins with the handle's own flags.
LEMMA StartAccess ==
  ASSUME FlagsInv, file_num' = file_num, NEW c, call' = c, pc' \in {"flush", "byte", "delete"},
         c.flush # "next", c.next # "walk", pc' = "flush" => c.flush \in {"seek", "close"},
         c.seeking <=> c.flush = "seek", c.seeking => pc' = "flush",
         c.seeking => ("WRITE" \in file_num[c.fd].flags => Faulty = {})
  PROVE  AccessInv'
  BY DEF AccessInv, FlagsInv, WriterSeeks, SeekFlushing, Linked, SeekLabels, FreeLabels, Cur

\* The beginnings of the calls on a handle.
LEMMA CallsAccess ==
  ASSUME SafeUse, TypeOK, AccessInv, NEW h \in Handles,
         \/ Close(h) \/ BadHandle(h)
         \/ \E bs \in Payloads : Write(h, bs)
         \/ \E n \in 1 .. MaxCount : Read(h, n)
         \/ \E w \in {"SET", "CUR", "END"}, p \in -MaxSize .. MaxSize : Lseek(h, p, w)
  PROVE  AccessInv'
  <1>1. FlagsInv /\ pc = "idle" /\ file_num' = file_num /\ ~call.seeking
    BY DEF AccessInv, Close, BadHandle, Write, Read, Lseek, Idle, Ready, Start, Refuse
  <1>2. CASE BadHandle(h)
    <2>1. pc' = "idle" /\ call' = call
      BY <1>1, <1>2 DEF BadHandle, Refuse
    <2>2. FlagsInv'
      BY <1>1 DEF FlagsInv
    <2> QED BY <1>1, <2>1, <2>2, IdleAccess
  <1>3. CASE Close(h)
    <2> DEFINE c == [NoCall EXCEPT !.op = "close", !.fd = h, !.flush = "close"]
    <2>1. call' = c /\ pc' = "flush"
      BY <1>3 DEF Close, Start
    <2>2. c.flush = "close" /\ c.next = "none" /\ c.seeking = FALSE
      BY DEF NoCall
    <2> HIDE DEF c
    <2> QED BY <1>1, <2>1, <2>2, StartAccess
  <1>4. ASSUME NEW n \in 1 .. MaxCount, Read(h, n) PROVE AccessInv'
    <2> DEFINE c == [NoCall EXCEPT !.op = "read", !.fd = h, !.n = n]
    <2>1. call' = c /\ pc' = "byte"
      BY <1>4 DEF Read, Start
    <2>2. c.flush = "none" /\ c.next = "none" /\ c.seeking = FALSE
      BY DEF NoCall
    <2> HIDE DEF c
    <2> QED BY <1>1, <2>1, <2>2, StartAccess
  <1>5. ASSUME NEW bs \in Payloads, Write(h, bs) PROVE AccessInv'
    <2> DEFINE f == file_num[h]
               c == [NoCall EXCEPT !.op = "write", !.fd = h, !.todo = bs]
               d == [c EXCEPT !.seeking = TRUE, !.flush = "seek", !.old = Pos(f), !.new = f.size]
    <2>1. \/ call' = d /\ pc' = "flush" /\ "APPEND" \in f.flags
          \/ call' = c /\ pc' = "byte"
      BY <1>5 DEF Write, Start
    <2>2. /\ c.flush = "none" /\ c.next = "none" /\ c.seeking = FALSE
          /\ d.flush = "seek" /\ d.next = "none" /\ d.seeking = TRUE /\ d.fd = h
      BY DEF NoCall
    <2>3. "APPEND" \in f.flags => Faulty = {}
      BY <1>1 DEF FlagsInv
    <2> HIDE DEF c, d
    <2>4. CASE call' = c /\ pc' = "byte"
      BY <1>1, <2>2, <2>4, StartAccess
    <2>5. CASE call' = d /\ pc' = "flush" /\ "APPEND" \in f.flags
      BY <1>1, <2>2, <2>3, <2>5, StartAccess
    <2> QED BY <2>1, <2>4, <2>5
  <1>6. ASSUME NEW w \in {"SET", "CUR", "END"}, NEW p \in -MaxSize .. MaxSize, Lseek(h, p, w)
        PROVE  AccessInv'
    <2> DEFINE f == file_num[h]
               new == (SeekBase(f, w) + p) % Word
               c == [NoCall EXCEPT !.op = "lseek", !.fd = h, !.seeking = TRUE,
                                   !.flush = "seek", !.old = Pos(f), !.new = new]
    <2>1. call' = c /\ pc' = "flush" /\ ("seek" \in Usage \/ "WRITE" \notin f.flags)
      BY <1>6 DEF Lseek, Start, Has
    <2>2. c.flush = "seek" /\ c.next = "none" /\ c.seeking = TRUE /\ c.fd = h
      BY DEF NoCall
    <2>3. "WRITE" \in f.flags => Faulty = {}
      BY <2>1 DEF SafeUse
    <2> HIDE DEF c
    <2> QED BY <1>1, <2>1, <2>2, <2>3, StartAccess
  <1> QED BY <1>2, <1>3, <1>4, <1>5, <1>6

\* The beginnings of the calls on a name.
LEMMA NamesAccess ==
  ASSUME TypeOK, AccessInv, NEW n \in Names, OpenNoHandle(n) \/ Unlink(n) \/ UnlinkRefused(n)
  PROVE  AccessInv'
  <1>1. FlagsInv /\ pc = "idle" /\ file_num' = file_num /\ ~call.seeking
    BY DEF AccessInv, OpenNoHandle, Unlink, UnlinkRefused, Idle, Ready, Start, Refuse
  <1>2. CASE OpenNoHandle(n) \/ UnlinkRefused(n)
    <2>1. pc' = "idle" /\ call' = call
      BY <1>1, <1>2 DEF OpenNoHandle, UnlinkRefused, Refuse
    <2>2. FlagsInv'
      BY <1>1 DEF FlagsInv
    <2> QED BY <1>1, <2>1, <2>2, IdleAccess
  <1>3. CASE Unlink(n)
    <2>1. PICK s \in Slots :
            call' = [NoCall EXCEPT !.op = "unlink", !.slot = s, !.res = dir[s].first] /\ pc' = "delete"
      BY <1>3 DEF Unlink, Start
    <2> DEFINE c == [NoCall EXCEPT !.op = "unlink", !.slot = s, !.res = dir[s].first]
    <2>2. c.flush = "none" /\ c.next = "none" /\ c.seeking = FALSE /\ call' = c
      BY <2>1 DEF NoCall
    <2> HIDE DEF c
    <2> QED BY <1>1, <2>1, <2>2, StartAccess
  <1> QED BY <1>2, <1>3

\* At first nothing is open.
LEMMA InitAccess == ASSUME Init PROVE AccessInv
  <1>1. /\ \A h \in Handles : file_num[h].flags = {}
        /\ call.seeking = FALSE /\ pc = "idle"
    BY DEF Init, Closed, NoCall
  <1> QED BY <1>1 DEF AccessInv, FlagsInv, WriterSeeks, SeekFlushing, Linked, SeekLabels, FreeLabels, Cur

\* After a power loss nothing is open.
LEMMA CrashAccess == ASSUME Crash PROVE AccessInv'
  <1>1. /\ \A h \in Handles : file_num'[h].flags = {}
        /\ call'.seeking = FALSE /\ pc' = "idle"
    BY DEF Crash, Closed, NoCall
  <1> QED BY <1>1, IdleAccess DEF FlagsInv

\* Every step keeps who may write and who seeks.
LEMMA NextKeepsAccess ==
  ASSUME SafeUse, TypeOK, VolumeInv, AccessInv, [Next]_vars
  PROVE  AccessInv'
  <1>1. CASE Step
    BY <1>1, FlushesAccess, InfosAccess, NextsAccess, SeeksAccess, BytesAccess, EndsAccess,
       ReturnAccess DEF Step
  <1>2. CASE Begin
    BY <1>2, OpensAccess, CallsAccess, NamesAccess, DirectoryWorks DEF Begin
  <1>3. CASE Crash
    BY <1>3, CrashAccess
  <1>4. CASE UNCHANGED vars
    BY <1>4 DEF vars, AccessInv, FlagsInv, WriterSeeks, SeekFlushing, Linked, Cur
  <1> QED BY <1>1, <1>2, <1>3, <1>4 DEF Next

-----------------------------------------------------------------------------
(* The chains and their ranks. *)

\* Clusters that are in a chain stay where they are.
Extends(rank, next) ==
  \A c \in Clusters : rank[c] >= 0 => owner'[c] = owner[c] /\ next[c] = rank[c]

\* A step that leaves the FAT alone leaves the chains alone.
LEMMA ChainsSame ==
  ASSUME NEW rank \in Ranks, Chained(rank), UNCHANGED <<fat, owner>>
  PROVE  Chained(rank)' /\ Extends(rank, rank)
  BY DEF Chained, Extends

\* What belongs to a chain has an owner, and a free cluster is in no chain.
LEMMA FreeUnranked ==
  ASSUME FatInv, NEW rank \in Ranks, Chained(rank), NEW c \in Clusters, owner[c] = 0
  PROVE  rank[c] = -1
  <1>1. rank[c] \in Int /\ rank[c] >= -1
    BY DEF Chained, Ranks
  <1>2. ~(rank[c] >= 0)
    BY Markers DEF Chained
  <1> QED BY <1>1, <1>2

\* fat_flush starts a chain.
LEMMA NewChain ==
  ASSUME TypeOK, FatInv, NEW rank \in Ranks, Chained(rank), NEW k \in Clusters, fat[k] = 0,
         Claim(k, k)
  PROVE  LET next == [rank EXCEPT ![k] = 0]
         IN next \in Ranks /\ Chained(next)' /\ Extends(rank, next) /\ next[k] = 0
  <1> DEFINE next == [rank EXCEPT ![k] = 0]
  <1>1. /\ fat' = [fat EXCEPT ![k] = EndMarker] /\ owner' = [owner EXCEPT ![k] = k]
        /\ fat \in [FatIndex -> 0 .. EndMarker] /\ owner \in [FatIndex -> FatIndex]
    BY DEF Claim, TypeOK
  <1>2. owner[k] = 0 /\ rank[k] = -1
    BY FreeUnranked DEF FatInv
  <1>3. \A c \in Clusters : /\ fat'[c] = IF c = k THEN EndMarker ELSE fat[c]
                            /\ owner'[c] = IF c = k THEN k ELSE owner[c]
    BY <1>1, Markers
  <1>4. /\ next \in Ranks
        /\ \A c \in Clusters : next[c] = IF c = k THEN 0 ELSE rank[c]
        /\ \A c \in Clusters : rank[c] \in Int
    BY DEF Ranks
  <1> HIDE DEF next
  <1>5. \A c \in Clusters : rank[c] >= 0 => owner[c] # k /\ c # k
    BY <1>2 DEF Chained
  <1>6. \A c \in Clusters : fat[c] # k
    BY <1>2, Markers DEF FatInv
  <1>7. Chained(next)'
    <2>1. \A c \in Clusters : next[c] >= -1
      BY <1>4 DEF Chained
    <2>2. \A c \in Clusters : next[c] = 0 <=> owner'[c] = c
      BY <1>3, <1>4, <1>5 DEF Chained
    <2>3. \A c \in Clusters : next[c] >= 0 => owner'[c] \in Clusters /\ owner'[owner'[c]] = owner'[c]
      BY <1>3, <1>4, <1>5 DEF Chained
    <2>4. \A c \in Clusters : next[c] >= 0 /\ fat'[c] \in Clusters => next[fat'[c]] = next[c] + 1
      BY <1>3, <1>4, <1>6, Markers DEF Chained
    <2>5. \A c \in Clusters : next[c] > 0 =>
             \E d \in Clusters : fat'[d] = c /\ next[d] = next[c] - 1
      <3> TAKE c \in Clusters
      <3> HAVE next[c] > 0
      <3>1. c # k /\ rank[c] > 0
        BY <1>4
      <3>2. PICK d \in Clusters : fat[d] = c /\ rank[d] = rank[c] - 1
        BY <3>1 DEF Chained
      <3>3. d # k /\ fat'[d] = c /\ next[d] = next[c] - 1
        BY <1>2, <1>3, <1>4, <3>1, <3>2
      <3> QED BY <3>3
    <2>6. \A c, d \in Clusters :
             next[c] >= 0 /\ next[d] = next[c] /\ owner'[c] = owner'[d] => c = d
      BY <1>3, <1>4, <1>5 DEF Chained
    <2>7. \A c, d \in Clusters :
            next[c] >= 0 /\ next[d] >= 0 /\ owner'[c] = owner'[d] /\ fat'[d] = EndMarker
              => next[c] <= next[d]
      BY <1>3, <1>4, <1>5 DEF Chained
    <2> QED BY <2>1, <2>2, <2>3, <2>4, <2>5, <2>6, <2>7 DEF Chained
  <1>8. Extends(rank, next) /\ next[k] = 0
    BY <1>3, <1>4, <1>5 DEF Extends
  <1> QED BY <1>4, <1>7, <1>8 DEF next

\* fat_next_cluster marks a cluster before it links it: still in no chain.
LEMMA ClaimedUnranked ==
  ASSUME TypeOK, FatInv, NEW rank \in Ranks, Chained(rank), NEW k \in Clusters, fat[k] = 0,
         NEW o \in Clusters, o # k, Claim(k, o)
  PROVE  Chained(rank)' /\ Extends(rank, rank)
  <1>1. /\ fat' = [fat EXCEPT ![k] = EndMarker] /\ owner' = [owner EXCEPT ![k] = o]
        /\ fat \in [FatIndex -> 0 .. EndMarker] /\ owner \in [FatIndex -> FatIndex]
    BY DEF Claim, TypeOK
  <1>2. owner[k] = 0 /\ rank[k] = -1
    BY FreeUnranked DEF FatInv
  <1>3. \A c \in Clusters : /\ fat'[c] = IF c = k THEN EndMarker ELSE fat[c]
                            /\ owner'[c] = IF c = k THEN o ELSE owner[c]
    BY <1>1, Markers
  <1>4. \A c \in Clusters : rank[c] \in Int
    BY DEF Ranks
  <1>5. \A c \in Clusters : rank[c] >= 0 => owner[c] # k /\ c # k
    BY <1>2 DEF Chained
  <1>6. \A c \in Clusters : fat[c] # k
    BY <1>2, Markers DEF FatInv
  <1>7. Chained(rank)'
    <2>1. \A c \in Clusters : rank[c] >= -1
      BY DEF Chained
    <2>2. \A c \in Clusters : rank[c] = 0 <=> owner'[c] = c
      BY <1>2, <1>3 DEF Chained
    <2>3. \A c \in Clusters : rank[c] >= 0 => owner'[c] \in Clusters /\ owner'[owner'[c]] = owner'[c]
      BY <1>3, <1>5 DEF Chained
    <2>4. \A c \in Clusters : rank[c] >= 0 /\ fat'[c] \in Clusters => rank[fat'[c]] = rank[c] + 1
      BY <1>3, <1>5, Markers DEF Chained
    <2>5. \A c \in Clusters : rank[c] > 0 =>
             \E d \in Clusters : fat'[d] = c /\ rank[d] = rank[c] - 1
      <3> TAKE c \in Clusters
      <3> HAVE rank[c] > 0
      <3>1. PICK d \in Clusters : fat[d] = c /\ rank[d] = rank[c] - 1
        BY DEF Chained
      <3>2. d # k /\ fat'[d] = c
        BY <1>2, <1>3, <1>4, <3>1
      <3> QED BY <3>1, <3>2
    <2>6. \A c, d \in Clusters :
             rank[c] >= 0 /\ rank[d] = rank[c] /\ owner'[c] = owner'[d] => c = d
      BY <1>2, <1>3 DEF Chained
    <2>7. \A c, d \in Clusters :
            rank[c] >= 0 /\ rank[d] >= 0 /\ owner'[c] = owner'[d] /\ fat'[d] = EndMarker
              => rank[c] <= rank[d]
      BY <1>3, <1>5 DEF Chained
    <2> QED BY <2>1, <2>2, <2>3, <2>4, <2>5, <2>6, <2>7 DEF Chained
  <1>8. Extends(rank, rank)
    BY <1>3, <1>5 DEF Extends
  <1> QED BY <1>7, <1>8

\* The link to the new cluster makes the chain one longer.
LEMMA ChainGrows ==
  ASSUME TypeOK, FatInv, NEW rank \in Ranks, Chained(rank), NEW e \in Clusters, NEW k \in Clusters,
         rank[e] >= 0, fat[e] = EndMarker, fat[k] = EndMarker, owner[k] = owner[e], k # owner[k],
         \A c \in Clusters : fat[c] # k,
         fat' = [fat EXCEPT ![e] = k], owner' = owner
  PROVE  LET next == [rank EXCEPT ![k] = rank[e] + 1]
         IN /\ next \in Ranks /\ Chained(next)' /\ Extends(rank, next)
            /\ next[k] = rank[e] + 1 /\ rank[k] = -1
  <1> DEFINE next == [rank EXCEPT ![k] = rank[e] + 1]
  <1>1. \A c \in Clusters : rank[c] \in Int
    BY DEF Ranks
  <1>2. rank[k] = -1 /\ k # e
    <2>1. rank[k] # 0
      BY DEF Chained
    <2>2. ~(rank[k] > 0)
      BY DEF Chained
    <2>3. rank[k] >= -1
      BY DEF Chained
    <2> QED BY <1>1, <2>1, <2>2, <2>3
  <1>3. /\ next \in Ranks
        /\ \A c \in Clusters : next[c] = IF c = k THEN rank[e] + 1 ELSE rank[c]
    BY <1>1 DEF Ranks
  <1>4. \A c \in Clusters : fat'[c] = IF c = e THEN k ELSE fat[c]
    BY Markers DEF TypeOK
  <1> HIDE DEF next
  <1>5. \A c \in Clusters : rank[c] >= 0 => c # k
    BY <1>2
  <1>6. Chained(next)'
    <2>1. \A c \in Clusters : next[c] >= -1
      BY <1>1, <1>3 DEF Chained
    <2>2. \A c \in Clusters : next[c] = 0 <=> owner[c] = c
      BY <1>1, <1>3 DEF Chained
    <2>3. \A c \in Clusters : next[c] >= 0 => owner[c] \in Clusters /\ owner[owner[c]] = owner[c]
      BY <1>1, <1>3 DEF Chained
    <2>4. \A c \in Clusters : next[c] >= 0 /\ fat'[c] \in Clusters => next[fat'[c]] = next[c] + 1
      BY <1>1, <1>2, <1>3, <1>4, Markers DEF Chained
    <2>5. \A c \in Clusters : next[c] > 0 =>
             \E d \in Clusters : fat'[d] = c /\ next[d] = next[c] - 1
      <3> TAKE c \in Clusters
      <3> HAVE next[c] > 0
      <3>1. CASE c = k
        <4>1. fat'[e] = c /\ next[e] = next[c] - 1
          BY <1>1, <1>2, <1>3, <1>4, <3>1
        <4> QED BY <4>1
      <3>2. CASE c # k
        <4>1. PICK d \in Clusters : fat[d] = c /\ rank[d] = rank[c] - 1
          BY <1>3, <3>2 DEF Chained
        <4>2. d # e /\ d # k
          BY <4>1, Markers
        <4>3. fat'[d] = c /\ next[d] = next[c] - 1
          BY <1>3, <1>4, <3>2, <4>1, <4>2
        <4> QED BY <4>3
      <3> QED BY <3>1, <3>2
    <2>6. ASSUME NEW c \in Clusters, rank[c] >= 0, owner[c] = owner[e]
          PROVE  rank[c] <= rank[e]
      BY <2>6 DEF Chained
    <2>7. \A c, d \in Clusters :
             next[c] >= 0 /\ next[d] = next[c] /\ owner[c] = owner[d] => c = d
      <3> TAKE c, d \in Clusters
      <3> HAVE next[c] >= 0 /\ next[d] = next[c] /\ owner[c] = owner[d]
      <3>1. CASE c # k /\ d # k
        BY <1>3, <3>1 DEF Chained
      <3>2. CASE c = k /\ d # k
        <4>1. rank[d] = rank[e] + 1 /\ owner[d] = owner[e]
          BY <1>3, <3>2
        <4> QED BY <1>1, <2>6, <4>1
      <3>3. CASE d = k /\ c # k
        <4>1. rank[c] = rank[e] + 1 /\ owner[c] = owner[e]
          BY <1>3, <3>3
        <4> QED BY <1>1, <2>6, <4>1
      <3> QED BY <3>1, <3>2, <3>3
    <2>8. \A c, d \in Clusters :
            next[c] >= 0 /\ next[d] >= 0 /\ owner[c] = owner[d] /\ fat'[d] = EndMarker
              => next[c] <= next[d]
      <3> TAKE c, d \in Clusters
      <3> HAVE next[c] >= 0 /\ next[d] >= 0 /\ owner[c] = owner[d] /\ fat'[d] = EndMarker
      <3>1. d # e /\ fat[d] = EndMarker
        BY <1>4, Markers
      <3>2. CASE d = k
        BY <1>1, <1>3, <2>6, <3>2
      <3>3. CASE d # k /\ owner[d] # owner[e]
        BY <1>3, <3>1, <3>3 DEF Chained
      <3>4. CASE d # k /\ owner[d] = owner[e]
        <4>1. rank[d] >= 0 /\ rank[e] <= rank[d] /\ rank[d] <= rank[e]
          BY <1>3, <2>6, <3>1, <3>4 DEF Chained
        <4>2. rank[d] = rank[e]
          BY <1>1, <4>1
        <4>3. d = e
          BY <3>4, <4>1, <4>2 DEF Chained
        <4> QED BY <3>1, <4>3
      <3> QED BY <3>2, <3>3, <3>4
    <2> QED BY <2>1, <2>2, <2>3, <2>4, <2>5, <2>7, <2>8 DEF Chained
  <1>7. Extends(rank, next)
    BY <1>3, <1>5 DEF Extends
  <1> QED BY <1>2, <1>3, <1>6, <1>7 DEF next

\* fat_free_clusters takes a chain apart, its first cluster first.
LEMMA ChainFreed ==
  ASSUME TypeOK, FatInv, NEW rank \in Ranks, Chained(rank), NEW o \in Clusters,
         NEW Z, Z = call.zeroed, WriteZeroes,
         \A z \in Z : z \in Clusters /\ owner[z] = o, o \in Z \/ owner[o] # o
  PROVE  \E next \in Ranks :
           /\ Chained(next)'
           /\ \A c \in Clusters : rank[c] >= 0 /\ owner[c] # o =>
                owner'[c] = owner[c] /\ next[c] = rank[c]
  <1>0. PICK next : next = [c \in Clusters |-> IF owner[c] = o THEN -1 ELSE rank[c]]
    OBVIOUS
  <1>1. \A c \in Clusters : /\ fat'[c] = IF c \in Z THEN 0 ELSE fat[c]
                            /\ owner'[c] = IF c \in Z THEN 0 ELSE owner[c]
    BY Markers DEF WriteZeroes, Zero
  <1>2. \A c \in Clusters : rank[c] \in Int
    BY DEF Ranks
  <1>3. next \in Ranks /\ \A c \in Clusters : next[c] = IF owner[c] = o THEN -1 ELSE rank[c]
    BY <1>0, <1>2 DEF Ranks
  <1>4. \A c \in Clusters : next[c] >= 0 =>
          /\ owner[c] # o /\ rank[c] = next[c] /\ c \notin Z
          /\ owner'[c] = owner[c] /\ fat'[c] = fat[c]
    BY <1>1, <1>3
  <1>5. Chained(next)'
    <2>1. \A c \in Clusters : next[c] >= -1
      BY <1>3 DEF Chained
    <2>2. \A c \in Clusters : next[c] = 0 <=> owner'[c] = c
      <3> TAKE c \in Clusters
      <3>1. CASE owner[c] # o
        BY <1>1, <1>3, <3>1 DEF Chained
      <3>2. CASE owner[c] = o
        <4>1. next[c] # 0
          BY <1>3, <3>2
        <4>2. owner'[c] # c
          BY <1>1, <3>2, Markers
        <4> QED BY <4>1, <4>2
      <3> QED BY <3>1, <3>2
    <2>3. \A c \in Clusters : next[c] >= 0 => owner'[c] \in Clusters /\ owner'[owner'[c]] = owner'[c]
      <3> TAKE c \in Clusters
      <3> HAVE next[c] >= 0
      <3>1. owner[c] # o /\ owner'[c] = owner[c] /\ owner[c] \in Clusters /\ owner[owner[c]] = owner[c]
        BY <1>4 DEF Chained
      <3>2. owner[c] \notin Z
        BY <3>1
      <3> QED BY <1>1, <3>1, <3>2
    <2>4. \A c \in Clusters : next[c] >= 0 /\ fat'[c] \in Clusters => next[fat'[c]] = next[c] + 1
      <3> TAKE c \in Clusters
      <3> HAVE next[c] >= 0 /\ fat'[c] \in Clusters
      <3>1. /\ owner[c] # o /\ rank[c] = next[c] /\ fat'[c] = fat[c] /\ fat[c] \in Clusters
            /\ rank[fat[c]] = rank[c] + 1
        BY <1>4 DEF Chained
      <3>2. owner[fat[c]] = owner[c]
        BY <3>1 DEF FatInv
      <3> QED BY <1>3, <3>1, <3>2
    <2>5. \A c \in Clusters : next[c] > 0 =>
             \E d \in Clusters : fat'[d] = c /\ next[d] = next[c] - 1
      <3> TAKE c \in Clusters
      <3> HAVE next[c] > 0
      <3>0. next[c] >= 0
        BY <1>2, <1>3
      <3>1. owner[c] # o /\ rank[c] = next[c]
        BY <1>4, <3>0
      <3>2. PICK d \in Clusters : fat[d] = c /\ rank[d] = rank[c] - 1
        BY <3>1 DEF Chained
      <3>3. owner[d] = owner[c]
        BY <3>2 DEF FatInv
      <3>4. d \notin Z
        BY <3>1, <3>3
      <3>5. fat'[d] = c /\ next[d] = next[c] - 1
        BY <1>1, <1>3, <3>1, <3>2, <3>3, <3>4
      <3> QED BY <3>5
    <2>6. \A c, d \in Clusters :
             next[c] >= 0 /\ next[d] = next[c] /\ owner'[c] = owner'[d] => c = d
      BY <1>4 DEF Chained
    <2>7. \A c, d \in Clusters :
            next[c] >= 0 /\ next[d] >= 0 /\ owner'[c] = owner'[d] /\ fat'[d] = EndMarker
              => next[c] <= next[d]
      BY <1>4 DEF Chained
    <2> QED BY <2>1, <2>2, <2>3, <2>4, <2>5, <2>6, <2>7 DEF Chained
  <1>6. \A c \in Clusters : rank[c] >= 0 /\ owner[c] # o =>
          owner'[c] = owner[c] /\ next[c] = rank[c]
    BY <1>1, <1>3
  <1> QED BY <1>3, <1>5, <1>6

-----------------------------------------------------------------------------
(* Where a handle stands. *)

\* What the cached fields of a handle that stands say of its position.
LEMMA StandingAt ==
  ASSUME NEW f \in FileS, NEW rank \in Ranks, f.cluster \in Clusters, rank[f.cluster] >= 0,
         Aligned(rank, f), NEW r, r = rank[f.cluster], NEW j, j = SectorsPerCluster - 1 - f.sectors_left
  PROVE  /\ r \in Nat /\ j \in 0 .. SectorsPerCluster - 1
         /\ f.sector \in Sectors /\ f.sector >= FirstData
         /\ f.sector = SectorOf(f.cluster) + j /\ ClusterOf(f.sector) = f.cluster
         /\ f.file_sector = r * SectorsPerCluster + j
         /\ Pos(f) \in Nat /\ Pos(f) <= (r + 1) * ClusterBytes /\ (r + 1) * ClusterBytes \in Nat
         /\ f.cursor < SectorSize => /\ Pos(f) < (r + 1) * ClusterBytes
                                     /\ Pos(f) \div SectorSize = f.file_sector
                                     /\ Pos(f) % SectorSize = f.cursor
                                     /\ Pos(f) \div ClusterBytes = r
                                     /\ (Pos(f) % ClusterBytes) \div SectorSize = j
         /\ f.sectors_left = 0 /\ f.cursor = SectorSize => Pos(f) = (r + 1) * ClusterBytes
  <1>1. /\ f.sectors_left \in 0 .. 255 /\ f.sector \in Nat /\ f.cursor \in 0 .. SectorSize
        /\ f.sectors_left < SectorsPerCluster
        /\ f.sector + f.sectors_left = SectorOf(f.cluster) + SectorsPerCluster - 1
        /\ f.file_sector = r * SectorsPerCluster + j
    BY DEF FileS, Aligned, PlacedAt, Bad
  <1>2. r \in Nat /\ SectorsPerCluster \in Nat \ {0} /\ SectorSize \in Nat \ {0} /\ Cluster0 \in Nat
    BY GeometryAssumption DEF Ranks
  <1>3. j \in 0 .. SectorsPerCluster - 1
    BY <1>1, <1>2
  <1>4. /\ SectorOf(f.cluster) = f.cluster * SectorsPerCluster + Cluster0
        /\ SectorOf(f.cluster) \in Nat
    BY ClusterSectors
  <1>5. f.sector \in Sectors /\ f.sector >= FirstData
    BY PlacedInData DEF Aligned
  <1>6. f.sector = SectorOf(f.cluster) + j
    <2> DEFINE a == f.sector
               l == f.sectors_left
               b == SectorOf(f.cluster)
    <2>1. /\ a \in Nat /\ l \in Nat /\ b \in Nat /\ a + l = b + SectorsPerCluster - 1
          /\ j = SectorsPerCluster - 1 - l
      BY <1>1, <1>4
    <2> HIDE DEF a, l, b
    <2>2. a = b + j
      BY <1>2, <1>3, <2>1
    <2> QED BY <2>2 DEF a, b
  <1>7. ClusterOf(f.sector) = f.cluster
    <2> DEFINE m == f.cluster * SectorsPerCluster
    <2>1. f.cluster \in Nat
      BY DEF Clusters
    <2>2. (f.cluster * SectorsPerCluster + j) \div SectorsPerCluster = f.cluster
      BY <1>2, <1>3, <2>1, DivModUnique
    <2>3. m \in Nat
      BY <1>2, <2>1
    <2> HIDE DEF m
    <2>4. f.sector - Cluster0 = m + j
      BY <1>2, <1>3, <1>4, <1>6, <2>3 DEF m
    <2> QED BY <2>2, <2>4 DEF ClusterOf, m
  <1> DEFINE p == Pos(f)
             u == f.cursor
  <1>8. p = (r * SectorsPerCluster + j) * SectorSize + u /\ u \in 0 .. SectorSize
    BY <1>1 DEF Pos
  <1> HIDE DEF p, u
  <1>9. /\ p \in Nat /\ p <= (r + 1) * ClusterBytes /\ (r + 1) * ClusterBytes \in Nat
        /\ u < SectorSize => /\ p < (r + 1) * ClusterBytes
                             /\ p \div SectorSize = r * SectorsPerCluster + j
                             /\ p % SectorSize = u
                             /\ p \div ClusterBytes = r
                             /\ (p % ClusterBytes) \div SectorSize = j
        /\ u = SectorSize /\ j = SectorsPerCluster - 1 => p = (r + 1) * ClusterBytes
    <2>1. r \in Nat /\ j \in 0 .. SectorsPerCluster - 1 /\ u \in 0 .. SectorSize
      BY <1>2, <1>3, <1>8
    <2>2. p = (r * SectorsPerCluster + j) * SectorSize + u
      BY <1>8
    <2>3. (r + 1) * ClusterBytes \in Nat /\ p \in Nat /\ p <= (r + 1) * ClusterBytes
      BY <2>1, <2>2, Positions
    <2>4. ASSUME u < SectorSize
          PROVE  /\ p < (r + 1) * ClusterBytes
                 /\ p \div SectorSize = r * SectorsPerCluster + j
                 /\ p % SectorSize = u
                 /\ p \div ClusterBytes = r
                 /\ (p % ClusterBytes) \div SectorSize = j
      BY <2>1, <2>2, <2>4, Positions
    <2>5. u = SectorSize /\ j = SectorsPerCluster - 1 => p = (r + 1) * ClusterBytes
      BY <2>1, <2>2, Positions
    <2> QED BY <2>3, <2>4, <2>5
  <1>10. f.sectors_left = 0 => j = SectorsPerCluster - 1
    BY <1>2
  <1> QED BY <1>1, <1>2, <1>3, <1>5, <1>6, <1>7, <1>9, <1>10 DEF p, u

-----------------------------------------------------------------------------
(* The file of the running call moves on. *)

\* The file of the running call moves to a place in its chain; all else stays.
LEMMA CurMoves ==
  ASSUME TypeOK, NEW rank \in Ranks, RankInv(rank), NEW next \in Ranks, Extends(rank, next),
         Chained(next)', NEW f, SetCur(f), call'.fd = call.fd, IsOpen(call.fd),
         \A s \in Slots : Live(s)' =>
           \/ Live(s) /\ dir'[s].first = dir[s].first /\ dir'[s].size = dir[s].size
           \/ Cur.first # 0 /\ dir'[s].first = Cur.first /\ dir'[s].size = Cur.size,
         f.first = 0 => f.size <= SectorSize,
         f.first # 0 => \/ f.first = Cur.first /\ f.size = Cur.size
                        \/ \E c \in Clusters : /\ owner'[c] = f.first /\ next[c] >= 0
                                               /\ f.size <= (next[c] + 1) * ClusterBytes,
         "WRITE" \in f.flags /\ f.first # 0 /\ ~Walking' =>
           /\ f.cluster \in Clusters /\ owner'[f.cluster] = f.first /\ next[f.cluster] >= 0
           /\ Aligned(next, f),
         CrossInv(next)', SeekerInv(next)'
  PROVE  RankInv(next)'
  <1>1. /\ call.fd \in Handles
        /\ \A h \in Handles : file_num'[h] = IF h = call.fd THEN f ELSE file_num[h]
    BY CurType DEF SetCur, TypeOK
  <1>2. \A c \in Clusters : rank[c] >= 0 => owner'[c] = owner[c] /\ next[c] = rank[c]
    BY DEF Extends
  <1>3. ASSUME NEW o, NEW n, Covers(rank, o, n) PROVE Covers(next, o, n)'
    BY <1>2, <1>3 DEF Covers, InChain
  <1>4. Cur.first # 0 => Covers(rank, Cur.first, Cur.size)
    BY <1>1 DEF RankInv, SizesInv, Cur
  <1>5. ASSUME NEW s \in Slots, Live(s)' PROVE Covers(next, dir[s].first, dir[s].size)'
    <2>1. CASE Live(s) /\ dir'[s].first = dir[s].first /\ dir'[s].size = dir[s].size
      <3>1. Covers(rank, dir[s].first, dir[s].size)
        BY <2>1 DEF RankInv, SizesInv
      <3> QED BY <1>2, <2>1, <3>1 DEF Covers, InChain
    <2>2. CASE Cur.first # 0 /\ dir'[s].first = Cur.first /\ dir'[s].size = Cur.size
      BY <1>2, <1>4, <2>2 DEF Covers, InChain
    <2> QED BY <1>5, <2>1, <2>2
  <1>6. ASSUME NEW h \in Handles, IsOpen(h)'
        PROVE  IF file_num'[h].first = 0 THEN file_num'[h].size <= SectorSize
               ELSE Covers(next, file_num[h].first, file_num[h].size)'
    <2>1. CASE h # call.fd
      <3>1. file_num'[h] = file_num[h] /\ IsOpen(h)
        BY <1>1, <1>6, <2>1 DEF IsOpen
      <3>2. IF file_num[h].first = 0 THEN file_num[h].size <= SectorSize
            ELSE Covers(rank, file_num[h].first, file_num[h].size)
        BY <3>1 DEF RankInv, SizesInv
      <3> QED BY <1>2, <3>1, <3>2 DEF Covers, InChain
    <2>2. CASE h = call.fd /\ f.first = Cur.first /\ f.size = Cur.size
      BY <1>1, <1>2, <1>4, <2>2 DEF Covers, InChain
    <2>3. CASE h = call.fd /\ ~(f.first = Cur.first /\ f.size = Cur.size)
      BY <1>1, <2>3 DEF Covers, InChain
    <2> QED BY <2>1, <2>2, <2>3
  <1>7. SizesInv(next)'
    BY <1>5, <1>6 DEF SizesInv
  <1>8. StandInv(next)'
    <2> SUFFICES ASSUME NEW h \in Handles, IsOpen(h)', "WRITE" \in file_num'[h].flags,
                        file_num'[h].first # 0, ~(Walking' /\ h = call'.fd)
                 PROVE  StandsAt(next, file_num[h])'
      BY DEF StandInv
    <2>1. CASE h # call.fd
      <3>1. file_num'[h] = file_num[h] /\ IsOpen(h)
        BY <1>1, <2>1 DEF IsOpen
      <3>2. StandsAt(rank, file_num[h])
        BY <2>1, <3>1 DEF RankInv, StandInv
      <3> QED BY <1>2, <3>1, <3>2 DEF StandsAt, InChain, Aligned, PlacedAt
    <2>2. CASE h = call.fd
      <3>1. file_num'[h] = f /\ ~Walking'
        BY <1>1, <2>2
      <3> QED BY <3>1 DEF StandsAt, InChain, Aligned, PlacedAt
    <2> QED BY <2>1, <2>2
  <1> QED BY <1>7, <1>8 DEF RankInv

\* The file stays on its byte.
SameSpot(f) ==
  /\ f.first = Cur.first /\ f.size = Cur.size /\ f.cluster = Cur.cluster
  /\ f.sector = Cur.sector /\ f.sectors_left = Cur.sectors_left
  /\ f.file_sector = Cur.file_sector /\ f.cursor = Cur.cursor
  /\ "WRITE" \in f.flags <=> "WRITE" \in Cur.flags
  /\ "DIRTY" \in f.flags => "DIRTY" \in Cur.flags
\* Room in the next state, for the file f.
RoomFor(next, f) ==
  \/ \E k \in FatIndex : fat'[k] = 0
  \/ \E c \in Clusters : /\ owner'[c] = f.first /\ next[c] >= 0
                         /\ call'.new < (next[c] + 1) * ClusterBytes

\* The writer of the running call stands in its own chain, unless it walks.
LEMMA CurStands ==
  ASSUME TypeOK, NEW rank \in Ranks, RankInv(rank), IsOpen(call.fd),
         "WRITE" \in Cur.flags, Cur.first # 0, ~Walking
  PROVE  /\ Cur.cluster \in Clusters /\ owner[Cur.cluster] = Cur.first
         /\ rank[Cur.cluster] >= 0 /\ Aligned(rank, Cur)
  <1>1. call.fd \in Handles
    BY CurType
  <1>2. StandsAt(rank, Cur)
    BY <1>1 DEF RankInv, StandInv, Cur
  <1> QED BY <1>2 DEF StandsAt, InChain

\* A step that leaves the file on its byte keeps the ranked invariant.
LEMMA SpotMoves ==
  ASSUME TypeOK, NEW rank \in Ranks, RankInv(rank), NEW next \in Ranks, Extends(rank, next),
         Chained(next)', NEW f, SetCur(f), call'.fd = call.fd, IsOpen(call.fd), SameSpot(f),
         \A s \in Slots : Live(s)' =>
           \/ Live(s) /\ dir'[s].first = dir[s].first /\ dir'[s].size = dir[s].size
           \/ Cur.first # 0 /\ dir'[s].first = Cur.first /\ dir'[s].size = Cur.size,
         "WRITE" \in Cur.flags /\ Walking => Walking',
         CrossInv(next)', SeekerInv(next)'
  PROVE  RankInv(next)'
  <1>1. f.first = 0 => f.size <= SectorSize
    BY CurType DEF RankInv, SizesInv, SameSpot, Cur
  <1>2. f.first # 0 => f.first = Cur.first /\ f.size = Cur.size
    BY DEF SameSpot
  <1>3. ASSUME "WRITE" \in f.flags, f.first # 0, ~Walking'
        PROVE  /\ f.cluster \in Clusters /\ owner'[f.cluster] = f.first /\ next[f.cluster] >= 0
               /\ Aligned(next, f)
    <2>1. "WRITE" \in Cur.flags /\ Cur.first # 0 /\ ~Walking
      BY <1>3 DEF SameSpot
    <2>2. /\ Cur.cluster \in Clusters /\ owner[Cur.cluster] = Cur.first
          /\ rank[Cur.cluster] >= 0 /\ Aligned(rank, Cur)
      BY <2>1, CurStands
    <2>3. owner'[Cur.cluster] = Cur.first /\ next[Cur.cluster] = rank[Cur.cluster]
      BY <2>2 DEF Extends
    <2> QED BY <2>2, <2>3 DEF SameSpot, Aligned, PlacedAt
  <1> QED BY <1>1, <1>2, <1>3, CurMoves

\* What the labels a step can lead to claim.
LEMMA NotSeeking ==
  ASSUME NEW next, ~call'.seeking \/ "WRITE" \notin Cur'.flags
  PROVE  SeekerInv(next)'
  BY DEF SeekerInv, WriterSeeks

\* Nothing is claimed of a cluster to come where none is fetched.
LEMMA NotCrossing ==
  ASSUME NEW next, pc' \notin {"next", "chain", "select"}, pc' = "info" => call'.info # "next"
  PROVE  CrossInv(next)'
  BY DEF CrossInv, Crossing, Linked

\* Room for a seek stays when no free cluster is taken and no chain shrinks.
LEMMA RoomStays ==
  ASSUME NEW rank \in Ranks, NEW next, Extends(rank, next), Room(rank), NEW f,
         f.first = Cur.first, call'.new = call.new,
         \A k \in FatIndex : fat[k] = 0 => fat'[k] = 0
  PROVE  RoomFor(next, f)
  <1>1. CASE \E k \in FatIndex : fat[k] = 0
    BY <1>1 DEF RoomFor
  <1>2. CASE Reaches(rank, Cur.first, call.new)
    <2>1. PICK c \in Clusters : owner[c] = Cur.first /\ rank[c] >= 0 /\ call.new < (rank[c] + 1) * ClusterBytes
      BY <1>2 DEF Reaches, InChain
    <2>2. owner'[c] = owner[c] /\ next[c] = rank[c]
      BY <2>1 DEF Extends
    <2> QED BY <2>1, <2>2 DEF RoomFor
  <1> QED BY <1>1, <1>2 DEF Room

\* To the label behind the flush of fat_lseek.
LEMMA ToSeek ==
  ASSUME NEW next, NEW f, Cur' = f, pc' = "seek", "DIRTY" \notin f.flags, Pos(f) = call'.old,
         f.first # 0 /\ call'.new <= f.size => RoomFor(next, f)
  PROVE  CrossInv(next)' /\ SeekerInv(next)'
  <1>1. CrossInv(next)'
    BY NotCrossing
  <1>2. /\ ~SeekFlushing' /\ ~Loading' /\ ~Walking' /\ ~Linked' /\ Cur' = f
    BY DEF SeekFlushing, Loading, Walking, Linked, Crossing
  <1>3. Pos(Cur)' = Pos(f)
    BY DEF Pos
  <1>4. RoomFor(next, f) => Room(next)'
    BY DEF RoomFor, Room, Reaches, InChain
  <1>5. SeekerInv(next)'
    BY <1>2, <1>3, <1>4 DEF SeekerInv
  <1> QED BY <1>1, <1>5

\* To the choice of a case in fat_lseek.
LEMMA ToCase ==
  ASSUME NEW next, NEW f, Cur' = f, pc' = "case", "DIRTY" \notin f.flags, call'.new <= f.size,
         \/ Pos(f) = call'.old /\ f.cursor < SectorSize
         \/ call'.new < call'.old /\ call'.old % ClusterBytes = 0,
         f.first # 0 => RoomFor(next, f)
  PROVE  CrossInv(next)' /\ SeekerInv(next)'
  <1>1. CrossInv(next)'
    BY NotCrossing
  <1>2. /\ ~SeekFlushing' /\ ~Loading' /\ ~Walking' /\ ~Linked' /\ Cur' = f
    BY DEF SeekFlushing, Loading, Walking, Linked, Crossing
  <1>3. Pos(Cur)' = Pos(f)
    BY DEF Pos
  <1>4. RoomFor(next, f) => Room(next)'
    BY DEF RoomFor, Room, Reaches, InChain
  <1>5. SeekerInv(next)'
    BY <1>2, <1>3, <1>4 DEF SeekerInv
  <1> QED BY <1>1, <1>5

\* To a label of fat_next_sector or fat_next_cluster, for the cursor that has
\* run off its sector.
LEMMA ToLoading ==
  ASSUME NEW next, NEW f, Cur' = f, ~Walking',
         pc' \in {"sector", "next", "chain", "select"} \/ (pc' = "info" /\ call'.info = "next")
           \/ (pc' = "flush" /\ call'.flush = "sector"),
         "DIRTY" \notin f.flags, Pos(f) = call'.old, f.cursor = SectorSize, call'.new <= f.size,
         pc' # "chain" /\ f.first # 0 => RoomFor(next, f)
  PROVE  SeekerInv(next)'
  <1>1. ~SeekFlushing' /\ Cur' = f /\ pc' # "case" /\ pc' # "seek" /\ ~(pc' = "flush" /\ call'.flush = "seek")
    BY DEF SeekFlushing
  <1>2. Pos(Cur)' = Pos(f)
    BY DEF Pos
  <1>3. RoomFor(next, f) => Room(next)'
    BY DEF RoomFor, Room, Reaches, InChain
  <1> QED BY <1>1, <1>2, <1>3 DEF SeekerInv

\* To a label of the walk.
LEMMA ToWalk ==
  ASSUME NEW next, NEW f, Cur' = f, Walking', "DIRTY" \notin f.flags, call'.new <= f.size,
         f.cluster \in Clusters, owner'[f.cluster] = f.first, next[f.cluster] = call'.i,
         next[f.cluster] >= 0,
         call'.i <= call'.new \div ClusterBytes,
         pc' # "walk" => call'.i < call'.new \div ClusterBytes,
         pc' = "walked" \/ (pc' = "info" /\ call'.info = "next") =>
           /\ call'.res \in Clusters /\ owner'[call'.res] = f.first
           /\ next[call'.res] >= 0 /\ next[call'.res] = call'.i + 1,
         pc' # "chain" => RoomFor(next, f)
  PROVE  CrossInv(next)' /\ SeekerInv(next)'
  <1>1. CrossInv(next)'
    BY DEF CrossInv, Crossing
  <1>2. /\ ~Loading' /\ ~SeekFlushing' /\ pc' \notin {"seek", "case", "select"} /\ Cur' = f
        /\ ~(pc' = "flush" /\ call'.flush = "seek")
    BY DEF Walking, Loading, SeekFlushing, Crossing, Linked
  <1>3. RoomFor(next, f) => Room(next)'
    BY DEF RoomFor, Room, Reaches, InChain
  <1>4. Linked' => pc' = "info" /\ call'.info = "next"
    BY <1>2 DEF Linked
  <1>5. SeekerInv(next)'
    BY <1>2, <1>3, <1>4 DEF SeekerInv, InChain
  <1> QED BY <1>1, <1>5

-----------------------------------------------------------------------------
(* The space a seek has been promised. *)

\* The free clusters can be counted.
LEMMA FreeFinite ==
  /\ IsFiniteSet({c \in FatIndex : fat[c] = 0})
  /\ Cardinality({c \in FatIndex : fat[c] = 0}) \in Nat
  <1>1. IsFiniteSet(FatIndex)
    BY FS_Interval, GeometryAssumption DEF FatIndex
  <1> QED BY <1>1, FS_Subset, FS_CardinalityType

\* Where two free clusters are counted there is one,
LEMMA FreeOne ==
  ASSUME ~(Cardinality({c \in FatIndex : fat[c] = 0}) < 2)
  PROVE  \E k \in FatIndex : fat[k] = 0
  <1> DEFINE S == {c \in FatIndex : fat[c] = 0}
  <1>1. S # {}
    BY FS_EmptySet
  <1> QED BY <1>1

\* and one besides any cluster given.
LEMMA FreeTwo ==
  ASSUME ~(Cardinality({c \in FatIndex : fat[c] = 0}) < 2), NEW k \in FatIndex
  PROVE  \E c \in FatIndex : c # k /\ fat[c] = 0
  <1> DEFINE S == {c \in FatIndex : fat[c] = 0}
  <1> SUFFICES ASSUME \A c \in FatIndex : c # k => fat[c] # 0 PROVE FALSE
    OBVIOUS
  <1>1. S \subseteq {k}
    OBVIOUS
  <1>2. IsFiniteSet({k}) /\ Cardinality({k}) = 1
    BY FS_Singleton
  <1>3. Cardinality(S) <= 1
    BY <1>1, <1>2, FS_Subset
  <1>4. Cardinality(S) \in Nat
    BY FreeFinite
  <1> QED BY <1>3, <1>4

\* A seek that is not risky reaches its position or finds a free cluster.
LEMMA SeekerHasRoom ==
  ASSUME TypeOK, NEW rank \in Ranks, RankInv(rank), IsOpen(call.fd), "WRITE" \in Cur.flags,
         ~RiskySeek(Cur, call.new), Cur.first # 0, call.new <= Cur.size
  PROVE  Room(rank)
  <1>1. Cur \in FileS /\ call.fd \in Handles /\ call.new \in Nat /\ Cur.size \in Nat
    BY CurType DEF TypeOK, Calls, FileS
  <1>2. CASE ~(Cardinality({c \in FatIndex : fat[c] = 0}) < 2)
    BY <1>2, FreeOne DEF Room
  <1>3. CASE ~(call.new = Cur.size /\ call.new # 0 /\ call.new % SectorSize = 0)
    <2>1. PICK c \in Clusters : InChain(rank, c, Cur.first) /\ Cur.size <= (rank[c] + 1) * ClusterBytes
      BY <1>1 DEF RankInv, SizesInv, Covers, Cur
    <2> DEFINE e == (rank[c] + 1) * ClusterBytes
    <2>2. rank[c] \in Nat
      BY <2>1 DEF InChain, Ranks
    <2>3. e \in Nat \ {0} /\ e % SectorSize = 0
      BY <1>1, <2>2, ClusterEnds
    <2>4. Cur.size <= e
      BY <2>1
    <2> HIDE DEF e
    <2>5. call.new < e
      BY <1>1, <1>3, <2>3, <2>4
    <2> QED BY <2>1, <2>5 DEF Room, Reaches, e
  <1> QED BY <1>2, <1>3 DEF RiskySeek

-----------------------------------------------------------------------------
(* fat_flush. *)

\* fat_flush returns, the buffer clean: to fat_lseek, to fat_next_sector, to
\* fat_next_cluster in the walk of fat_lseek, or to fat_close.
LEMMA FlushReturns ==
  ASSUME TypeOK, VolumeInv, AccessInv, FirstInv, NEW rank \in Ranks, RankInv(rank),
         NEW next \in Ranks, Extends(rank, next), Chained(next)',
         pc = "flush" \/ (pc = "info" /\ call.info = "flush"), IsOpen(call.fd),
         NEW f, SetCur(f), SameSpot(f), WriterSeeks => "DIRTY" \notin f.flags, call' = call,
         NEW ok \in BOOLEAN, pc' = AfterFlush(ok), WriterSeeks => ok \/ call.flush = "seek",
         \A s \in Slots : Live(s)' =>
           \/ Live(s) /\ dir'[s].first = dir[s].first /\ dir'[s].size = dir[s].size
           \/ Cur.first # 0 /\ dir'[s].first = Cur.first /\ dir'[s].size = Cur.size,
         \A k \in FatIndex : fat[k] = 0 => fat'[k] = 0
  PROVE  RankInv(next)'
  <1>1. Cur' = f /\ call'.new = call.new /\ call'.old = call.old /\ Pos(f) = Pos(Cur)
    BY CurAfter DEF SameSpot, Pos
  <1>2. call.flush = "next" => call.seeking /\ call.next = "walk"
    BY DEF AccessInv
  <1>3. "WRITE" \in Cur.flags /\ Walking => Walking'
    BY <1>2 DEF Walking, AfterFlush, AfterNext
  <1>4. CASE ~WriterSeeks
    <2>1. SeekerInv(next)'
      BY <1>1, <1>4, NotSeeking DEF WriterSeeks, SameSpot
    <2>2. CrossInv(next)'
      <3>1. CASE call.flush # "next"
        BY <3>1, NotCrossing DEF AfterFlush, AfterSector
      <3>2. CASE call.flush = "next"
        BY <1>1, <1>2, <1>4, <3>2 DEF CrossInv, WriterSeeks, SameSpot
      <3> QED BY <3>1, <3>2
    <2> QED BY <1>3, <2>1, <2>2, SpotMoves
  <1>5. CASE WriterSeeks /\ call.flush = "seek"
    <2>1. pc' = "seek"
      BY <1>5 DEF AfterFlush
    <2>2. Pos(f) = call'.old
      BY <1>1, <1>5 DEF RankInv, SeekerInv, SeekFlushing
    <2>3. ASSUME f.first # 0, call'.new <= f.size PROVE RoomFor(next, f)
      <3>1. Cur.first # 0 /\ call.new <= Cur.size /\ "WRITE" \in Cur.flags
        BY <1>1, <1>5, <2>3 DEF SameSpot, WriterSeeks
      <3>2. CASE pc = "flush"
        <4>1. ~RiskySeek(Cur, call.new)
          BY <1>5, <3>2 DEF RankInv, SeekerInv
        <4>2. Room(rank)
          BY <3>1, <4>1, SeekerHasRoom
        <4> QED BY <1>1, <4>2, RoomStays DEF SameSpot
      <3>3. CASE pc = "info"
        <4>1. Room(rank)
          BY <1>5, <3>1, <3>3 DEF RankInv, SeekerInv
        <4> QED BY <1>1, <4>1, RoomStays DEF SameSpot
      <3> QED BY <3>2, <3>3
    <2>4. CrossInv(next)' /\ SeekerInv(next)'
      BY <1>1, <1>5, <2>1, <2>2, <2>3, ToSeek
    <2> QED BY <1>3, <2>4, SpotMoves
  <1>6. CASE WriterSeeks /\ call.flush # "seek"
    <2>1. ok /\ pc = "flush" /\ call.seeking /\ "WRITE" \in Cur.flags
      BY <1>6 DEF FirstInv, WriterSeeks
    <2>2. call.flush \in {"sector", "next"}
      BY <1>6, <2>1 DEF AccessInv
    <2>3. Cur.first # 0
      BY <2>1, <2>2 DEF VolumeInv, CallInv, NeedsStored
    <2>4. SeekerInv(rank)
      BY DEF RankInv
    <2>5. CASE call.flush = "sector"
      <3>1. pc' = "sector" /\ ~Walking'
        BY <2>1, <2>5 DEF AfterFlush, Walking
      <3>2. Loading /\ ~SeekFlushing
        BY <2>1, <2>5 DEF Loading, SeekFlushing
      <3>3. Pos(Cur) = call.old /\ Cur.cursor = SectorSize /\ call.new <= Cur.size
        BY <1>6, <2>4, <3>2 DEF SeekerInv
      <3>4. Room(rank)
        BY <1>6, <2>1, <2>3, <2>4, <2>5, <3>3 DEF SeekerInv
      <3>5. RoomFor(next, f)
        BY <1>1, <3>4, RoomStays DEF SameSpot
      <3>6. SeekerInv(next)'
        BY <1>1, <1>6, <3>1, <3>3, <3>5, ToLoading DEF SameSpot
      <3>7. CrossInv(next)'
        BY <3>1, NotCrossing
      <3> QED BY <1>3, <3>6, <3>7, SpotMoves
    <2>6. CASE call.flush = "next"
      <3>1. pc' = "next" /\ Walking /\ Walking'
        BY <1>2, <2>1, <2>6 DEF AfterFlush, Walking
      <3>2. /\ call.new <= Cur.size
            /\ InChain(rank, Cur.cluster, Cur.first) /\ rank[Cur.cluster] = call.i
            /\ call.i <= call.new \div ClusterBytes
            /\ call.i < call.new \div ClusterBytes
        BY <1>6, <2>1, <2>4, <3>1 DEF SeekerInv
      <3>3. Room(rank)
        BY <1>6, <2>1, <2>3, <2>4, <2>6, <3>2 DEF SeekerInv
      <3>4. RoomFor(next, f)
        BY <1>1, <3>3, RoomStays DEF SameSpot
      <3>5. /\ f.cluster \in Clusters /\ owner'[f.cluster] = f.first
            /\ next[f.cluster] = call'.i /\ next[f.cluster] >= 0
        BY <3>2 DEF SameSpot, InChain, Extends
      <3>6. CrossInv(next)' /\ SeekerInv(next)'
        BY <1>1, <1>6, <3>1, <3>2, <3>4, <3>5, ToWalk DEF SameSpot
      <3> QED BY <1>3, <3>6, SpotMoves
    <2> QED BY <2>2, <2>5, <2>6
  <1> QED BY <1>4, <1>5, <1>6

\* The entries as they were.
LEMMA DirSame ==
  ASSUME dir' = dir
  PROVE  \A s \in Slots : Live(s)' =>
           Live(s) /\ dir'[s].first = dir[s].first /\ dir'[s].size = dir[s].size
  BY DEF Live

\* fat_flush runs for a call on an open file.
LEMMA FlushRunning ==
  ASSUME TypeOK, VolumeInv, pc \in {"flush", "data", "info"}
  PROVE  IsOpen(call.fd)
  BY DEF VolumeInv, CallInv, FreeLabels

\* fat_flush finds the buffer clean.
LEMMA FlushCleanChains ==
  ASSUME TypeOK, VolumeInv, AccessInv, FirstInv, NEW rank \in Ranks, RankInv(rank), FlushClean
  PROVE  RankInv(rank)'
  <1>1. /\ pc = "flush" /\ "DIRTY" \notin Cur.flags /\ pc' = AfterFlush(TRUE)
        /\ UNCHANGED <<fat, dir, owner, file_num, call>>
    BY DEF FlushClean, NoWrite
  <1>2. SetCur(Cur) /\ SameSpot(Cur) /\ IsOpen(call.fd)
    BY <1>1, SameCur, FlushRunning DEF SameSpot
  <1>3. Chained(rank)' /\ Extends(rank, rank)
    BY <1>1, ChainsSame DEF RankInv
  <1> QED BY <1>1, <1>2, <1>3, DirSame, FlushReturns

\* fat_flush writes the buffer.
LEMMA FlushWriteChains ==
  ASSUME TypeOK, VolumeInv, AccessInv, FirstInv, NEW rank \in Ranks, RankInv(rank), FlushWrite
  PROVE  RankInv(rank)'
  <1> DEFINE f == [Cur EXCEPT !.flags = @ \ {"DIRTY"}]
  <1>1. /\ UNCHANGED <<fat, dir, owner>> /\ SetCur(f)
        /\ pc = "flush" => pc' = AfterFlush(TRUE) /\ call' = call
        /\ pc = "data" => pc' = "info" /\ call' = [call EXCEPT !.info = "flush"]
        /\ pc \in {"flush", "data"}
    BY DEF FlushWrite
  <1>2. Cur \in FileS /\ call \in Calls
    BY CurType DEF TypeOK
  <1>3. SameSpot(f) /\ "DIRTY" \notin f.flags
    BY <1>2 DEF SameSpot, FileS
  <1> HIDE DEF f
  <1>4. Chained(rank)' /\ Extends(rank, rank) /\ IsOpen(call.fd)
    BY <1>1, ChainsSame, FlushRunning DEF RankInv
  <1>5. CASE pc = "flush"
    BY <1>1, <1>3, <1>4, <1>5, DirSame, FlushReturns
  <1>6. CASE pc = "data"
    <2>1. /\ pc' = "info" /\ call'.info = "flush" /\ call'.fd = call.fd /\ call'.seeking = call.seeking
          /\ call'.flush = call.flush /\ call'.old = call.old /\ call'.new = call.new
      BY <1>1, <1>2, <1>6 DEF Calls
    <2>2. Cur' = f /\ Pos(Cur)' = Pos(Cur)
      BY <1>1, <1>3, <2>1, CurAfter DEF SameSpot, Pos
    <2>3. CrossInv(rank)' /\ ~Walking /\ ~Walking'
      BY <1>6, <2>1, NotCrossing DEF Walking
    <2>4. SeekerInv(rank)'
      <3>1. CASE ~WriterSeeks
        BY <1>3, <2>1, <2>2, <3>1, NotSeeking DEF SameSpot, WriterSeeks
      <3>2. CASE WriterSeeks
        <4>1. call.flush = "seek" /\ SeekFlushing
          BY <1>6, <3>2 DEF FirstInv, WriterSeeks, SeekFlushing
        <4>2. Pos(Cur) = call.old
          BY <3>2, <4>1 DEF RankInv, SeekerInv
        <4>3. ASSUME f.first # 0, call'.new <= f.size PROVE RoomFor(rank, f)
          <5>1. Cur.first # 0 /\ call.new <= Cur.size
            BY <1>3, <2>1, <4>3 DEF SameSpot
          <5>2. Room(rank)
            BY <1>6, <3>2, <5>1 DEF RankInv, SeekerInv
          <5> QED BY <1>1, <1>3, <1>4, <2>1, <5>2, RoomStays DEF SameSpot
        <4>4. RoomFor(rank, f) => Room(rank)'
          BY <2>2 DEF RoomFor, Room, Reaches, InChain
        <4>5. ~Loading'
          BY <2>1 DEF Loading, Crossing, Linked
        <4> QED BY <1>3, <2>1, <2>2, <2>3, <4>2, <4>3, <4>4, <4>5 DEF SeekerInv
      <3> QED BY <3>1, <3>2
    <2> QED BY <1>1, <1>3, <1>4, <2>1, <2>3, <2>4, DirSame, SpotMoves
  <1> QED BY <1>1, <1>5, <1>6

\* A dirty buffer is a writer's; before it is flushed, fat_lseek has not moved.
LEMMA DirtyFlush ==
  ASSUME TypeOK, VolumeInv, AccessInv, FirstInv, NEW rank \in Ranks, RankInv(rank),
         pc = "data" \/ (pc = "flush" /\ "DIRTY" \in Cur.flags)
  PROVE  /\ "WRITE" \in Cur.flags /\ ~Walking /\ IsOpen(call.fd)
         /\ call.seeking => WriterSeeks /\ call.flush = "seek" /\ SeekFlushing
         /\ pc = "flush" /\ call.seeking => ~RiskySeek(Cur, call.new)
         /\ ~call.seeking => /\ ~WriterSeeks /\ call.flush \notin {"seek", "next"}
                             /\ AfterFlush(FALSE) \in {"done", "fail"}
  <1>1. "DIRTY" \in Cur.flags /\ "WRITE" \in Cur.flags /\ IsOpen(call.fd)
    BY CurType, FlushRunning DEF AccessInv, FlagsInv, Cur
  <1>2. ASSUME call.seeking
        PROVE  WriterSeeks /\ call.flush = "seek" /\ SeekFlushing
    <2>1. WriterSeeks
      BY <1>1, <1>2 DEF WriterSeeks
    <2>2. SeekFlushing
      BY <1>1, <2>1 DEF RankInv, SeekerInv
    <2> QED BY <2>1, <2>2 DEF SeekFlushing
  <1>3. pc = "flush" /\ call.seeking => ~RiskySeek(Cur, call.new)
    BY <1>2 DEF RankInv, SeekerInv
  <1>4. ASSUME ~call.seeking
        PROVE  ~WriterSeeks /\ call.flush \notin {"seek", "next"}
    BY <1>4 DEF WriterSeeks, AccessInv, SeekFlushing
  <1>5. ~call.seeking => AfterFlush(FALSE) \in {"done", "fail"}
    BY <1>4 DEF AfterFlush, AfterSector
  <1>6. ~Walking
    BY <1>2, <1>4 DEF Walking
  <1> QED BY <1>1, <1>2, <1>3, <1>4, <1>5, <1>6

\* A step that ends a call, or leads to a label that claims nothing, and leaves
\* the file where it is.
LEMMA SpotStays ==
  ASSUME TypeOK, NEW rank \in Ranks, RankInv(rank), NEW f, SetCur(f), SameSpot(f),
         call'.fd = call.fd, IsOpen(call.fd), UNCHANGED <<fat, dir, owner>>, ~Walking,
         pc' \notin {"next", "chain", "select"}, pc' = "info" => call'.info # "next",
         ~call'.seeking \/ "WRITE" \notin Cur.flags
  PROVE  RankInv(rank)'
  <1>1. Chained(rank)' /\ Extends(rank, rank)
    BY ChainsSame DEF RankInv
  <1>2. Cur' = f
    BY CurAfter
  <1>3. SeekerInv(rank)' /\ CrossInv(rank)'
    BY <1>2, NotSeeking, NotCrossing DEF SameSpot
  <1> QED BY <1>1, <1>3, DirSame, SpotMoves

\* fat_flush fails, or finds no cluster for a file that has none.
LEMMA FlushFailsChains ==
  ASSUME SafeUse, TypeOK, VolumeInv, AccessInv, FirstInv, NEW rank \in Ranks, RankInv(rank),
         FlushNoSpace \/ FlushWriteFails
  PROVE  RankInv(rank)'
  <1>1. /\ pc = "data" \/ (pc = "flush" /\ "DIRTY" \in Cur.flags)
        /\ pc' = AfterFlush(FALSE) /\ UNCHANGED <<fat, dir, owner, file_num, call>>
    BY DEF FlushNoSpace, FlushWriteFails, NoWrite
  <1>2. ~call.seeking
    <2> SUFFICES ASSUME call.seeking PROVE FALSE
      OBVIOUS
    <2>1. WriterSeeks /\ Faulty = {} /\ "WRITE" \in Cur.flags /\ ~Walking /\ IsOpen(call.fd)
      BY <1>1, DirtyFlush DEF AccessInv
    <2>2. CASE FlushNoSpace
      <3>1. pc = "flush" /\ Cur.sector = 0 /\ "DIRTY" \in Cur.flags /\ VolumeFull
        BY <2>1, <2>2 DEF FlushNoSpace, Fault
      <3>2. ~(Cardinality({c \in FatIndex : fat[c] = 0}) < 2)
        BY <1>1, <2>1, <3>1, DirtyFlush DEF RiskySeek
      <3> QED BY <3>1, <3>2, FreeOne DEF VolumeFull
    <2>3. CASE FlushWriteFails
      <3>1. Cur.sector \notin Sectors /\ (pc = "flush" => Cur.sector # 0)
        BY <2>1, <2>3 DEF FlushWriteFails, Fault
      <3>2. Cur.first # 0
        <4>1. CASE pc = "data"
          BY <4>1 DEF VolumeInv, CallInv, NeedsStored
        <4>2. CASE pc = "flush"
          BY <2>1, <3>1, <4>2, CurType DEF VolumeInv, HandleInv, FilesInv, Unstored, Cur
        <4> QED BY <1>1, <4>1, <4>2
      <3>3. Cur.cluster \in Clusters /\ rank[Cur.cluster] >= 0 /\ Aligned(rank, Cur)
        BY <2>1, <3>2, CurStands
      <3> QED BY <3>1, <3>3, CurType, StandingAt
    <2> QED BY <2>2, <2>3
  <1>3. pc' \in {"done", "fail"} /\ IsOpen(call.fd) /\ ~Walking
    BY <1>1, <1>2, DirtyFlush
  <1>4. SetCur(Cur) /\ SameSpot(Cur)
    BY <1>1, SameCur DEF SameSpot
  <1> QED BY <1>1, <1>2, <1>3, <1>4, SpotStays

\* fat_flush of a file that has no cluster yet.
LEMMA FlushAllocateChains ==
  ASSUME TypeOK, VolumeInv, AccessInv, FirstInv, NEW rank \in Ranks, RankInv(rank),
         NEW k \in FatIndex, FlushAllocate(k)
  PROVE  \E next \in Ranks : RankInv(next)'
  <1> DEFINE f == [Cur EXCEPT !.first = k, !.cluster = k, !.sector = SectorOf(k),
                              !.sectors_left = SectorsPerCluster - 1,
                              !.flags = @ \cup {"FS_DIRTY"}]
  <1>1. k \in Clusters /\ fat[k] = 0 /\ owner[k] = 0 /\ k # 0
    BY FreeIsCluster, Markers DEF FlushAllocate, VolumeInv
  <1>2. /\ pc = "flush" /\ "DIRTY" \in Cur.flags /\ Cur.sector = 0 /\ Claim(k, k)
        /\ pc' = "data" /\ SetCur(f) /\ dir' = dir /\ call' = call
    BY <1>1 DEF FlushAllocate
  <1>3. Cur \in FileS /\ call.fd \in Handles
    BY CurType
  <1>4. "WRITE" \in Cur.flags /\ ~Walking /\ IsOpen(call.fd)
    BY <1>2, DirtyFlush
  <1>5. Cur.first = 0
    <2> SUFFICES ASSUME Cur.first # 0 PROVE FALSE
      OBVIOUS
    <2>1. Cur.cluster \in Clusters /\ rank[Cur.cluster] >= 0 /\ Aligned(rank, Cur)
      BY <1>4, CurStands
    <2>2. Cur.sector \in Sectors
      BY <1>3, <2>1, StandingAt
    <2> QED BY <1>2, <2>2 DEF Sectors
  <1>6. Unstored(Cur) /\ Cur.size <= SectorSize
    BY <1>3, <1>4, <1>5 DEF VolumeInv, HandleInv, FilesInv, RankInv, SizesInv, Cur
  <1>7. /\ f.first = k /\ f.cluster = k /\ f.sector = SectorOf(k) /\ f.size = Cur.size
        /\ f.sectors_left = SectorsPerCluster - 1 /\ f.file_sector = 0
        /\ f.cursor = Cur.cursor /\ f.flags = Cur.flags \cup {"FS_DIRTY"}
    BY <1>3, <1>6 DEF FileS, Unstored
  <1> HIDE DEF f
  <1>8. PICK next \in Ranks : Chained(next)' /\ Extends(rank, next) /\ next[k] = 0
    BY <1>1, <1>2, NewChain DEF VolumeInv, RankInv
  <1>9. /\ owner'[k] = k /\ \A c \in FatIndex : fat'[c] = IF c = k THEN EndMarker ELSE fat[c]
    BY <1>2 DEF Claim, TypeOK
  <1>10. Aligned(next, f)
    <2>1. PlacedAt(f, f.cluster)
      BY <1>1, <1>7, FirstSectorPlaced
    <2> QED BY <1>7, <1>8, <2>1, GeometryAssumption DEF Aligned
  <1>11. f.size <= (next[k] + 1) * ClusterBytes
    <2>1. (0 + 1) * ClusterBytes = ClusterBytes /\ SectorSize <= ClusterBytes
      <3>1. SectorsPerCluster \in Nat \ {0} /\ SectorSize \in Nat
        BY GeometryAssumption
      <3>2. 1 * SectorSize <= SectorsPerCluster * SectorSize
        BY <3>1, MulMonotone
      <3> QED BY <3>1, <3>2, PositiveSizes DEF ClusterBytes
    <2>2. Cur.size \in Nat /\ ClusterBytes \in Nat /\ SectorSize \in Nat
      BY <1>3, PositiveSizes, GeometryAssumption DEF FileS
    <2> QED BY <1>6, <1>7, <1>8, <2>1, <2>2
  <1>12. Cur' = f /\ Pos(f) = Pos(Cur)
    BY <1>2, <1>6, <1>7, CurAfter DEF Pos, Unstored
  <1>13. CrossInv(next)' /\ ~Walking' /\ ~Loading'
    BY <1>2, NotCrossing DEF Walking, Loading, Crossing, Linked
  <1>14. SeekerInv(next)'
    <2>1. CASE ~call.seeking
      BY <1>2, <2>1, NotSeeking
    <2>2. CASE call.seeking
      <3>1. SeekFlushing /\ WriterSeeks /\ call.flush = "seek" /\ ~RiskySeek(Cur, call.new)
        BY <1>2, <2>2, DirtyFlush
      <3>2. SeekFlushing' /\ Pos(f) = call.old
        BY <1>2, <1>12, <3>1 DEF SeekFlushing, RankInv, SeekerInv
      <3>3. ~(Cardinality({c \in FatIndex : fat[c] = 0}) < 2)
        BY <1>2, <1>4, <3>1 DEF RiskySeek
      <3>4. Room(next)'
        BY <1>9, <3>3, FreeTwo DEF Room
      <3>5. Pos(Cur)' = Pos(f)
        BY <1>12 DEF Pos
      <3> QED BY <1>2, <1>12, <1>13, <3>2, <3>4, <3>5 DEF SeekerInv
    <2> QED BY <2>1, <2>2
  <1>15. RankInv(next)'
    <2>1. /\ f.first = 0 => f.size <= SectorSize
          /\ \E c \in Clusters : /\ owner'[c] = f.first /\ next[c] >= 0
                                 /\ f.size <= (next[c] + 1) * ClusterBytes
      BY <1>1, <1>7, <1>8, <1>9, <1>11
    <2>2. f.cluster \in Clusters /\ owner'[f.cluster] = f.first /\ next[f.cluster] >= 0
      BY <1>1, <1>7, <1>8, <1>9
    <2>3. call'.fd = call.fd
      BY <1>2
    <2> QED BY <1>2, <1>4, <1>8, <1>10, <1>13, <1>14, <2>1, <2>2, <2>3, DirSame, CurMoves
  <1> QED BY <1>15

\* Every step of fat_flush.
LEMMA FlushChains ==
  ASSUME SafeUse, TypeOK, VolumeInv, AccessInv, FirstInv, NEW rank \in Ranks, RankInv(rank),
         FlushStep
  PROVE  \E next \in Ranks : RankInv(next)'
  BY FlushCleanChains, FlushFailsChains, FlushWriteChains, FlushAllocateChains DEF FlushStep

-----------------------------------------------------------------------------
(* fat_flush_fileinfo. *)

\* fat_flush_fileinfo returns, the directory entry written or not.
LEMMA InfoReturns ==
  ASSUME TypeOK, VolumeInv, AccessInv, FirstInv, NEW rank \in Ranks, RankInv(rank), pc = "info",
         NEW f, SetCur(f), SameSpot(f), call' = call, UNCHANGED <<fat, owner>>,
         NEW ok \in BOOLEAN, pc' = AfterInfo(ok),
         \A s \in Slots : Live(s)' =>
           \/ Live(s) /\ dir'[s].first = dir[s].first /\ dir'[s].size = dir[s].size
           \/ Cur.first # 0 /\ dir'[s].first = Cur.first /\ dir'[s].size = Cur.size
  PROVE  RankInv(rank)'
  <1>1. Chained(rank)' /\ Extends(rank, rank) /\ IsOpen(call.fd) /\ Cur' = f
    BY ChainsSame, FlushRunning, CurAfter DEF RankInv
  <1>2. WriterSeeks => "DIRTY" \notin f.flags
    BY DEF RankInv, SeekerInv, SameSpot
  <1>3. CASE call.info = "flush"
    <2>1. pc' = AfterFlush(TRUE)
      BY <1>3 DEF AfterInfo
    <2> QED BY <1>1, <1>2, <1>3, <2>1, FlushReturns
  <1>4. CASE call.info = "next"
    <2>1. Linked /\ OwnCluster(call.res) /\ Cur.first # 0
      BY <1>4 DEF VolumeInv, CallInv, Linked, NeedsStored
    <2>2. call.res # Bad
      BY <2>1, Markers DEF OwnCluster
    <2>3. CASE call.next = "walk"
      <3>1. pc' = "walked" /\ Walking /\ Walking'
        BY <1>4, <2>3 DEF AfterInfo, AfterNext, Walking
      <3>2. CrossInv(rank)'
        BY <3>1 DEF CrossInv, Crossing
      <3>3. CASE ~WriterSeeks
        BY <1>1, <3>1, <3>2, <3>3, NotSeeking, SpotMoves DEF WriterSeeks, SameSpot
      <3>4. CASE WriterSeeks
        <4>1. /\ call.new <= Cur.size
              /\ InChain(rank, Cur.cluster, Cur.first) /\ rank[Cur.cluster] = call.i
              /\ call.i <= call.new \div ClusterBytes
              /\ call.i < call.new \div ClusterBytes
              /\ InChain(rank, call.res, Cur.first) /\ rank[call.res] = call.i + 1
          BY <2>1, <3>1, <3>4 DEF RankInv, SeekerInv
        <4>2. Room(rank)
          BY <2>1, <3>4, <4>1 DEF RankInv, SeekerInv
        <4>3. RoomFor(rank, f)
          BY <1>1, <4>2, RoomStays DEF SameSpot
        <4>4. SeekerInv(rank)'
          BY <1>1, <1>2, <3>1, <3>4, <4>1, <4>3, ToWalk DEF SameSpot, InChain
        <4> QED BY <1>1, <3>1, <3>2, <4>4, SpotMoves
      <3> QED BY <3>3, <3>4
    <2>4. CASE call.next # "walk"
      <3>1. pc' = "select" /\ ~Walking /\ ~Walking' /\ Crossing /\ Loading /\ ~SeekFlushing
        BY <1>4, <2>1, <2>2, <2>4 DEF AfterInfo, AfterNext, Walking, Crossing, Loading, SeekFlushing
      <3>2. CrossInv(rank)'
        <4>1. "WRITE" \in Cur.flags =>
                Cur.sectors_left = 0 /\ rank[call.res] = rank[Cur.cluster] + 1
          BY <2>1, <3>1 DEF RankInv, CrossInv
        <4> QED BY <1>1, <4>1 DEF CrossInv, SameSpot
      <3>3. CASE ~WriterSeeks
        BY <1>1, <3>1, <3>2, <3>3, NotSeeking, SpotMoves DEF WriterSeeks, SameSpot
      <3>4. CASE WriterSeeks
        <4>1. Pos(Cur) = call.old /\ Cur.cursor = SectorSize /\ call.new <= Cur.size
          BY <3>1, <3>4 DEF RankInv, SeekerInv
        <4>2. Room(rank)
          BY <2>1, <3>4, <4>1 DEF RankInv, SeekerInv
        <4>3. RoomFor(rank, f) /\ Pos(f) = Pos(Cur)
          BY <1>1, <4>2, RoomStays DEF SameSpot, Pos
        <4>4. SeekerInv(rank)'
          BY <1>1, <1>2, <3>1, <3>4, <4>1, <4>3, ToLoading DEF SameSpot
        <4> QED BY <1>1, <3>1, <3>2, <4>4, SpotMoves
      <3> QED BY <3>3, <3>4
    <2> QED BY <2>3, <2>4
  <1>5. CASE call.info \notin {"flush", "next"}
    <2>1. pc' \in {"done", "fail"} /\ ~call'.seeking /\ ~Walking
      BY <1>5 DEF AfterInfo, AccessInv, Walking
    <2>2. SeekerInv(rank)' /\ CrossInv(rank)'
      BY <2>1, NotSeeking, NotCrossing
    <2> QED BY <1>1, <2>1, <2>2, SpotMoves
  <1> QED BY <1>3, <1>4, <1>5

\* Every step of fat_flush_fileinfo.
LEMMA InfoChains ==
  ASSUME SafeUse, TypeOK, VolumeInv, AccessInv, FirstInv, NEW rank \in Ranks, RankInv(rank),
         InfoStep
  PROVE  RankInv(rank)'
  <1>0. Cur \in FileS
    BY CurType
  <1>1. CASE InfoSkip \/ InfoUnreadable
    <2>1. /\ pc = "info" /\ \E ok \in BOOLEAN : pc' = AfterInfo(ok)
          /\ UNCHANGED <<fat, dir, owner, file_num, call>>
      BY <1>1 DEF InfoSkip, InfoUnreadable, NoWrite
    <2>2. SetCur(Cur) /\ SameSpot(Cur)
      BY <2>1, SameCur DEF SameSpot
    <2> QED BY <2>1, <2>2, DirSame, InfoReturns
  <1>2. ASSUME NEW s \in Slots, InfoWrite(s) PROVE RankInv(rank)'
    <2>1. PICK f : /\ SetCur(f) /\ \E ok \in BOOLEAN : pc' = AfterInfo(ok)
                   /\ f \in {Saved(Cur, s), [Cur EXCEPT !.entry = s, !.buffer = MetaBlock]}
      BY <1>2 DEF InfoWrite
    <2>2. SameSpot(f)
      BY <1>0, <2>1 DEF Saved, SameSpot, FileS
    <2>3. /\ pc = "info" /\ UNCHANGED <<fat, owner, call>> /\ Cur.first # 0
          /\ dir' = [dir EXCEPT ![s] = EntryOf(Cur)]
      BY <1>2 DEF InfoWrite, NothingToSave
    <2>4. \A t \in Slots : Live(t)' =>
           \/ Live(t) /\ dir'[t].first = dir[t].first /\ dir'[t].size = dir[t].size
           \/ Cur.first # 0 /\ dir'[t].first = Cur.first /\ dir'[t].size = Cur.size
      BY <2>3 DEF TypeOK, Live, EntryOf
    <2> QED BY <2>1, <2>2, <2>3, <2>4, InfoReturns
  <1>3. CASE InfoLost
    <2>1. /\ pc = "info" /\ pc' = "lost"
          /\ UNCHANGED <<fat, dir, owner, file_num, call>>
      BY <1>3 DEF InfoLost, NoWrite
    <2>2. SetCur(Cur) /\ SameSpot(Cur) /\ Walking'
      BY <2>1, SameCur DEF SameSpot, Walking
    <2>3. CrossInv(rank)'
      BY <2>1, NotCrossing
    <2>4. SeekerInv(rank)'
      BY <2>1 DEF RankInv, SeekerInv, WriterSeeks, SeekFlushing, Loading, Crossing, Linked, Room,
                  Reaches, InChain, Cur
    <2>5. Chained(rank)' /\ Extends(rank, rank) /\ IsOpen(call.fd)
      BY <2>1, ChainsSame, FlushRunning DEF RankInv
    <2> QED BY <2>1, <2>2, <2>3, <2>4, <2>5, DirSame, SpotMoves
  <1> QED BY <1>1, <1>2, <1>3, DirectoryWorks DEF InfoStep

-----------------------------------------------------------------------------
(* fat_next_sector. *)

\* A sector is loaded: fat_next_sector returns.
LEMMA SectorLoaded ==
  ASSUME TypeOK, VolumeInv, NEW rank \in Ranks, RankInv(rank), pc \in {"sector", "select"},
         UNCHANGED <<fat, dir, owner, call>>, NEW ok \in BOOLEAN, pc' = AfterSector(ok),
         NEW f, SetCur(f), f.first = Cur.first, f.size = Cur.size, f.flags = Cur.flags,
         f.cursor = 0, f.file_sector = Cur.file_sector + 1,
         "WRITE" \in f.flags => /\ f.cluster \in Clusters /\ owner[f.cluster] = f.first
                                /\ rank[f.cluster] >= 0 /\ Aligned(rank, f)
  PROVE  RankInv(rank)'
  <1>1. /\ Chained(rank)' /\ Extends(rank, rank) /\ IsOpen(call.fd) /\ Cur' = f
        /\ Cur.first # 0 /\ Cur \in FileS /\ call'.fd = call.fd
    BY ChainsSame, CurAfter, AtStored DEF RankInv
  <1>2. pc' \in {"case", "byte", "done", "fail"} /\ (pc' = "case" <=> call.seeking)
    BY DEF AfterSector
  <1>3. CrossInv(rank)' /\ ~Walking'
    BY <1>2, NotCrossing DEF Walking
  <1>4. SeekerInv(rank)'
    <2>1. CASE ~WriterSeeks
      BY <1>1, <2>1, NotSeeking DEF WriterSeeks
    <2>2. CASE WriterSeeks
      <3>1. Loading /\ pc' = "case" /\ ~SeekFlushing /\ pc # "flush" /\ pc # "chain"
        BY <1>2, <2>2 DEF Loading, Crossing, Linked, Walking, WriterSeeks, SeekFlushing
      <3>2. /\ Pos(Cur) = call.old /\ Cur.cursor = SectorSize /\ call.new <= Cur.size
            /\ "DIRTY" \notin Cur.flags
        BY <2>2, <3>1 DEF RankInv, SeekerInv
      <3>3. Room(rank)
        BY <1>1, <2>2, <3>1, <3>2 DEF RankInv, SeekerInv
      <3>4. RoomFor(rank, f)
        BY <1>1, <3>3, RoomStays
      <3>5. Pos(f) = Pos(Cur) /\ f.cursor < SectorSize
        <4> DEFINE n == Cur.file_sector
                   b == SectorSize
        <4>1. n \in Nat /\ b \in Nat \ {0}
          BY <1>1, GeometryAssumption DEF FileS
        <4>2. Pos(f) = (n + 1) * b + 0 /\ Pos(Cur) = n * b + b
          BY <3>2 DEF Pos
        <4>3. f.cursor < b
          BY <4>1
        <4> HIDE DEF n, b
        <4>4. (n + 1) * b + 0 = n * b + b
          BY <4>1
        <4> QED BY <4>2, <4>3, <4>4 DEF b
      <3> QED BY <1>1, <3>1, <3>2, <3>4, <3>5, ToCase
    <2> QED BY <2>1, <2>2
  <1>5. f.first # 0
    BY <1>1
  <1> QED BY <1>1, <1>3, <1>4, <1>5, DirSame, CurMoves

\* The next sector of the same cluster.
LEMMA SectorHopChains ==
  ASSUME TypeOK, VolumeInv, NEW rank \in Ranks, RankInv(rank), SectorHop
  PROVE  RankInv(rank)'
  <1> DEFINE s == (Cur.sector + 1) % Word
             g == [Cur EXCEPT !.sectors_left = @ - 1, !.file_sector = @ + 1,
                              !.cursor = 0, !.sector = s]
  <1>1. /\ pc = "sector" /\ MoreSectors(Cur) /\ UNCHANGED <<fat, dir, owner, call>>
        /\ \E ok \in BOOLEAN : pc' = AfterSector(ok)
        /\ SetCur(g) \/ SetCur([g EXCEPT !.buffer = disk[s]])
    BY DEF SectorHop, NoWrite
  <1>2. Cur \in FileS /\ IsOpen(call.fd) /\ Cur.first # 0
    BY <1>1, AtStored
  <1>9. PICK f : SetCur(f) /\ f \in {g, [g EXCEPT !.buffer = disk[s]]}
    BY <1>1
  <1>3. /\ f.first = Cur.first /\ f.size = Cur.size /\ f.flags = Cur.flags
        /\ f.cursor = 0 /\ f.file_sector = Cur.file_sector + 1 /\ f.cluster = Cur.cluster
        /\ f.sectors_left = Cur.sectors_left - 1 /\ f.sector = s
    BY <1>2, <1>9 DEF FileS
  <1> HIDE DEF g
  <1>4. ASSUME "WRITE" \in Cur.flags
        PROVE  /\ f.cluster \in Clusters /\ owner[f.cluster] = f.first
               /\ rank[f.cluster] >= 0 /\ Aligned(rank, f)
    <2>1. ~Walking
      BY <1>1 DEF Walking
    <2>2. /\ Cur.cluster \in Clusters /\ owner[Cur.cluster] = Cur.first
          /\ rank[Cur.cluster] >= 0 /\ Aligned(rank, Cur)
      BY <1>2, <1>4, <2>1, CurStands
    <2>3. PlacedAt(Cur, Cur.cluster)
      BY <2>2 DEF Aligned
    <2>4. PlacedAt(f, f.cluster)
      BY <1>1, <1>2, <1>3, <2>2, <2>3, NextSectorPlaced DEF PlacedAt
    <2>5. f.file_sector = rank[f.cluster] * SectorsPerCluster
                            + (SectorsPerCluster - 1 - f.sectors_left)
      <3> DEFINE m == rank[Cur.cluster] * SectorsPerCluster
      <3>1. Cur.file_sector = m + (SectorsPerCluster - 1 - Cur.sectors_left)
        BY <2>2 DEF Aligned
      <3>2. m \in Int /\ SectorsPerCluster \in Int /\ Cur.sectors_left \in Int /\ Cur.file_sector \in Int
        BY <1>2, <2>2, GeometryAssumption DEF FileS, Ranks
      <3> HIDE DEF m
      <3>3. Cur.file_sector + 1 = m + (SectorsPerCluster - 1 - (Cur.sectors_left - 1))
        BY <3>1, <3>2
      <3> QED BY <1>3, <3>3 DEF m
    <2> QED BY <1>3, <2>2, <2>4, <2>5 DEF Aligned
  <1> QED BY <1>1, <1>9, <1>3, <1>4, SectorLoaded

\* The first sector of the cluster fetched.
LEMMA SelectClusterChains ==
  ASSUME TypeOK, VolumeInv, NEW rank \in Ranks, RankInv(rank), SelectCluster
  PROVE  RankInv(rank)'
  <1> DEFINE s == SectorOf(call.res)
             g == [Cur EXCEPT !.file_sector = @ + 1, !.sector = s,
                              !.sectors_left = SectorsPerCluster - 1,
                              !.cluster = call.res, !.cursor = 0]
  <1>1. /\ pc = "select" /\ UNCHANGED <<fat, dir, owner, call>>
        /\ \E ok \in BOOLEAN : pc' = AfterSector(ok)
        /\ SetCur(g) \/ SetCur([g EXCEPT !.buffer = disk[s]])
    BY DEF SelectCluster, NoWrite
  <1>2. Cur \in FileS /\ IsOpen(call.fd) /\ Cur.first # 0 /\ OwnCluster(call.res)
    BY <1>1, AtStored DEF VolumeInv, CallInv
  <1>9. PICK f : SetCur(f) /\ f \in {g, [g EXCEPT !.buffer = disk[s]]}
    BY <1>1
  <1>3. /\ f.first = Cur.first /\ f.size = Cur.size /\ f.flags = Cur.flags
        /\ f.cursor = 0 /\ f.file_sector = Cur.file_sector + 1 /\ f.cluster = call.res
        /\ f.sectors_left = SectorsPerCluster - 1 /\ f.sector = s
    BY <1>2, <1>9 DEF FileS
  <1> HIDE DEF g
  <1>4. ASSUME "WRITE" \in Cur.flags
        PROVE  /\ f.cluster \in Clusters /\ owner[f.cluster] = f.first
               /\ rank[f.cluster] >= 0 /\ Aligned(rank, f)
    <2>1. ~Walking /\ Crossing /\ Linked
      BY <1>1 DEF Walking, Crossing, Linked
    <2>2. /\ Cur.cluster \in Clusters /\ owner[Cur.cluster] = Cur.first
          /\ rank[Cur.cluster] >= 0 /\ Aligned(rank, Cur)
      BY <1>2, <1>4, <2>1, CurStands
    <2>3. Cur.sectors_left = 0 /\ rank[call.res] = rank[Cur.cluster] + 1
      BY <1>4, <2>1 DEF RankInv, CrossInv
    <2>4. PlacedAt(f, f.cluster)
      BY <1>2, <1>3, FirstSectorPlaced DEF OwnCluster
    <2>5. f.file_sector = rank[f.cluster] * SectorsPerCluster
                            + (SectorsPerCluster - 1 - f.sectors_left)
      <3> DEFINE r == rank[Cur.cluster]
                 n == SectorsPerCluster
                 q == Cur.file_sector
      <3>1. q = r * n + (n - 1 - 0)
        BY <2>2, <2>3 DEF Aligned
      <3>2. r \in Int /\ n \in Int /\ q \in Int
        BY <1>2, <2>2, GeometryAssumption DEF FileS, Ranks
      <3> HIDE DEF r, n, q
      <3>3. q + 1 = (r + 1) * n + (n - 1 - (n - 1))
        BY <3>1, <3>2
      <3> QED BY <1>3, <2>3, <3>3 DEF r, n, q
    <2>6. rank[f.cluster] >= 0
      BY <1>3, <2>2, <2>3 DEF Ranks
    <2> QED BY <1>2, <1>3, <2>4, <2>5, <2>6 DEF Aligned, OwnCluster
  <1> QED BY <1>1, <1>9, <1>3, <1>4, SectorLoaded

\* The cluster is used up.
LEMMA SectorEndChains ==
  ASSUME TypeOK, VolumeInv, NEW rank \in Ranks, RankInv(rank), SectorEnd
  PROVE  RankInv(rank)'
  <1>0. call \in Calls
    BY DEF TypeOK
  <1>1. /\ pc = "sector" /\ ~MoreSectors(Cur) /\ UNCHANGED <<fat, dir, owner, file_num>> /\ pc' = "next"
        /\ call'.next = "sector" /\ call'.fd = call.fd /\ call'.seeking = call.seeking
        /\ call'.old = call.old /\ call'.new = call.new
    BY <1>0 DEF SectorEnd, NoWrite, Calls
  <1>2. Cur \in FileS /\ IsOpen(call.fd) /\ Cur.first # 0
    BY <1>1, AtStored
  <1>3. SetCur(Cur) /\ SameSpot(Cur) /\ Cur' = Cur
    BY <1>1, SameCur, CurAfter DEF SameSpot
  <1>4. Chained(rank)' /\ Extends(rank, rank)
    BY <1>1, ChainsSame DEF RankInv
  <1>5. ~Walking /\ ~Walking' /\ ~Linked' /\ Loading /\ ~SeekFlushing /\ pc # "flush"
    BY <1>1 DEF Walking, Loading, Linked, SeekFlushing
  <1>6. Cur.sectors_left = 0
    BY <1>1, <1>2 DEF MoreSectors, FileS
  <1>7. CrossInv(rank)'
    BY <1>3, <1>5, <1>6 DEF CrossInv
  <1>8. SeekerInv(rank)'
    <2>1. CASE ~WriterSeeks
      BY <1>1, <1>3, <2>1, NotSeeking DEF WriterSeeks
    <2>2. CASE WriterSeeks
      <3>1. /\ Pos(Cur) = call.old /\ Cur.cursor = SectorSize /\ call.new <= Cur.size
            /\ "DIRTY" \notin Cur.flags /\ Room(rank)
        BY <1>1, <1>2, <1>5, <2>2 DEF RankInv, SeekerInv
      <3>2. RoomFor(rank, Cur)
        BY <1>1, <1>4, <3>1, RoomStays
      <3> QED BY <1>1, <1>3, <1>5, <3>1, <3>2, ToLoading
    <2> QED BY <2>1, <2>2
  <1> QED BY <1>1, <1>2, <1>3, <1>4, <1>5, <1>7, <1>8, DirSame, SpotMoves

-----------------------------------------------------------------------------
(* fat_next_cluster. *)

\* The file at fat_next_cluster.
LEMMA AtNext ==
  ASSUME TypeOK, VolumeInv, AccessInv, NEW rank \in Ranks, RankInv(rank), pc \in {"next", "chain"}
  PROVE  /\ IsOpen(call.fd) /\ Cur.first # 0 /\ Cur.first \in Clusters
         /\ owner[Cur.first] = Cur.first /\ Cur \in FileS /\ call \in Calls
         /\ Walking <=> call.next = "walk"
         /\ Crossing <=> ~Walking
         /\ Walking /\ "WRITE" \in Cur.flags => WriterSeeks
         /\ "WRITE" \in Cur.flags => /\ Cur.cluster \in Clusters /\ owner[Cur.cluster] = Cur.first
                                     /\ rank[Cur.cluster] >= 0
  <1>1. /\ IsOpen(call.fd) /\ Cur.first # 0 /\ Cur.first \in Clusters
        /\ owner[Cur.first] = Cur.first /\ Cur \in FileS /\ call \in Calls
    BY AtStored DEF StoredFile
  <1>2. (Walking <=> call.next = "walk") /\ (Crossing <=> ~Walking)
    BY DEF Walking, Crossing
  <1>3. Walking /\ "WRITE" \in Cur.flags => WriterSeeks
    BY <1>2 DEF AccessInv, WriterSeeks
  <1>4. ASSUME "WRITE" \in Cur.flags
        PROVE  /\ Cur.cluster \in Clusters /\ owner[Cur.cluster] = Cur.first
               /\ rank[Cur.cluster] >= 0
    <2>1. CASE Walking
      BY <1>3, <1>4, <2>1 DEF RankInv, SeekerInv, InChain
    <2>2. CASE ~Walking
      BY <1>1, <1>4, <2>2, CurStands
    <2> QED BY <2>1, <2>2
  <1> QED BY <1>1, <1>2, <1>3, <1>4

\* What a seeking writer knows at fat_next_cluster.
LEMMA SeekerAtNext ==
  ASSUME TypeOK, VolumeInv, AccessInv, NEW rank \in Ranks, RankInv(rank),
         pc \in {"next", "chain"}, WriterSeeks
  PROVE  /\ "WRITE" \in Cur.flags /\ call.seeking /\ call.new <= Cur.size
         /\ "DIRTY" \notin Cur.flags /\ Faulty = {}
         /\ ~Walking => Pos(Cur) = call.old /\ Cur.cursor = SectorSize
         /\ Walking => /\ rank[Cur.cluster] = call.i
                       /\ call.i <= call.new \div ClusterBytes
                       /\ call.i < call.new \div ClusterBytes
         /\ pc # "chain" => Room(rank)
  <1>1. SeekerInv(rank) /\ "WRITE" \in Cur.flags /\ call.seeking /\ Faulty = {}
    BY DEF RankInv, WriterSeeks, AccessInv
  <1>2. ~SeekFlushing /\ (~Walking => Loading) /\ Cur.first # 0
    BY AtNext DEF SeekFlushing, Loading
  <1>3. /\ ~Walking => Pos(Cur) = call.old /\ Cur.cursor = SectorSize /\ call.new <= Cur.size
        /\ Walking => /\ rank[Cur.cluster] = call.i /\ call.new <= Cur.size
                      /\ call.i <= call.new \div ClusterBytes
                      /\ call.i < call.new \div ClusterBytes
        /\ "DIRTY" \notin Cur.flags
    BY <1>1, <1>2 DEF SeekerInv
  <1>4. pc # "chain" => Room(rank)
    BY <1>1, <1>2, <1>3 DEF SeekerInv
  <1> QED BY <1>1, <1>3, <1>4

\* fat_next_cluster follows a link.
LEMMA NextLinkChains ==
  ASSUME TypeOK, VolumeInv, AccessInv, NEW rank \in Ranks, RankInv(rank), NextLink
  PROVE  RankInv(rank)'
  <1> DEFINE f == [Cur EXCEPT !.buffer = MetaBlock]
             j == fat[Cur.cluster]
  <1>1. /\ pc = "next" /\ Cur.cluster \in FatIndex /\ j < EndMarker
        /\ NextReturn(IF j < 2 THEN Bad ELSE j) /\ SetCur(f) /\ UNCHANGED <<fat, dir, owner>>
    BY DEF NextLink, NoWrite
  <1>2. Cur \in FileS /\ IsOpen(call.fd) /\ Cur.first # 0 /\ StoredFile(Cur) /\ call \in Calls
    BY <1>1, AtStored
  <1>3. /\ Cur.cluster \in Clusters /\ owner[Cur.cluster] = Cur.first
        /\ j \in Clusters /\ owner[j] = Cur.first
    <2>1. Cur.cluster \in Clusters /\ owner[Cur.cluster] = Cur.first
      BY <1>1, <1>2, Markers DEF StoredFile
    <2>2. j \in {0, EndMarker} \cup Clusters /\ j # EndMarker
      BY <1>1, <2>1, GeometryAssumption DEF VolumeInv, FatInv, EndMarker
    <2>3. j # 0
      BY <1>2, <2>1 DEF VolumeInv, FatInv
    <2> QED BY <2>1, <2>2, <2>3 DEF VolumeInv, FatInv
  <1>4. /\ pc' = IF call.next = "walk" THEN "walked" ELSE "select"
        /\ call'.res = j /\ call'.fd = call.fd /\ call'.seeking = call.seeking
        /\ call'.old = call.old /\ call'.new = call.new /\ call'.i = call.i
        /\ call'.next = call.next
    <2>1. ~(j < 2) /\ j # Bad
      BY <1>3, Markers DEF Clusters
    <2> QED BY <1>1, <1>2, <2>1 DEF NextReturn, AfterNext, Calls
  <1>5. SameSpot(f) /\ f.flags = Cur.flags /\ Cur' = f /\ Pos(f) = Pos(Cur)
    BY <1>1, <1>2, <1>4, CurAfter DEF SameSpot, FileS, Pos
  <1> HIDE DEF f
  <1>6. Chained(rank)' /\ Extends(rank, rank)
    BY <1>1, ChainsSame DEF RankInv
  <1>7. (Walking <=> Walking') /\ (Walking <=> call.next = "walk")
    BY <1>1, <1>4, AtNext DEF Walking
  <1>8. "WRITE" \in Cur.flags => rank[Cur.cluster] >= 0 /\ rank[j] = rank[Cur.cluster] + 1
    BY <1>1, <1>3, AtNext DEF RankInv, Chained
  <1>9. CrossInv(rank)'
    <2>1. CASE Walking
      BY <1>7, <2>1 DEF CrossInv, Crossing
    <2>2. CASE ~Walking
      <3>1. "WRITE" \in Cur.flags => Cur.sectors_left = 0
        BY <1>1, <2>2 DEF RankInv, CrossInv, Crossing
      <3> QED BY <1>4, <1>5, <1>8, <3>1 DEF CrossInv, SameSpot
    <2> QED BY <2>1, <2>2
  <1>10. SeekerInv(rank)'
    <2>1. CASE ~WriterSeeks
      BY <1>4, <1>5, <2>1, NotSeeking DEF WriterSeeks
    <2>2. CASE WriterSeeks
      <3>1. /\ "WRITE" \in Cur.flags /\ call.new <= Cur.size /\ "DIRTY" \notin Cur.flags
            /\ ~Walking => Pos(Cur) = call.old /\ Cur.cursor = SectorSize
            /\ Walking => /\ rank[Cur.cluster] = call.i
                          /\ call.i <= call.new \div ClusterBytes
                          /\ call.i < call.new \div ClusterBytes
            /\ Room(rank)
        BY <1>1, <2>2, SeekerAtNext
      <3>2. RoomFor(rank, f)
        BY <1>1, <1>4, <1>5, <1>6, <3>1, RoomStays DEF SameSpot
      <3>3. CASE Walking
        <4>1. pc' = "walked" /\ Walking'
          BY <1>4, <1>7, <3>3
        <4>2. rank[j] >= 0 /\ rank[j] = call.i + 1
          <5>1. rank[Cur.cluster] \in Int
            BY <1>3 DEF Ranks
          <5> QED BY <1>8, <3>1, <3>3, <5>1
        <4> QED BY <1>1, <1>3, <1>4, <1>5, <1>8, <3>1, <3>2, <3>3, <4>1, <4>2, ToWalk DEF SameSpot
      <3>4. CASE ~Walking
        BY <1>4, <1>5, <1>7, <3>1, <3>2, <3>4, ToLoading DEF SameSpot
      <3> QED BY <3>3, <3>4
    <2> QED BY <2>1, <2>2
  <1> QED BY <1>1, <1>2, <1>4, <1>5, <1>6, <1>7, <1>9, <1>10, DirSame, SpotMoves

\* fat_next_cluster gives up: never under a seeking writer, unless the chain ends
\* where the file does.
LEMMA NextFails ==
  ASSUME TypeOK, VolumeInv, AccessInv, NEW rank \in Ranks, RankInv(rank),
         pc \in {"next", "chain"}, ~WriterSeeks, NextReturn(Bad), UNCHANGED <<fat, dir, owner>>,
         NEW f, SetCur(f), SameSpot(f)
  PROVE  RankInv(rank)'
  <1>1. call \in Calls /\ IsOpen(call.fd)
    BY AtNext
  <1>2. /\ call'.fd = call.fd /\ call'.seeking = call.seeking
        /\ call.next = "walk" => pc' = "walked"
        /\ call.next # "walk" => pc' = AfterSector(FALSE)
    BY <1>1 DEF NextReturn, AfterNext, Calls
  <1>3. Chained(rank)' /\ Extends(rank, rank) /\ Cur' = f
    BY <1>2, ChainsSame, CurAfter DEF RankInv
  <1>4. Walking => Walking'
    BY <1>2, AtNext DEF Walking
  <1>5. pc' \in {"walked", "case", "done", "fail"}
    BY <1>2 DEF AfterSector
  <1>6. CrossInv(rank)' /\ SeekerInv(rank)'
    BY <1>2, <1>3, <1>5, NotCrossing, NotSeeking DEF WriterSeeks, SameSpot
  <1> QED BY <1>1, <1>2, <1>3, <1>4, <1>6, DirSame, SpotMoves

\* A chain that must be extended for a seek, on a full volume, was reached at
\* its end: fat_lseek goes back from there.
LEMMA SeekFromTheEnd ==
  ASSUME TypeOK, VolumeInv, AccessInv, NEW rank \in Ranks, RankInv(rank), pc = "next",
         WriterSeeks, fat[Cur.cluster] = EndMarker, VolumeFull
  PROVE  /\ ~Walking /\ call.new < call.old /\ call.old % ClusterBytes = 0
         /\ Reaches(rank, Cur.first, call.new)
  <1> DEFINE e == Cur.cluster
             n == call.new
             C == ClusterBytes
  <1>1. /\ "WRITE" \in Cur.flags /\ IsOpen(call.fd) /\ Cur.first # 0 /\ Cur \in FileS
        /\ e \in Clusters /\ owner[e] = Cur.first /\ rank[e] >= 0
        /\ Crossing <=> ~Walking
    BY AtNext DEF WriterSeeks
  <1>2. /\ Room(rank)
        /\ ~Walking => Pos(Cur) = call.old /\ Cur.cursor = SectorSize
        /\ Walking => rank[e] = call.i /\ call.i < n \div C
    BY SeekerAtNext
  <1>3. Reaches(rank, Cur.first, n)
    BY <1>2 DEF Room, VolumeFull
  <1>4. PICK c \in Clusters : owner[c] = Cur.first /\ rank[c] >= 0 /\ n < (rank[c] + 1) * C
    BY <1>3 DEF Reaches, InChain
  <1>5. rank[c] <= rank[e]
    BY <1>1, <1>4 DEF RankInv, Chained
  <1>6. /\ rank[c] \in Nat /\ rank[e] \in Nat /\ n \in Nat /\ C \in Nat \ {0}
    <2>1. rank[c] \in Int /\ rank[e] \in Int
      BY <1>1 DEF Ranks
    <2>2. n \in Nat
      BY DEF TypeOK, Calls
    <2> QED BY <1>1, <1>4, <2>1, <2>2, PositiveSizes
  <1>7. n \div C \in Nat /\ n \div C <= rank[c]
    BY <1>4, <1>6, ClusterEnds, PositiveSizes
  <1>8. ~Walking
    BY <1>2, <1>5, <1>6, <1>7
  <1>9. Aligned(rank, Cur)
    BY <1>1, <1>8, CurStands
  <1>10. Cur.sectors_left = 0 /\ Cur.cursor = SectorSize
    BY <1>1, <1>2, <1>8 DEF RankInv, CrossInv
  <1>11. Pos(Cur) = (rank[e] + 1) * C
    BY <1>1, <1>9, <1>10, StandingAt
  <1>12. n < (rank[e] + 1) * C
    <2>1. (rank[c] + 1) * C \in Nat /\ (rank[e] + 1) * C \in Nat
          /\ (rank[c] + 1) * C <= (rank[e] + 1) * C
      <3> DEFINE a == rank[c] + 1
                 b == rank[e] + 1
      <3>1. a \in Nat /\ b \in Nat /\ a <= b
        BY <1>5, <1>6
      <3> HIDE DEF a, b, C
      <3>2. a * C \in Nat /\ b * C \in Nat /\ a * C <= b * C
        BY <1>6, <3>1, MulMonotone
      <3> QED BY <3>2 DEF a, b
    <2> HIDE DEF C, n
    <2> QED BY <1>4, <1>6, <2>1
  <1>13. ((rank[e] + 1) * C) % C = 0
    BY <1>6, ClusterEnds
  <1>14. call.old = (rank[e] + 1) * C
    BY <1>2, <1>8, <1>11
  <1> QED BY <1>3, <1>8, <1>12, <1>13, <1>14

\* fat_next_cluster stands at the end of a chain it cannot extend.
LEMMA NextEndChains ==
  ASSUME TypeOK, VolumeInv, AccessInv, NEW rank \in Ranks, RankInv(rank), NextEnd
  PROVE  RankInv(rank)'
  <1> DEFINE f == [Cur EXCEPT !.buffer = MetaBlock]
  <1>1. /\ pc = "next" /\ fat[Cur.cluster] = EndMarker
        /\ NextReturn(Bad) /\ SetCur(f) /\ UNCHANGED <<fat, dir, owner>>
    BY DEF NextEnd, NoWrite
  <1>2. Cur \in FileS /\ IsOpen(call.fd) /\ Cur.first # 0 /\ call \in Calls
    BY <1>1, AtNext
  <1>3. /\ SameSpot(f) /\ f.flags = Cur.flags /\ Pos(f) = Pos(Cur)
    BY <1>2 DEF SameSpot, FileS, Pos
  <1> HIDE DEF f
  <1>4. CASE ~WriterSeeks
    BY <1>1, <1>3, <1>4, NextFails
  <1>5. CASE WriterSeeks
    <2>1. /\ "WRITE" \in Cur.flags /\ call.seeking /\ call.new <= Cur.size
          /\ "DIRTY" \notin Cur.flags /\ Faulty = {}
      BY <1>1, <1>5, SeekerAtNext
    <2>2. VolumeFull
      BY <2>1 DEF NextEnd, Fault
    <2>3. /\ ~Walking /\ call.new < call.old /\ call.old % ClusterBytes = 0
          /\ Reaches(rank, Cur.first, call.new)
      BY <1>1, <1>5, <2>2, SeekFromTheEnd
    <2>4. call.next # "walk"
      BY <1>1, <2>3, AtNext
    <2>5. /\ pc' = "case" /\ call'.fd = call.fd /\ call'.seeking = call.seeking
          /\ call'.old = call.old /\ call'.new = call.new
      BY <1>1, <1>2, <2>1, <2>4 DEF NextReturn, AfterNext, AfterSector, Calls
    <2>6. Chained(rank)' /\ Extends(rank, rank) /\ Cur' = f
      BY <1>1, <2>5, ChainsSame, CurAfter DEF RankInv
    <2>7. RoomFor(rank, f)
      BY <1>1, <1>3, <2>3, <2>5, <2>6, RoomStays DEF Room, SameSpot
    <2>8. CrossInv(rank)' /\ SeekerInv(rank)'
      BY <1>3, <2>1, <2>3, <2>5, <2>6, <2>7, ToCase DEF SameSpot
    <2> QED BY <1>1, <1>2, <1>3, <2>3, <2>5, <2>6, <2>8, DirSame, SpotMoves
  <1> QED BY <1>4, <1>5

\* fat_next_cluster cannot read the FAT, or cannot write the link.
LEMMA NextBreaksChains ==
  ASSUME TypeOK, VolumeInv, AccessInv, NEW rank \in Ranks, RankInv(rank),
         NextUnreadable \/ NextChainFails
  PROVE  RankInv(rank)'
  <1>1. /\ pc \in {"next", "chain"} /\ NextReturn(Bad) /\ UNCHANGED <<fat, dir, owner, file_num>>
    BY DEF NextUnreadable, NextChainFails, NoWrite
  <1>2. ~WriterSeeks
    <2> SUFFICES ASSUME WriterSeeks PROVE FALSE
      OBVIOUS
    <2>1. "WRITE" \in Cur.flags /\ Faulty = {}
      BY DEF WriterSeeks, AccessInv
    <2>2. Cur.cluster \in Clusters
      BY <1>1, <2>1, AtNext
    <2> QED BY <2>1, <2>2, Markers DEF NextUnreadable, NextChainFails, Fault
  <1>3. SetCur(Cur) /\ SameSpot(Cur)
    BY <1>1, SameCur DEF SameSpot
  <1> QED BY <1>1, <1>2, <1>3, NextFails

\* fat_next_cluster takes a free cluster.
LEMMA NextAllocateChains ==
  ASSUME TypeOK, VolumeInv, AccessInv, NEW rank \in Ranks, RankInv(rank),
         NEW k \in FatIndex, NextAllocate(k)
  PROVE  RankInv(rank)'
  <1> DEFINE f == [Cur EXCEPT !.buffer = MetaBlock]
  <1>1. k \in Clusters /\ fat[k] = 0 /\ owner[k] = 0 /\ k # 0
    BY FreeIsCluster, Markers DEF NextAllocate, VolumeInv
  <1>2. /\ pc = "next" /\ "WRITE" \in Cur.flags /\ Claim(k, Cur.first) /\ pc' = "chain"
        /\ call' = [call EXCEPT !.res = k] /\ SetCur(f) /\ dir' = dir
    BY <1>1 DEF NextAllocate
  <1>3. /\ Cur \in FileS /\ IsOpen(call.fd) /\ call \in Calls
        /\ Cur.first \in Clusters /\ owner[Cur.first] = Cur.first
        /\ Cur.cluster \in Clusters /\ owner[Cur.cluster] = Cur.first /\ rank[Cur.cluster] >= 0
    BY <1>2, AtNext
  <1>4. /\ call'.fd = call.fd /\ call'.seeking = call.seeking /\ call'.next = call.next
        /\ call'.old = call.old /\ call'.new = call.new /\ call'.i = call.i
    BY <1>2, <1>3 DEF Calls
  <1>5. /\ SameSpot(f) /\ f.flags = Cur.flags /\ Cur' = f /\ Pos(f) = Pos(Cur)
    BY <1>2, <1>3, <1>4, CurAfter DEF SameSpot, FileS, Pos
  <1> HIDE DEF f
  <1>6. Chained(rank)' /\ Extends(rank, rank)
    <2>1. Cur.first # k
      BY <1>1, <1>3, Markers
    <2> QED BY <1>1, <1>2, <1>3, <2>1, ClaimedUnranked DEF VolumeInv, RankInv
  <1>7. (Walking <=> Walking') /\ (Crossing <=> ~Walking) /\ ~Linked'
    BY <1>2, <1>4, AtNext DEF Walking, Linked
  <1>8. CrossInv(rank)'
    <2>1. CASE Walking
      BY <1>7, <2>1 DEF CrossInv, Crossing
    <2>2. CASE ~Walking
      <3>1. Cur.sectors_left = 0
        BY <1>2, <1>7, <2>2 DEF RankInv, CrossInv
      <3> QED BY <1>5, <1>7, <3>1 DEF CrossInv, SameSpot
    <2> QED BY <2>1, <2>2
  <1>9. SeekerInv(rank)'
    <2>1. CASE ~WriterSeeks
      BY <1>4, <1>5, <2>1, NotSeeking DEF WriterSeeks
    <2>2. CASE WriterSeeks
      <3>1. /\ call.new <= Cur.size /\ "DIRTY" \notin Cur.flags
            /\ ~Walking => Pos(Cur) = call.old /\ Cur.cursor = SectorSize
            /\ Walking => /\ rank[Cur.cluster] = call.i
                          /\ call.i <= call.new \div ClusterBytes
                          /\ call.i < call.new \div ClusterBytes
        BY <1>2, <2>2, SeekerAtNext
      <3>2. CASE Walking
        <4>1. owner'[Cur.cluster] = owner[Cur.cluster]
          BY <1>3, <1>6 DEF Extends
        <4> QED BY <1>2, <1>3, <1>4, <1>5, <1>7, <3>1, <3>2, <4>1, ToWalk DEF SameSpot
      <3>3. CASE ~Walking
        BY <1>2, <1>4, <1>5, <1>7, <3>1, <3>3, ToLoading DEF SameSpot
      <3> QED BY <3>2, <3>3
    <2> QED BY <2>1, <2>2
  <1> QED BY <1>2, <1>3, <1>4, <1>5, <1>6, <1>7, <1>8, <1>9, DirSame, SpotMoves

\* The chain one cluster longer reaches every byte of its file, and more.
LEMMA LongerReaches ==
  ASSUME TypeOK, NEW rank \in Ranks, RankInv(rank), IsOpen(call.fd), Cur.first # 0,
         NEW e \in Clusters, owner[e] = Cur.first, rank[e] >= 0, fat[e] = EndMarker,
         NEW p \in Nat, p <= Cur.size
  PROVE  p < (rank[e] + 2) * ClusterBytes
  <1> DEFINE C == ClusterBytes
  <1>1. Cur \in FileS /\ call.fd \in Handles
    BY CurType
  <1>2. PICK c \in Clusters : owner[c] = Cur.first /\ rank[c] >= 0 /\ Cur.size <= (rank[c] + 1) * C
    BY <1>1 DEF RankInv, SizesInv, Covers, InChain, Cur
  <1>3. rank[c] <= rank[e]
    BY <1>2 DEF RankInv, Chained
  <1>4. rank[c] \in Int /\ rank[e] \in Int /\ C \in Nat \ {0} /\ Cur.size \in Nat
    BY <1>1, PositiveSizes DEF Ranks, FileS
  <1> DEFINE a == rank[c] + 1
             b == rank[e] + 1
             s == Cur.size
  <1>5. a \in Nat /\ b \in Nat /\ a <= b /\ rank[e] + 2 = b + 1 /\ s <= a * C /\ s \in Nat /\ p <= s
    BY <1>2, <1>3, <1>4
  <1> HIDE DEF a, b, s, C
  <1>6. a * C \in Nat /\ b * C \in Nat /\ a * C <= b * C
    BY <1>4, <1>5, MulMonotone
  <1>7. (b + 1) * C = b * C + C
    BY <1>4, <1>5
  <1>8. p < (b + 1) * C
    BY <1>4, <1>5, <1>6, <1>7
  <1> QED BY <1>5, <1>8 DEF C

\* The ranks after the link to the new cluster is written.
LEMMA SomeChainGrows ==
  ASSUME TypeOK, FatInv, NEW rank \in Ranks, Chained(rank), NEW e \in Clusters, NEW k \in Clusters,
         rank[e] >= 0, fat[e] = EndMarker, fat[k] = EndMarker, owner[k] = owner[e], k # owner[k],
         \A c \in Clusters : fat[c] # k,
         fat' = [fat EXCEPT ![e] = k], owner' = owner
  PROVE  \E next \in Ranks : Chained(next)' /\ Extends(rank, next) /\ next[k] = rank[e] + 1
  <1> DEFINE next == [rank EXCEPT ![k] = rank[e] + 1]
  <1>1. next \in Ranks /\ Chained(next)' /\ Extends(rank, next) /\ next[k] = rank[e] + 1
    BY ChainGrows
  <1> QED BY <1>1

\* fat_next_cluster writes the link to the new cluster.
LEMMA NextChainChains ==
  ASSUME TypeOK, VolumeInv, AccessInv, NEW rank \in Ranks, RankInv(rank), NextChain
  PROVE  \E next \in Ranks : RankInv(next)'
  <1> DEFINE e == Cur.cluster
             k == call.res
  <1>1. /\ pc = "chain" /\ fat' = [fat EXCEPT ![e] = k] /\ pc' = "info"
        /\ call' = [call EXCEPT !.info = "next"] /\ UNCHANGED <<dir, owner, file_num>>
    BY DEF NextChain
  <1>2. /\ k \in Clusters /\ owner[k] = Cur.first /\ fat[k] = EndMarker /\ k # Cur.first
        /\ \A c \in Clusters : fat[c] # k
        /\ e \in Clusters /\ fat[e] = EndMarker /\ "WRITE" \in Cur.flags
    BY <1>1 DEF VolumeInv, CallInv, OwnCluster, AccessInv
  <1>3. /\ Cur \in FileS /\ IsOpen(call.fd) /\ call \in Calls /\ Cur.first # 0
        /\ owner[e] = Cur.first /\ rank[e] >= 0
    BY <1>1, <1>2, AtNext
  <1>4. /\ call'.fd = call.fd /\ call'.seeking = call.seeking /\ call'.next = call.next
        /\ call'.old = call.old /\ call'.new = call.new /\ call'.i = call.i
        /\ call'.res = k /\ call'.info = "next"
    BY <1>1, <1>3 DEF Calls
  <1>5. SetCur(Cur) /\ SameSpot(Cur) /\ Cur' = Cur
    BY <1>1, <1>4, SameCur, CurAfter DEF SameSpot
  <1>6. PICK next \in Ranks : Chained(next)' /\ Extends(rank, next) /\ next[k] = rank[e] + 1
    <2>1. FatInv /\ Chained(rank) /\ owner' = owner
      BY <1>1 DEF VolumeInv, RankInv
    <2>2. owner[k] = owner[e] /\ k # owner[k]
      BY <1>2, <1>3
    <2> QED BY <1>1, <1>2, <1>3, <2>1, <2>2, SomeChainGrows
  <1>7. next[e] = rank[e] /\ rank[e] \in Nat
    BY <1>2, <1>3, <1>6 DEF Extends, Ranks
  <1>8. (Walking <=> Walking') /\ (Crossing <=> ~Walking) /\ Linked'
    BY <1>1, <1>4, AtNext DEF Walking, Linked
  <1>9. CrossInv(next)'
    <2>1. CASE Walking
      BY <1>8, <2>1 DEF CrossInv, Crossing
    <2>2. CASE ~Walking
      <3>1. Cur.sectors_left = 0
        BY <1>2, <1>8, <2>2 DEF RankInv, CrossInv
      <3> QED BY <1>4, <1>5, <1>6, <1>7, <3>1 DEF CrossInv
    <2> QED BY <2>1, <2>2
  <1>10. SeekerInv(next)'
    <2>1. CASE ~WriterSeeks
      BY <1>4, <1>5, <2>1, NotSeeking DEF WriterSeeks
    <2>2. CASE WriterSeeks
      <3>1. /\ call.new <= Cur.size /\ "DIRTY" \notin Cur.flags
            /\ ~Walking => Pos(Cur) = call.old /\ Cur.cursor = SectorSize
            /\ Walking => /\ rank[Cur.cluster] = call.i
                          /\ call.i <= call.new \div ClusterBytes
                          /\ call.i < call.new \div ClusterBytes
        BY <1>1, <2>2, SeekerAtNext
      <3>2. call.new < (rank[e] + 2) * ClusterBytes
        <4>1. call.new \in Nat
          BY <1>3 DEF Calls
        <4> QED BY <1>2, <1>3, <3>1, <4>1, LongerReaches
      <3>3. RoomFor(next, Cur)
        <4>1. next[k] + 1 = rank[e] + 2 /\ next[k] >= 0
          BY <1>6, <1>7
        <4> QED BY <1>1, <1>2, <1>4, <3>2, <4>1 DEF RoomFor
      <3>4. CASE Walking
        <4>1. next[k] >= 0 /\ next[k] = call.i + 1 /\ next[e] = call.i
          BY <1>6, <1>7, <3>1, <3>4
        <4> QED BY <1>1, <1>2, <1>3, <1>4, <1>5, <1>7, <1>8, <3>1, <3>3, <3>4, <4>1, ToWalk
      <3>5. CASE ~Walking
        BY <1>1, <1>4, <1>5, <1>8, <3>1, <3>3, <3>5, ToLoading
      <3> QED BY <3>4, <3>5
    <2> QED BY <2>1, <2>2
  <1> QED BY <1>1, <1>3, <1>4, <1>5, <1>6, <1>8, <1>9, <1>10, DirSame, SpotMoves

\* Every step of fat_next_sector and fat_next_cluster.
LEMMA NextChains ==
  ASSUME TypeOK, VolumeInv, AccessInv, NEW rank \in Ranks, RankInv(rank), NextStep
  PROVE  \E next \in Ranks : RankInv(next)'
  BY SectorHopChains, SectorEndChains, SelectClusterChains, NextLinkChains, NextEndChains,
     NextBreaksChains, NextAllocateChains, NextChainChains DEF NextStep

-----------------------------------------------------------------------------
(* fat_lseek. *)

\* The seek is over.
LEMMA SeekOver ==
  ASSUME TypeOK, VolumeInv, NEW rank \in Ranks, RankInv(rank), pc \in {"seek", "case", "walk"},
         UNCHANGED <<fat, dir, owner>>, NEW ok \in BOOLEAN, EndSeek(ok),
         NEW f, SetCur(f), f.first = Cur.first, f.size = Cur.size, f.flags = Cur.flags,
         "WRITE" \in f.flags /\ f.first # 0 =>
           /\ f.cluster \in Clusters /\ owner[f.cluster] = f.first
           /\ rank[f.cluster] >= 0 /\ Aligned(rank, f)
  PROVE  RankInv(rank)'
  <1>1. IsOpen(call.fd) /\ call.fd \in Handles /\ Cur \in FileS /\ call \in Calls
    BY AtSeek
  <1>2. pc' \in {"byte", "done", "fail"} /\ ~call'.seeking /\ call'.fd = call.fd
    BY <1>1 DEF EndSeek, AfterSeek, Calls
  <1>3. Chained(rank)' /\ Extends(rank, rank)
    BY ChainsSame DEF RankInv
  <1>4. CrossInv(rank)' /\ SeekerInv(rank)'
    BY <1>2, NotCrossing, NotSeeking
  <1>5. f.first = 0 => f.size <= SectorSize
    BY <1>1 DEF RankInv, SizesInv, Cur
  <1>6. "WRITE" \in f.flags /\ f.first # 0 => owner'[f.cluster] = f.first
    OBVIOUS
  <1>7. dir' = dir
    OBVIOUS
  <1>8. CASE f.first = 0
    BY <1>1, <1>2, <1>3, <1>4, <1>5, <1>7, <1>8, DirSame, CurMoves
  <1>9. CASE f.first # 0
    BY <1>1, <1>2, <1>3, <1>4, <1>6, <1>7, <1>9, DirSame, CurMoves
  <1> QED BY <1>8, <1>9

\* A writer at fat_lseek: between its flush and its end.
LEMMA SeekerAt ==
  ASSUME TypeOK, VolumeInv, AccessInv, NEW rank \in Ranks, RankInv(rank),
         pc \in {"seek", "case", "walk", "walked"}, "WRITE" \in Cur.flags
  PROVE  /\ WriterSeeks /\ "DIRTY" \notin Cur.flags
         /\ Walking <=> pc \in {"walk", "walked"}
         /\ pc = "seek" => Pos(Cur) = call.old
         /\ pc # "seek" => call.new <= Cur.size
         /\ Cur.first # 0 /\ call.new <= Cur.size => Room(rank)
  <1>1. WriterSeeks
    BY DEF AccessInv, SeekLabels, WriterSeeks
  <1>2. Walking <=> pc \in {"walk", "walked"}
    BY DEF Walking
  <1>3. SeekerInv(rank) /\ ~SeekFlushing
    BY DEF RankInv, SeekFlushing
  <1> QED BY <1>1, <1>2, <1>3 DEF SeekerInv

\* fat_lseek refuses a position behind the end of the file.
LEMMA SeekOutsideChains ==
  ASSUME TypeOK, VolumeInv, NEW rank \in Ranks, RankInv(rank), SeekOutside
  PROVE  RankInv(rank)'
  <1>1. pc = "seek" /\ EndSeek(FALSE) /\ UNCHANGED <<fat, dir, owner, file_num>>
    BY DEF SeekOutside, NoWrite
  <1>2. SetCur(Cur) /\ IsOpen(call.fd) /\ ~Walking
    BY <1>1, SameCur, AtSeek DEF Walking
  <1>3. "WRITE" \in Cur.flags /\ Cur.first # 0 =>
           /\ Cur.cluster \in Clusters /\ owner[Cur.cluster] = Cur.first
           /\ rank[Cur.cluster] >= 0 /\ Aligned(rank, Cur)
    BY <1>2, CurStands
  <1> QED BY <1>1, <1>2, <1>3, SeekOver

\* fat_lseek goes on after its flush.
LEMMA SeekFlushedChains ==
  ASSUME TypeOK, VolumeInv, AccessInv, NEW rank \in Ranks, RankInv(rank), SeekFlushed
  PROVE  RankInv(rank)'
  <1>0. call \in Calls
    BY DEF TypeOK
  <1>1. /\ pc = "seek" /\ call.new <= Cur.size /\ UNCHANGED <<fat, dir, owner, file_num>>
        /\ \/ /\ Cur.cursor = SectorSize /\ pc' = "flush"
              /\ call' = [call EXCEPT !.flush = "sector"]
           \/ Cur.cursor # SectorSize /\ pc' = "case" /\ call' = call
    BY DEF SeekFlushed, NoWrite, InFile, SectorUsedUp
  <1>2. /\ call'.fd = call.fd /\ call'.seeking = call.seeking
        /\ call'.old = call.old /\ call'.new = call.new /\ (pc' = "flush" => call'.flush = "sector")
    BY <1>0, <1>1 DEF Calls
  <1>3. SetCur(Cur) /\ SameSpot(Cur) /\ Cur' = Cur /\ IsOpen(call.fd) /\ Cur \in FileS
    BY <1>1, <1>2, SameCur, CurAfter, AtSeek DEF SameSpot
  <1>4. Chained(rank)' /\ Extends(rank, rank) /\ ~Walking /\ ~Walking'
    BY <1>1, <1>2, ChainsSame DEF RankInv, Walking
  <1>5. CrossInv(rank)'
    BY <1>1, NotCrossing
  <1>6. SeekerInv(rank)'
    <2>1. CASE "WRITE" \notin Cur.flags
      BY <1>3, <2>1, NotSeeking
    <2>2. CASE "WRITE" \in Cur.flags
      <3>1. "DIRTY" \notin Cur.flags /\ Pos(Cur) = call.old /\ (Cur.first # 0 => Room(rank))
        BY <1>1, <2>2, SeekerAt
      <3>2. Cur.first # 0 => RoomFor(rank, Cur)
        BY <1>1, <1>2, <1>4, <3>1, RoomStays
      <3>3. CASE Cur.cursor = SectorSize
        <4>1. pc' = "flush" /\ call'.flush = "sector"
          BY <1>1, <1>2, <3>3
        <4> QED BY <1>1, <1>2, <1>3, <1>4, <3>1, <3>2, <3>3, <4>1, ToLoading
      <3>4. CASE Cur.cursor # SectorSize
        <4>1. pc' = "case" /\ Cur.cursor < SectorSize
          BY <1>1, <1>3, <3>4, GeometryAssumption DEF FileS
        <4> QED BY <1>1, <1>2, <1>3, <3>1, <3>2, <4>1, ToCase
      <3> QED BY <3>3, <3>4
    <2> QED BY <2>1, <2>2
  <1> QED BY <1>1, <1>2, <1>3, <1>4, <1>5, <1>6, DirSame, SpotMoves

\* fat_lseek within a sector.
LEMMA SeekSectorChains ==
  ASSUME TypeOK, VolumeInv, NEW rank \in Ranks, RankInv(rank), SeekSector
  PROVE  RankInv(rank)'
  <1> DEFINE f == [Cur EXCEPT !.cursor = call.new % SectorSize]
  <1>1. pc = "case" /\ EndSeek(TRUE) /\ SetCur(f) /\ UNCHANGED <<fat, dir, owner>>
    BY DEF SeekSector, NoWrite
  <1>2. Cur \in FileS /\ IsOpen(call.fd) /\ ~Walking
    BY <1>1, AtSeek DEF Walking
  <1>3. /\ f.first = Cur.first /\ f.size = Cur.size /\ f.flags = Cur.flags
        /\ f.cluster = Cur.cluster /\ f.sector = Cur.sector /\ f.sectors_left = Cur.sectors_left
        /\ f.file_sector = Cur.file_sector
    BY <1>2 DEF FileS
  <1> HIDE DEF f
  <1>4. "WRITE" \in Cur.flags /\ Cur.first # 0 =>
           /\ f.cluster \in Clusters /\ owner[f.cluster] = f.first
           /\ rank[f.cluster] >= 0 /\ Aligned(rank, f)
    BY <1>2, <1>3, CurStands DEF Aligned, PlacedAt
  <1> QED BY <1>1, <1>3, <1>4, SeekOver

\* The handle on the sector of position p, in the cluster that p is in.
LEMMA PlacedByPosition ==
  ASSUME NEW rank \in Ranks, NEW c \in Clusters, NEW p \in Nat, rank[c] = p \div ClusterBytes,
         NEW j, j = (p % ClusterBytes) \div SectorSize,
         NEW f, f.cluster = c, f.file_sector = p \div SectorSize,
         f.sectors_left = SectorsPerCluster - 1 - j, f.sector = SectorOf(c) + j
  PROVE  Aligned(rank, f)
  <1>1. /\ j \in 0 .. SectorsPerCluster - 1
        /\ p \div SectorSize = (p \div ClusterBytes) * SectorsPerCluster + j
    BY SplitPosition
  <1>2. SectorsPerCluster \in Nat /\ SectorOf(c) \in Nat
    BY ClusterSectors, GeometryAssumption
  <1>3. PlacedAt(f, f.cluster)
    BY <1>1, <1>2 DEF PlacedAt
  <1>4. SectorsPerCluster - 1 - f.sectors_left = j
    BY <1>1, <1>2
  <1> QED BY <1>1, <1>3, <1>4 DEF Aligned

\* Its number does not wrap.
LEMMA SectorInVolume ==
  ASSUME NEW c \in Clusters, NEW j \in 0 .. SectorsPerCluster - 1
  PROVE  (SectorOf(c) + j) % Word = SectorOf(c) + j
  <1>1. SectorOf(c) \in Nat /\ SectorOf(c) + SectorsPerCluster - 1 <= LastSector
    BY ClusterSectors
  <1>2. Word \in Nat /\ LastSector < Word /\ SectorsPerCluster \in Nat
    BY GeometryAssumption
  <1>3. LastSector \in Int
    BY GeometryAssumption DEF LastSector
  <1> DEFINE s == SectorOf(c) + j
  <1>4. s \in Nat /\ s < Word
    BY <1>1, <1>2, <1>3
  <1> HIDE DEF s
  <1>5. s % Word = s
    BY <1>2, <1>4
  <1> QED BY <1>5 DEF s

\* fat_lseek within a cluster.
LEMMA SeekClusterChains ==
  ASSUME TypeOK, VolumeInv, AccessInv, NEW rank \in Ranks, RankInv(rank), SeekCluster
  PROVE  RankInv(rank)'
  <1> DEFINE o == call.old \div SectorSize
             n == call.new \div SectorSize
             s == (Cur.sector + n - o) % Word
             l == SectorsLeft(Cur, o, n)
             u == call.new % SectorSize
             g == [Cur EXCEPT !.file_sector = n, !.cursor = u, !.sectors_left = l]
  <1>1. /\ pc = "case" /\ o # n /\ call.old \div ClusterBytes = call.new \div ClusterBytes
        /\ UNCHANGED <<fat, dir, owner>>
        /\ SeekLoad(g, s)
    BY DEF SeekCluster, NoWrite
  <1>2. Cur \in FileS /\ IsOpen(call.fd) /\ call.old \in Nat /\ call.new \in Nat /\ ~Walking
    BY <1>1, AtSeek DEF Walking
  <1>3. PICK f : /\ f \in {[g EXCEPT !.sector = s, !.buffer = disk[s]], [g EXCEPT !.sector = s]}
                 /\ SetCur(f) /\ \E ok \in BOOLEAN : EndSeek(ok)
    BY <1>1 DEF SeekLoad
  <1>4. /\ f.first = Cur.first /\ f.size = Cur.size /\ f.flags = Cur.flags
        /\ f.cluster = Cur.cluster /\ f.sector = s /\ f.sectors_left = l
        /\ f.file_sector = n
    BY <1>2, <1>3 DEF FileS
  <1> HIDE DEF g
  <1>5. ASSUME "WRITE" \in Cur.flags, Cur.first # 0
        PROVE  /\ f.cluster \in Clusters /\ owner[f.cluster] = f.first
               /\ rank[f.cluster] >= 0 /\ Aligned(rank, f)
    <2>1. /\ Cur.cluster \in Clusters /\ owner[Cur.cluster] = Cur.first
          /\ rank[Cur.cluster] >= 0 /\ Aligned(rank, Cur)
      BY <1>2, <1>5, CurStands
    <2>2. Pos(Cur) = call.old /\ Cur.cursor < SectorSize
      <3>1. ~(call.new < call.old /\ call.old % ClusterBytes = 0)
        <4> DEFINE a == call.old
                   b == call.new
                   C == ClusterBytes
                   q == a \div C
        <4>1. a \in Nat /\ b \in Nat /\ C \in Nat \ {0} /\ b \div C = q
          BY <1>1, <1>2, PositiveSizes
        <4>2. q \in Nat /\ a = q * C + (a % C) /\ b = q * C + (b % C) /\ b % C \in 0 .. C - 1
          BY <4>1, DivMod
        <4>3. q * C \in Nat
          <5> HIDE DEF q, C
          <5> QED BY <4>1, <4>2
        <4>4. ASSUME b < a, a % C = 0 PROVE FALSE
          <5> DEFINE m == q * C
                     x == b % C
          <5>1. a = m + 0 /\ b = m + x /\ x \in Nat /\ m \in Nat
            BY <4>1, <4>2, <4>3, <4>4
          <5> HIDE DEF m, x, q, a, b
          <5> QED BY <4>4, <5>1
        <4> QED BY <4>4
      <3>2. WriterSeeks
        BY <1>1, <1>5, SeekerAt
      <3> QED BY <1>1, <3>1, <3>2 DEF RankInv, SeekerInv
    <2> DEFINE r == rank[Cur.cluster]
               j == SectorsPerCluster - 1 - Cur.sectors_left
               k == (call.new % ClusterBytes) \div SectorSize
    <2>3. /\ r \in Nat /\ j \in 0 .. SectorsPerCluster - 1
          /\ Cur.sector = SectorOf(Cur.cluster) + j
          /\ o = r * SectorsPerCluster + j
          /\ call.old \div ClusterBytes = r
      <3>1. /\ r \in Nat /\ j \in 0 .. SectorsPerCluster - 1
            /\ Cur.sector = SectorOf(Cur.cluster) + j
            /\ Cur.file_sector = r * SectorsPerCluster + j
        BY <1>2, <2>1, StandingAt
      <3>2. /\ Pos(Cur) \div SectorSize = Cur.file_sector
            /\ Pos(Cur) \div ClusterBytes = r
        BY <1>2, <2>1, <2>2, StandingAt
      <3> QED BY <2>2, <3>1, <3>2
    <2>4. /\ call.new \div ClusterBytes = r /\ k \in 0 .. SectorsPerCluster - 1
          /\ n = r * SectorsPerCluster + k
      BY <1>1, <1>2, <2>3, SplitPosition
    <2>5. /\ SectorsPerCluster \in Nat /\ SectorsPerCluster <= 255 /\ Cur.sectors_left \in Nat
          /\ SectorOf(Cur.cluster) \in Nat
      BY <1>2, <2>1, ClusterSectors, GeometryAssumption DEF FileS
    <2>6. Cur.sectors_left - n + o = SectorsPerCluster - 1 - k
          /\ Cur.sector + n - o = SectorOf(Cur.cluster) + k
      <3> DEFINE m == r * SectorsPerCluster
                 b == SectorOf(Cur.cluster)
                 w == Cur.sectors_left
                 z == SectorsPerCluster
      <3>1. /\ m \in Nat /\ b \in Nat /\ w \in Nat /\ z \in Nat /\ k \in Nat /\ j \in Nat
            /\ n = m + k /\ o = m + j /\ j = z - 1 - w /\ Cur.sector = b + j
        BY <2>3, <2>4, <2>5
      <3> HIDE DEF m, b, w, z, k, j, n, o
      <3>2. w - n + o = z - 1 - k /\ Cur.sector + n - o = b + k
        BY <3>1
      <3> QED BY <3>2 DEF w, z, b
    <2>7. l = SectorsPerCluster - 1 - k
      <3> DEFINE z == SectorsPerCluster - 1 - k
      <3>1. z \in 0 .. 255
        BY <2>4, <2>5
      <3>2. l = z % 256
        BY <2>6 DEF SectorsLeft
      <3> HIDE DEF z, l
      <3>3. l = z
        BY <3>1, <3>2
      <3> QED BY <3>3 DEF z
    <2>8. s = SectorOf(Cur.cluster) + k
      BY <2>1, <2>4, <2>6, SectorInVolume
    <2>9. Aligned(rank, f)
      <3> HIDE DEF l, s, k
      <3>1. /\ f.cluster = Cur.cluster /\ f.file_sector = n
            /\ f.sectors_left = SectorsPerCluster - 1 - k /\ f.sector = SectorOf(Cur.cluster) + k
            /\ rank[Cur.cluster] = call.new \div ClusterBytes
        BY <1>4, <2>4, <2>7, <2>8
      <3> QED BY <1>2, <2>1, <3>1, PlacedByPosition DEF k
    <2> QED BY <1>4, <2>1, <2>9
  <1> QED BY <1>1, <1>3, <1>4, <1>5, SeekOver

\* A step to a label of the walk.
LEMMA WalkMoves ==
  ASSUME TypeOK, VolumeInv, AccessInv, NEW rank \in Ranks, RankInv(rank),
         pc \in {"case", "walk", "walked"}, Cur.first # 0,
         pc' = "walk" \/ (pc' = "flush" /\ call'.flush = "next"),
         UNCHANGED <<fat, dir, owner>>, call'.fd = call.fd, call'.seeking = call.seeking,
         call'.new = call.new, IsOpen(call.fd),
         NEW f, SetCur(f), f.first = Cur.first, f.size = Cur.size, f.flags = Cur.flags,
         "WRITE" \in Cur.flags =>
           /\ f.cluster \in Clusters /\ owner[f.cluster] = f.first
           /\ rank[f.cluster] >= 0 /\ rank[f.cluster] = call'.i
           /\ call'.i <= call.new \div ClusterBytes
           /\ pc' # "walk" => call'.i < call.new \div ClusterBytes
  PROVE  RankInv(rank)'
  <1>1. Walking' /\ Cur' = f
    BY CurAfter DEF Walking
  <1>2. Chained(rank)' /\ Extends(rank, rank) /\ dir' = dir
    BY ChainsSame DEF RankInv
  <1>3. CrossInv(rank)' /\ SeekerInv(rank)'
    <2>1. CrossInv(rank)'
      BY <1>1 DEF CrossInv, Crossing
    <2>2. CASE "WRITE" \notin Cur.flags
      BY <1>1, <2>1, <2>2, NotSeeking
    <2>3. CASE "WRITE" \in Cur.flags
      <3>1. /\ call.new <= Cur.size /\ "DIRTY" \notin Cur.flags /\ Room(rank)
        BY <2>3, SeekerAt
      <3>2. RoomFor(rank, f)
        BY <1>2, <3>1, RoomStays
      <3>3. pc' # "walked" /\ ~(pc' = "info") /\ pc' # "chain"
        OBVIOUS
      <3>4. owner'[f.cluster] = f.first
        BY <2>3
      <3> QED BY <1>1, <2>3, <3>1, <3>2, <3>3, <3>4, ToWalk
    <2> QED BY <2>2, <2>3
  <1> QED BY <1>1, <1>2, <1>3, DirSame, CurMoves

\* fat_lseek goes to the beginning of the chain.
LEMMA SeekRewindChains ==
  ASSUME TypeOK, VolumeInv, AccessInv, NEW rank \in Ranks, RankInv(rank), SeekRewind
  PROVE  RankInv(rank)'
  <1> DEFINE f == [Cur EXCEPT !.cluster = Cur.first]
  <1>1. /\ pc = "case" /\ pc' = "walk" /\ call' = [call EXCEPT !.i = 0] /\ SetCur(f)
        /\ UNCHANGED <<fat, dir, owner>>
        /\ call.old \div ClusterBytes # call.new \div ClusterBytes
    BY DEF SeekRewind, NoWrite
  <1>2. IsOpen(call.fd) /\ Cur \in FileS /\ call \in Calls /\ call.new \in Nat /\ call.fd \in Handles
    BY <1>1, AtSeek
  <1>3. /\ f.first = Cur.first /\ f.size = Cur.size /\ f.flags = Cur.flags
        /\ f.cluster = Cur.first
    BY <1>2 DEF FileS
  <1> HIDE DEF f
  <1>4. /\ call'.fd = call.fd /\ call'.seeking = call.seeking /\ call'.new = call.new
        /\ call'.i = 0
    BY <1>1, <1>2 DEF Calls
  <1>5. Cur.first # 0
    BY <1>1 DEF VolumeInv, SeekInv
  <1>6. Cur.first \in Clusters /\ owner[Cur.first] = Cur.first
    BY <1>2, <1>5 DEF VolumeInv, HandleInv, FilesInv, StoredFile, Cur
  <1>7. rank[Cur.first] = 0
    BY <1>6 DEF RankInv, Chained
  <1>8. 0 <= call.new \div ClusterBytes
    BY <1>2, PositiveSizes
  <1>9. rank[f.cluster] >= 0 /\ rank[f.cluster] = call'.i /\ call'.i <= call.new \div ClusterBytes
    BY <1>3, <1>4, <1>7, <1>8
  <1> QED BY <1>1, <1>2, <1>3, <1>4, <1>5, <1>6, <1>9, WalkMoves

\* A writer in the walk of fat_lseek.
LEMMA WalkerAt ==
  ASSUME TypeOK, VolumeInv, AccessInv, NEW rank \in Ranks, RankInv(rank), pc \in {"walk", "walked"},
         "WRITE" \in Cur.flags
  PROVE  /\ Cur.cluster \in Clusters /\ owner[Cur.cluster] = Cur.first
         /\ rank[Cur.cluster] >= 0 /\ rank[Cur.cluster] = call.i
         /\ call.i <= call.new \div ClusterBytes
         /\ pc = "walked" => /\ call.i < call.new \div ClusterBytes
                             /\ call.res \in Clusters /\ owner[call.res] = Cur.first
                             /\ rank[call.res] >= 0 /\ rank[call.res] = call.i + 1
  <1>1. WriterSeeks /\ Walking
    BY SeekerAt
  <1> QED BY <1>1 DEF RankInv, SeekerInv, InChain

\* fat_lseek asks for the next cluster of the chain.
LEMMA WalkNextChains ==
  ASSUME TypeOK, VolumeInv, AccessInv, NEW rank \in Ranks, RankInv(rank), WalkNext
  PROVE  RankInv(rank)'
  <1>1. /\ pc = "walk" /\ pc' = "flush" /\ UNCHANGED <<fat, dir, owner, file_num>>
        /\ call' = [call EXCEPT !.flush = "next", !.next = "walk", !.res = Bad]
        /\ call.i < call.new \div ClusterBytes
    BY DEF WalkNext, NoWrite
  <1>2. IsOpen(call.fd) /\ call \in Calls /\ Cur.first # 0 /\ SetCur(Cur)
    BY <1>1, AtStored, SameCur
  <1>3. /\ call'.fd = call.fd /\ call'.seeking = call.seeking /\ call'.new = call.new
        /\ call'.i = call.i /\ call'.flush = "next"
    BY <1>1, <1>2 DEF Calls
  <1>4. "WRITE" \in Cur.flags =>
           /\ Cur.cluster \in Clusters /\ owner[Cur.cluster] = Cur.first
           /\ rank[Cur.cluster] >= 0 /\ rank[Cur.cluster] = call.i
           /\ call.i <= call.new \div ClusterBytes
    BY <1>1, WalkerAt
  <1> QED BY <1>1, <1>2, <1>3, <1>4, WalkMoves

\* fat_lseek moves to the cluster it was given.
LEMMA WalkMoveChains ==
  ASSUME TypeOK, VolumeInv, AccessInv, NEW rank \in Ranks, RankInv(rank), WalkMove
  PROVE  RankInv(rank)'
  <1> DEFINE f == [Cur EXCEPT !.cluster = call.res]
  <1>1. /\ pc = "walked" /\ pc' = "walk" /\ UNCHANGED <<fat, dir, owner>>
        /\ call' = [call EXCEPT !.i = @ + 1] /\ SetCur(f)
    BY DEF WalkMove, NoWrite
  <1>2. IsOpen(call.fd) /\ call \in Calls /\ Cur.first # 0 /\ Cur \in FileS
    BY <1>1, AtStored
  <1>3. /\ f.first = Cur.first /\ f.size = Cur.size /\ f.flags = Cur.flags
        /\ f.cluster = call.res
    BY <1>2 DEF FileS
  <1> HIDE DEF f
  <1>4. /\ call'.fd = call.fd /\ call'.seeking = call.seeking /\ call'.new = call.new
        /\ call'.i = call.i + 1
    BY <1>1, <1>2 DEF Calls
  <1>5. "WRITE" \in Cur.flags =>
           /\ call.i < call.new \div ClusterBytes
           /\ call.res \in Clusters /\ owner[call.res] = Cur.first
           /\ rank[call.res] >= 0 /\ rank[call.res] = call.i + 1
    BY <1>1, WalkerAt
  <1>6. call.i < call.new \div ClusterBytes => call.i + 1 <= call.new \div ClusterBytes
    <2>1. call.i \in Nat /\ call.new \div ClusterBytes \in Nat
      BY <1>2, PositiveSizes DEF Calls
    <2> QED BY <2>1
  <1> QED BY <1>1, <1>2, <1>3, <1>4, <1>5, <1>6, WalkMoves

\* fat_lseek has arrived at the cluster and loads the sector.
LEMMA WalkEndChains ==
  ASSUME TypeOK, VolumeInv, AccessInv, NEW rank \in Ranks, RankInv(rank), WalkEnd
  PROVE  RankInv(rank)'
  <1> DEFINE j == (call.new % ClusterBytes) \div SectorSize
             s == (SectorOf(Cur.cluster) + j) % Word
             n == call.new \div SectorSize
             g == [Cur EXCEPT !.file_sector = n, !.cursor = call.new % SectorSize,
                              !.sectors_left = SectorsPerCluster - j - 1]
  <1>1. /\ pc = "walk" /\ call.i = call.new \div ClusterBytes /\ UNCHANGED <<fat, dir, owner>>
        /\ SeekLoad(g, s)
    BY DEF WalkEnd, NoWrite
  <1>2. Cur \in FileS /\ IsOpen(call.fd) /\ call.new \in Nat
    BY <1>1, AtSeek
  <1>3. PICK f : /\ f \in {[g EXCEPT !.sector = s, !.buffer = disk[s]], [g EXCEPT !.sector = s]}
                 /\ SetCur(f) /\ \E ok \in BOOLEAN : EndSeek(ok)
    BY <1>1 DEF SeekLoad
  <1>4. /\ f.first = Cur.first /\ f.size = Cur.size /\ f.flags = Cur.flags
        /\ f.cluster = Cur.cluster /\ f.sector = s
        /\ f.sectors_left = SectorsPerCluster - j - 1 /\ f.file_sector = n
    BY <1>2, <1>3 DEF FileS
  <1> HIDE DEF g
  <1>5. ASSUME "WRITE" \in Cur.flags
        PROVE  /\ f.cluster \in Clusters /\ owner[f.cluster] = f.first
               /\ rank[f.cluster] >= 0 /\ Aligned(rank, f)
    <2>1. /\ Cur.cluster \in Clusters /\ owner[Cur.cluster] = Cur.first
          /\ rank[Cur.cluster] >= 0 /\ rank[Cur.cluster] = call.new \div ClusterBytes
      BY <1>1, <1>5, WalkerAt
    <2>2. j \in 0 .. SectorsPerCluster - 1
      BY <1>2, SplitPosition
    <2>3. s = SectorOf(Cur.cluster) + j
      BY <2>1, <2>2, SectorInVolume
    <2>4. SectorsPerCluster - j - 1 = SectorsPerCluster - 1 - j
      BY <2>2, GeometryAssumption
    <2>5. Aligned(rank, f)
      <3> HIDE DEF s
      <3>1. /\ f.sectors_left = SectorsPerCluster - 1 - j /\ f.sector = SectorOf(Cur.cluster) + j
            /\ f.file_sector = n /\ f.cluster = Cur.cluster
        BY <1>4, <2>3, <2>4
      <3> QED BY <1>2, <2>1, <3>1, PlacedByPosition
    <2> QED BY <1>4, <2>1, <2>5
  <1> QED BY <1>1, <1>3, <1>4, <1>5, SeekOver

\* Every step of fat_lseek.
LEMMA SeekChains ==
  ASSUME TypeOK, VolumeInv, AccessInv, NEW rank \in Ranks, RankInv(rank), SeekStep
  PROVE  RankInv(rank)'
  BY SeekOutsideChains, SeekFlushedChains, SeekSectorChains, SeekClusterChains, SeekRewindChains,
     WalkNextChains, WalkMoveChains, WalkEndChains DEF SeekStep

-----------------------------------------------------------------------------
(* The bytes of fat_write and fat_read. *)

\* A byte is moved: the cursor goes on within the sector.
LEMMA ByteMoves ==
  ASSUME TypeOK, VolumeInv, NEW rank \in Ranks, RankInv(rank), pc = "byte", pc' = "byte",
         UNCHANGED <<fat, dir, owner>>, call'.fd = call.fd, ~call'.seeking,
         NEW f, SetCur(f), f.first = Cur.first, f.cluster = Cur.cluster, f.sector = Cur.sector,
         f.sectors_left = Cur.sectors_left, f.file_sector = Cur.file_sector,
         "WRITE" \in f.flags <=> "WRITE" \in Cur.flags,
         f.first = 0 => f.size <= SectorSize,
         f.first # 0 => \/ f.size = Cur.size
                        \/ \E c \in Clusters : /\ owner[c] = f.first /\ rank[c] >= 0
                                               /\ f.size <= (rank[c] + 1) * ClusterBytes
  PROVE  RankInv(rank)'
  <1>1. IsOpen(call.fd) /\ ~Walking
    BY AtByte DEF Walking
  <1>2. Chained(rank)' /\ Extends(rank, rank) /\ dir' = dir /\ owner' = owner
    BY ChainsSame DEF RankInv
  <1>3. CrossInv(rank)' /\ SeekerInv(rank)'
    BY NotCrossing, NotSeeking
  <1>4. CASE f.first = 0
    BY <1>1, <1>2, <1>3, <1>4, DirSame, CurMoves
  <1>5. CASE f.first # 0
    <2>1. "WRITE" \in f.flags =>
            /\ f.cluster \in Clusters /\ owner'[f.cluster] = f.first /\ rank[f.cluster] >= 0
            /\ Aligned(rank, f)
      BY <1>1, <1>2, <1>5, CurStands DEF Aligned, PlacedAt
    <2> QED BY <1>1, <1>2, <1>3, <1>5, <2>1, DirSame, CurMoves
  <1> QED BY <1>4, <1>5

\* A file without a cluster fits a sector.
LEMMA SizesNow ==
  ASSUME TypeOK, NEW rank \in Ranks, RankInv(rank), IsOpen(call.fd), Cur.first = 0
  PROVE  Cur.size <= SectorSize
  BY CurType DEF RankInv, SizesInv, Cur

\* The file grows by a byte, within the cluster the handle is in.
LEMMA GrowsInCluster ==
  ASSUME TypeOK, VolumeInv, NEW rank \in Ranks, RankInv(rank), pc = "byte", "WRITE" \in Cur.flags,
         Cur.cursor # SectorSize, Pos(Cur) = Cur.size
  PROVE  /\ Cur.first = 0 => Cur.size + 1 <= SectorSize
         /\ Cur.first # 0 => /\ Cur.cluster \in Clusters /\ owner[Cur.cluster] = Cur.first
                             /\ rank[Cur.cluster] >= 0
                             /\ Cur.size + 1 <= (rank[Cur.cluster] + 1) * ClusterBytes
  <1>1. IsOpen(call.fd) /\ ~Walking /\ Cur \in FileS /\ (Cur.first = 0 => Pos(Cur) = Cur.cursor)
    BY AtByte DEF Walking
  <1>2. /\ Cur.cursor < SectorSize /\ Cur.cursor \in Nat /\ SectorSize \in Nat /\ Cur.size \in Nat
    BY <1>1, GeometryAssumption DEF FileS
  <1>3. Cur.first = 0 => Cur.size + 1 <= SectorSize
    BY <1>1, <1>2
  <1>4. ASSUME Cur.first # 0
        PROVE  /\ Cur.cluster \in Clusters /\ owner[Cur.cluster] = Cur.first
               /\ rank[Cur.cluster] >= 0
               /\ Cur.size + 1 <= (rank[Cur.cluster] + 1) * ClusterBytes
    <2>1. /\ Cur.cluster \in Clusters /\ owner[Cur.cluster] = Cur.first
          /\ rank[Cur.cluster] >= 0 /\ Aligned(rank, Cur)
      BY <1>1, <1>4, CurStands
    <2> DEFINE e == (rank[Cur.cluster] + 1) * ClusterBytes
    <2>2. e \in Nat
      BY <1>1, <2>1, StandingAt
    <2>3. Pos(Cur) < e
      BY <1>1, <1>2, <2>1, StandingAt
    <2> HIDE DEF e
    <2>4. Cur.size + 1 <= e
      BY <1>2, <2>2, <2>3
    <2> QED BY <2>1, <2>4 DEF e
  <1> QED BY <1>3, <1>4

\* Every step of the loops of fat_write and fat_read.
LEMMA ByteChains ==
  ASSUME TypeOK, VolumeInv, NEW rank \in Ranks, RankInv(rank), ByteStep
  PROVE  RankInv(rank)'
  <1>1. pc = "byte" /\ UNCHANGED <<fat, dir, owner>>
    BY DEF ByteStep, WriteByte, ReadByte, BytesDone, NoWrite
  <1>2. /\ Cur \in FileS /\ call \in Calls /\ IsOpen(call.fd) /\ ~Walking /\ ~call.seeking
        /\ call.op = "write" => "WRITE" \in Cur.flags
    BY <1>1, AtByte DEF Walking
  <1>3. CASE NeedSector \/ BytesDone
    <2>1. /\ file_num' = file_num /\ pc' \in {"flush", "done"}
          /\ call' = [call EXCEPT !.flush = "sector"] \/ call' = call
      BY <1>3 DEF NeedSector, BytesDone
    <2>2. call'.fd = call.fd /\ call'.seeking = call.seeking
      BY <1>2, <2>1 DEF Calls
    <2>3. SetCur(Cur) /\ SameSpot(Cur)
      BY <2>1, SameCur DEF SameSpot
    <2> QED BY <1>1, <1>2, <2>1, <2>2, <2>3, SpotStays
  <1>4. CASE WriteByte /\ ~NeedSector
    <2> DEFINE grows == Pos(Cur) = Cur.size
               f == [Cur EXCEPT
                       !.buffer = [@ EXCEPT ![Cur.cursor] = Head(call.todo)],
                       !.cursor = @ + 1,
                       !.size = IF grows THEN @ + 1 ELSE @,
                       !.flags = @ \cup {"DIRTY"} \cup (IF grows THEN {"FS_DIRTY"} ELSE {})]
    <2>1. /\ Cur.cursor # SectorSize /\ SetCur(f) /\ pc' = pc /\ call.op = "write"
          /\ call' = [call EXCEPT !.todo = Tail(@)]
      BY <1>4 DEF WriteByte, SectorUsedUp
    <2>2. call'.fd = call.fd /\ ~call'.seeking
      BY <1>2, <2>1 DEF Calls
    <2>3. /\ f.first = Cur.first /\ f.cluster = Cur.cluster /\ f.sector = Cur.sector
          /\ f.sectors_left = Cur.sectors_left /\ f.file_sector = Cur.file_sector
          /\ "WRITE" \in f.flags <=> "WRITE" \in Cur.flags
          /\ f.size = IF grows THEN Cur.size + 1 ELSE Cur.size
      BY <1>2 DEF FileS
    <2> HIDE DEF f
    <2>4. CASE ~grows
      BY <1>1, <1>2, <2>1, <2>2, <2>3, <2>4, SizesNow, ByteMoves
    <2>5. CASE grows
      <3>1. /\ Cur.first = 0 => Cur.size + 1 <= SectorSize
            /\ Cur.first # 0 => /\ Cur.cluster \in Clusters /\ owner[Cur.cluster] = Cur.first
                                /\ rank[Cur.cluster] >= 0
                                /\ Cur.size + 1 <= (rank[Cur.cluster] + 1) * ClusterBytes
        BY <1>1, <1>2, <2>1, <2>5, GrowsInCluster
      <3> QED BY <1>1, <2>1, <2>2, <2>3, <2>5, <3>1, ByteMoves
    <2> QED BY <2>4, <2>5
  <1>5. CASE ReadByte /\ ~NeedSector
    <2> DEFINE f == [Cur EXCEPT !.cursor = @ + 1]
    <2>1. /\ SetCur(f) /\ pc' = pc
          /\ call' = [call EXCEPT !.n = @ - 1, !.got = Append(@, Cur.buffer[Cur.cursor])]
      BY <1>5 DEF ReadByte
    <2>2. call'.fd = call.fd /\ ~call'.seeking
      BY <1>2, <2>1 DEF Calls
    <2>3. /\ f.first = Cur.first /\ f.cluster = Cur.cluster /\ f.sector = Cur.sector
          /\ f.sectors_left = Cur.sectors_left /\ f.file_sector = Cur.file_sector
          /\ f.flags = Cur.flags /\ f.size = Cur.size
      BY <1>2 DEF FileS
    <2> HIDE DEF f
    <2> QED BY <1>1, <1>2, <2>1, <2>2, <2>3, SizesNow, ByteMoves
  <1> QED BY <1>3, <1>4, <1>5 DEF ByteStep

-----------------------------------------------------------------------------
(* Files that are opened, closed, deleted and freed. *)

\* An open file before and after: where it was, empty, or at the beginning of the
\* file of a directory entry.
StillThere(h) ==
  /\ IsOpen(h)
  /\ file_num'[h].first = file_num[h].first /\ file_num'[h].size = file_num[h].size
  /\ file_num'[h].cluster = file_num[h].cluster /\ file_num'[h].sector = file_num[h].sector
  /\ file_num'[h].sectors_left = file_num[h].sectors_left
  /\ file_num'[h].file_sector = file_num[h].file_sector
  /\ "WRITE" \in file_num'[h].flags => "WRITE" \in file_num[h].flags
AtStart(f, s) ==
  /\ f.first = dir[s].first /\ f.size = dir[s].size /\ f.cluster = dir[s].first
  /\ f.sector = SectorOf(dir[s].first) /\ f.sectors_left = SectorsPerCluster - 1
  /\ f.file_sector = 0

\* Handles are opened and closed, entries and the chain of owner o vanish:
\* whatever else is left stands where it stood.
LEMMA HandlesMove ==
  ASSUME TypeOK, VolumeInv, NEW rank \in Ranks, RankInv(rank), ~Walking, NEW next \in Ranks,
         Chained(next)', NEW o,
         \A c \in Clusters : rank[c] >= 0 /\ owner[c] # o => owner'[c] = owner[c] /\ next[c] = rank[c],
         \A s \in Slots : Live(s)' =>
           /\ Live(s) /\ dir'[s].first = dir[s].first /\ dir'[s].size = dir[s].size
           /\ dir[s].first # o,
         \A h \in Handles : IsOpen(h)' =>
           \/ StillThere(h) /\ (file_num[h].first # 0 => file_num[h].first # o)
           \/ file_num'[h].first = 0 /\ file_num'[h].size = 0
           \/ \E s \in Slots : Live(s) /\ dir[s].first # o /\ AtStart(file_num'[h], s),
         CrossInv(next)', SeekerInv(next)'
  PROVE  RankInv(next)'
  <1>1. ASSUME NEW first, first # o, NEW n, Covers(rank, first, n)
        PROVE  \E c \in Clusters : /\ owner'[c] = first /\ next[c] >= 0
                                   /\ n <= (next[c] + 1) * ClusterBytes
    <2>1. PICK c \in Clusters : /\ owner[c] = first /\ rank[c] >= 0
                                /\ n <= (rank[c] + 1) * ClusterBytes
      BY <1>1 DEF Covers, InChain
    <2>2. owner'[c] = owner[c] /\ next[c] = rank[c]
      BY <1>1, <2>1
    <2> QED BY <2>1, <2>2
  <1>2. ASSUME NEW s \in Slots, Live(s), dir[s].first # o
        PROVE  /\ dir[s].first # 0 /\ dir[s].first \in Clusters
               /\ owner'[dir[s].first] = dir[s].first /\ next[dir[s].first] = 0
               /\ Covers(rank, dir[s].first, dir[s].size)
    <2>1. /\ dir[s].first \in Clusters /\ owner[dir[s].first] = dir[s].first
          /\ dir[s].first # 0
      BY <1>2, Markers DEF VolumeInv, DirInv
    <2>2. rank[dir[s].first] = 0 /\ Covers(rank, dir[s].first, dir[s].size)
      BY <1>2, <2>1 DEF RankInv, Chained, SizesInv
    <2> QED BY <1>2, <2>1, <2>2
  <1>3. ASSUME NEW s \in Slots, Live(s)' PROVE Covers(next, dir[s].first, dir[s].size)'
    <2>1. Live(s) /\ dir'[s].first = dir[s].first /\ dir'[s].size = dir[s].size /\ dir[s].first # o
      BY <1>3
    <2>2. Covers(rank, dir[s].first, dir[s].size)
      BY <1>2, <2>1
    <2> QED BY <1>1, <2>1, <2>2 DEF Covers, InChain
  <1>4. ASSUME NEW h \in Handles, IsOpen(h)'
        PROVE  IF file_num'[h].first = 0 THEN file_num'[h].size <= SectorSize
               ELSE Covers(next, file_num[h].first, file_num[h].size)'
    <2>1. CASE StillThere(h) /\ (file_num[h].first # 0 => file_num[h].first # o)
      <3>1. /\ file_num'[h].first = file_num[h].first /\ file_num'[h].size = file_num[h].size
            /\ IsOpen(h)
        BY <2>1 DEF StillThere
      <3>2. IF file_num[h].first = 0 THEN file_num[h].size <= SectorSize
            ELSE Covers(rank, file_num[h].first, file_num[h].size)
        BY <3>1 DEF RankInv, SizesInv
      <3> QED BY <1>1, <2>1, <3>1, <3>2 DEF Covers, InChain
    <2>2. CASE file_num'[h].first = 0 /\ file_num'[h].size = 0
      BY <2>2, GeometryAssumption
    <2>3. CASE \E s \in Slots : Live(s) /\ dir[s].first # o /\ AtStart(file_num'[h], s)
      <3>1. PICK s \in Slots : Live(s) /\ dir[s].first # o /\ AtStart(file_num'[h], s)
        BY <2>3
      <3>2. dir[s].first # 0 /\ Covers(rank, dir[s].first, dir[s].size)
        BY <1>2, <3>1
      <3> QED BY <1>1, <3>1, <3>2 DEF AtStart, Covers, InChain
    <2> QED BY <1>4, <2>1, <2>2, <2>3
  <1>5. SizesInv(next)'
    BY <1>3, <1>4 DEF SizesInv
  <1>6. StandInv(next)'
    <2> SUFFICES ASSUME NEW h \in Handles, IsOpen(h)', "WRITE" \in file_num'[h].flags,
                        file_num'[h].first # 0
                 PROVE  StandsAt(next, file_num[h])'
      BY DEF StandInv
    <2>1. CASE StillThere(h) /\ (file_num[h].first # 0 => file_num[h].first # o)
      <3>1. StandsAt(rank, file_num[h])
        BY <2>1 DEF StillThere, RankInv, StandInv
      <3>2. /\ file_num[h].cluster \in Clusters /\ rank[file_num[h].cluster] >= 0
            /\ owner[file_num[h].cluster] = file_num[h].first
            /\ file_num[h].first # o
        BY <2>1, <3>1 DEF StandsAt, InChain, StillThere
      <3>3. /\ owner'[file_num[h].cluster] = owner[file_num[h].cluster]
            /\ next[file_num[h].cluster] = rank[file_num[h].cluster]
        BY <3>2
      <3> QED BY <2>1, <3>1, <3>2, <3>3 DEF StandsAt, InChain, Aligned, PlacedAt, StillThere
    <2>2. CASE \E s \in Slots : Live(s) /\ dir[s].first # o /\ AtStart(file_num'[h], s)
      <3>1. PICK s \in Slots : Live(s) /\ dir[s].first # o /\ AtStart(file_num'[h], s)
        BY <2>2
      <3>2. PICK f : f = file_num'[h]
        OBVIOUS
      <3>3. PICK c \in Clusters : c = dir[s].first /\ owner'[c] = c /\ next[c] = 0
        BY <1>2, <3>1
      <3>4. /\ f.first = c /\ f.cluster = c /\ f.sector = SectorOf(c)
            /\ f.sectors_left = SectorsPerCluster - 1 /\ f.file_sector = 0
        BY <3>1, <3>2, <3>3 DEF AtStart
      <3>5. PlacedAt(f, c)
        BY <3>4, FirstSectorPlaced
      <3>6. f.file_sector = next[c] * SectorsPerCluster + (SectorsPerCluster - 1 - f.sectors_left)
        BY <3>3, <3>4, GeometryAssumption
      <3> QED BY <3>2, <3>3, <3>4, <3>5, <3>6 DEF StandsAt, InChain, Aligned, PlacedAt
    <2> QED BY <2>1, <2>2
  <1> QED BY <1>5, <1>6 DEF RankInv

\* Without a write to the FAT or the directory the ranks stay; a handle may be
\* closed or opened at the beginning of a file.
LEMMA HandlesKeep ==
  ASSUME TypeOK, VolumeInv, NEW rank \in Ranks, RankInv(rank), ~Walking,
         UNCHANGED <<fat, owner>>,
         \A s \in Slots : Live(s)' =>
           Live(s) /\ dir'[s].first = dir[s].first /\ dir'[s].size = dir[s].size,
         \A h \in Handles : IsOpen(h)' =>
           \/ StillThere(h)
           \/ file_num'[h].first = 0 /\ file_num'[h].size = 0
           \/ \E s \in Slots : Live(s) /\ AtStart(file_num'[h], s),
         CrossInv(rank)', SeekerInv(rank)'
  PROVE  RankInv(rank)'
  <1>1. Chained(rank)'
    BY ChainsSame DEF RankInv
  <1>2. \A s \in Slots : Live(s) => dir[s].first # 0
    BY Markers DEF VolumeInv, DirInv
  <1>3. \A c \in Clusters : rank[c] >= 0 /\ owner[c] # 0 =>
          owner'[c] = owner[c] /\ rank[c] = rank[c]
    OBVIOUS
  <1>4. \A s \in Slots : Live(s)' =>
          /\ Live(s) /\ dir'[s].first = dir[s].first /\ dir'[s].size = dir[s].size
          /\ dir[s].first # 0
    BY <1>2
  <1>5. \A h \in Handles : IsOpen(h)' =>
           \/ StillThere(h) /\ (file_num[h].first # 0 => file_num[h].first # 0)
           \/ file_num'[h].first = 0 /\ file_num'[h].size = 0
           \/ \E s \in Slots : Live(s) /\ dir[s].first # 0 /\ AtStart(file_num'[h], s)
    BY <1>2
  <1> QED BY <1>1, <1>3, <1>4, <1>5, HandlesMove

\* A handle that is not touched is where it was.
LEMMA Untouched ==
  ASSUME NEW h \in Handles, IsOpen(h)', file_num'[h] = file_num[h]
  PROVE  StillThere(h)
  BY DEF StillThere, IsOpen

\* fat_free_clusters: whatever part of the chain is zeroed on disk, nothing
\* that is left refers to it.
LEMMA FreeChains ==
  ASSUME SafeUse, TypeOK, VolumeInv, AccessInv, FreeingInv, NEW rank \in Ranks, RankInv(rank),
         FreeEntry \/ FreeUnreadable \/ FreeLast
  PROVE  \E next \in Ranks : RankInv(next)'
  <1>1. /\ pc \in {"free", "freed"} /\ pc' \in {"free", "freed", "done"}
        /\ UNCHANGED <<dir, file_num>> /\ call'.seeking = call.seeking
    BY DEF FreeEntry, FreeUnreadable, FreeLast, TypeOK, Calls
  <1>2. ~call.seeking /\ ~Walking
    BY <1>1 DEF AccessInv, FreeLabels, Walking
  <1>3. ASSUME NEW next PROVE CrossInv(next)' /\ SeekerInv(next)'
    BY <1>1, <1>2, NotCrossing, NotSeeking
  <1>4. \A s \in Slots : Live(s)' =>
          Live(s) /\ dir'[s].first = dir[s].first /\ dir'[s].size = dir[s].size
    BY <1>1 DEF Live
  <1>5. \A h \in Handles : IsOpen(h)' => StillThere(h)
    BY <1>1, Untouched
  <1>6. CASE UNCHANGED <<fat, owner>>
    BY <1>2, <1>3, <1>4, <1>5, <1>6, HandlesKeep
  <1>7. CASE WriteZeroes /\ (pc = "freed" \/ call.block # NoBlock)
    <2>1. PICK o : o = owner[call.res]
      OBVIOUS
    <2>2. PICK Z : Z = call.zeroed
      OBVIOUS
    <2>3. /\ call.res \in Clusters /\ o # 0 /\ NobodyHas(o)
          /\ \A z \in Z : z \in Clusters /\ owner[z] = o
      BY <1>1, <2>1, <2>2 DEF VolumeInv, FreeInv
    <2>4. o \in Clusters
      BY <2>1, <2>3 DEF VolumeInv, FatInv
    <2>5. o \in Z \/ owner[o] # o
      BY <1>1, <1>7, <2>1, <2>2 DEF FreeingInv
    <2>6. FatInv /\ Chained(rank) /\ WriteZeroes
      BY <1>7 DEF VolumeInv, RankInv
    <2>7. PICK next \in Ranks :
            /\ Chained(next)'
            /\ \A c \in Clusters : rank[c] >= 0 /\ owner[c] # o =>
                 owner'[c] = owner[c] /\ next[c] = rank[c]
      BY ONLY TypeOK, rank \in Ranks, <2>2, <2>3, <2>4, <2>5, <2>6, ChainFreed
    <2>8. \A s \in Slots : Live(s)' =>
            /\ Live(s) /\ dir'[s].first = dir[s].first /\ dir'[s].size = dir[s].size
            /\ dir[s].first # o
      BY <1>4, <2>3 DEF NobodyHas
    <2>9. \A h \in Handles : IsOpen(h)' =>
            StillThere(h) /\ (file_num[h].first # 0 => file_num[h].first # o)
      BY <1>5, <2>3 DEF NobodyHas, StillThere
    <2>10. CrossInv(next)' /\ SeekerInv(next)'
      BY <1>3
    <2>11. RankInv(next)'
      BY <1>2, <2>7, <2>8, <2>9, <2>10, HandlesMove
    <2> QED BY <2>11
  <1>8. UNCHANGED <<fat, owner>> \/ (WriteZeroes /\ (pc = "freed" \/ call.block # NoBlock))
    BY DEF FreeEntry, FreeUnreadable, FreeLast, SafeUse, Fault, Leaving
  <1> QED BY <1>6, <1>7, <1>8

\* fat_delete marks the entry.
LEMMA DeleteChains ==
  ASSUME TypeOK, VolumeInv, AccessInv, NEW rank \in Ranks, RankInv(rank), DeleteEntry,
         SafeUse
  PROVE  RankInv(rank)'
  <1>1. /\ pc = "delete" /\ pc' = "free" /\ UNCHANGED <<fat, owner, file_num, call>>
    BY DEF DeleteEntry
  <1>2. ~call.seeking /\ ~Walking
    BY <1>1 DEF AccessInv, FreeLabels, Walking
  <1>3. CrossInv(rank)' /\ SeekerInv(rank)'
    BY <1>1, <1>2, NotCrossing, NotSeeking
  <1>4. dir' = [dir EXCEPT ![call.slot].kind = "deleted"]
    BY DirectoryWorks
  <1>5. \A s \in Slots : Live(s)' =>
          Live(s) /\ dir'[s].first = dir[s].first /\ dir'[s].size = dir[s].size
    BY <1>4 DEF Live, TypeOK, DirEntry
  <1>6. \A h \in Handles : IsOpen(h)' => StillThere(h)
    BY <1>1, Untouched
  <1> QED BY <1>1, <1>2, <1>3, <1>5, <1>6, HandlesKeep

\* fat_close between its flushes.
LEMMA CloseInfoChains ==
  ASSUME TypeOK, VolumeInv, AccessInv, NEW rank \in Ranks, RankInv(rank), CloseInfo
  PROVE  RankInv(rank)'
  <1>1. /\ pc = "closing" /\ UNCHANGED <<fat, dir, owner, file_num>>
        /\ pc' = "info" => call'.info = "close"
        /\ pc' \in {"info", "done"} /\ call'.seeking = call.seeking
    BY DEF CloseInfo, NoWrite, TypeOK, Calls
  <1>2. ~call.seeking /\ ~Walking
    BY <1>1 DEF AccessInv, FreeLabels, Walking
  <1>3. CrossInv(rank)' /\ SeekerInv(rank)'
    BY <1>1, <1>2, NotCrossing, NotSeeking
  <1>4. \A s \in Slots : Live(s)' =>
          Live(s) /\ dir'[s].first = dir[s].first /\ dir'[s].size = dir[s].size
    BY <1>1 DEF Live
  <1>5. \A h \in Handles : IsOpen(h)' => StillThere(h)
    BY <1>1, Untouched
  <1> QED BY <1>1, <1>2, <1>3, <1>4, <1>5, HandlesKeep

\* A call returns.
LEMMA ReturnChains ==
  ASSUME TypeOK, VolumeInv, AccessInv, NEW rank \in Ranks, RankInv(rank), Return
  PROVE  RankInv(rank)'
  <1>1. /\ pc \in {"done", "fail"} /\ pc' = "idle" /\ UNCHANGED <<fat, dir, owner>>
        /\ ~call'.seeking
    BY DEF Return, NoWrite, NoCall
  <1>2. ~Walking
    BY <1>1 DEF Walking
  <1>3. CrossInv(rank)' /\ SeekerInv(rank)'
    BY <1>1, NotCrossing, NotSeeking
  <1>4. \A s \in Slots : Live(s)' =>
          Live(s) /\ dir'[s].first = dir[s].first /\ dir'[s].size = dir[s].size
    BY <1>1 DEF Live
  <1>5. call.op # "open"
    BY <1>1 DEF VolumeInv, CallInv
  <1>6. \/ UNCHANGED file_num \/ SetCur(Closed)
        \/ SetCur([Cur EXCEPT !.flags = @ \cup {"FS_DIRTY"}])
    BY <1>5 DEF Return, Finished
  <1>7. ASSUME NEW h \in Handles, IsOpen(h)' PROVE StillThere(h)
    <2>1. CASE file_num'[h] = file_num[h]
      BY <1>7, <2>1, Untouched
    <2>2. CASE file_num'[h] # file_num[h]
      <3>1. call.fd = h /\ call.fd \in Handles
        BY <1>6, <2>2 DEF SetCur, TypeOK, Calls
      <3>2. file_num'[h] = Closed \/ file_num'[h] = [Cur EXCEPT !.flags = @ \cup {"FS_DIRTY"}]
        BY <1>6, <2>2, <3>1 DEF SetCur, TypeOK
      <3>3. file_num'[h] # Closed
        BY <1>7 DEF IsOpen, Closed
      <3>4. Cur = file_num[h] /\ Cur \in FileS
        BY <3>1 DEF Cur, TypeOK
      <3> QED BY <1>7, <3>2, <3>3, <3>4 DEF StillThere, IsOpen, FileS
    <2> QED BY <2>1, <2>2
  <1> QED BY <1>1, <1>2, <1>3, <1>4, <1>7, HandlesKeep

-----------------------------------------------------------------------------
(* Calls that begin. *)

\* A call that begins leaves files and clusters alone, or opens a handle.
LEMMA IdleChains ==
  ASSUME TypeOK, VolumeInv, NEW rank \in Ranks, RankInv(rank),
         pc = "idle", UNCHANGED <<fat, dir, owner>>,
         \A h \in Handles : IsOpen(h)' =>
           \/ StillThere(h)
           \/ file_num'[h].first = 0 /\ file_num'[h].size = 0
           \/ \E s \in Slots : Live(s) /\ AtStart(file_num'[h], s),
         pc' \in {"idle", "flush", "byte", "delete"}, SeekerInv(rank)'
  PROVE  RankInv(rank)'
  <1>1. ~Walking
    BY DEF Walking
  <1>2. CrossInv(rank)'
    BY NotCrossing
  <1>3. \A s \in Slots : Live(s)' =>
          Live(s) /\ dir'[s].first = dir[s].first /\ dir'[s].size = dir[s].size
    BY DEF Live
  <1> QED BY <1>1, <1>2, <1>3, HandlesKeep

\* fat_open returns a handle on an empty file, or at the beginning of one.
LEMMA OpenedChains ==
  ASSUME TypeOK, VolumeInv, AccessInv, NEW rank \in Ranks, RankInv(rank),
         pc = "idle", UNCHANGED <<fat, dir, owner, pc, call>>,
         NEW h \in Handles, NEW f, file_num' = [file_num EXCEPT ![h] = f],
         \/ f.first = 0 /\ f.size = 0
         \/ \E s \in Slots : Live(s) /\ AtStart(f, s)
  PROVE  RankInv(rank)'
  <1>1. ~call'.seeking
    BY DEF AccessInv
  <1>2. ASSUME NEW g \in Handles, IsOpen(g)'
        PROVE  \/ StillThere(g)
               \/ file_num'[g].first = 0 /\ file_num'[g].size = 0
               \/ \E s \in Slots : Live(s) /\ AtStart(file_num'[g], s)
    <2>1. file_num'[g] = IF g = h THEN f ELSE file_num[g]
      BY DEF TypeOK
    <2>2. CASE g = h
      BY <2>1, <2>2
    <2>3. CASE g # h
      BY <1>2, <2>1, <2>3, Untouched
    <2> QED BY <2>2, <2>3
  <1>3. SeekerInv(rank)'
    BY <1>1, NotSeeking
  <1> QED BY <1>2, <1>3, IdleChains

\* A call is refused, or begins without a seek.
LEMMA RefusedChains ==
  ASSUME TypeOK, VolumeInv, AccessInv, NEW rank \in Ranks, RankInv(rank),
         pc = "idle", UNCHANGED <<fat, dir, owner, file_num>>,
         pc' \in {"idle", "byte", "flush", "delete"}, ~call'.seeking
  PROVE  RankInv(rank)'
  <1>1. \A h \in Handles : IsOpen(h)' => StillThere(h)
    BY Untouched
  <1>2. SeekerInv(rank)'
    BY NotSeeking
  <1> QED BY <1>1, <1>2, IdleChains

\* A call begins with a seek that is not risky.
LEMMA SeekStartChains ==
  ASSUME SafeUse, TypeOK, VolumeInv, NEW rank \in Ranks, RankInv(rank),
         pc = "idle", UNCHANGED <<fat, dir, owner, file_num>>,
         NEW h \in Handles, NEW new, MaySeek(file_num[h], new), pc' = "flush",
         call'.fd = h, call'.flush = "seek", call'.old = Pos(file_num[h]), call'.new = new
  PROVE  RankInv(rank)'
  <1>1. \A g \in Handles : IsOpen(g)' => StillThere(g)
    BY Untouched
  <1>2. Cur' = file_num[h] /\ ~RiskySeek(file_num[h], new)
    BY DEF Cur, MaySeek, SafeUse
  <1>3. SeekerInv(rank)'
    BY <1>2 DEF SeekerInv, Loading, Crossing, Linked, Walking, SeekFlushing, RiskySeek, Pos
  <1> QED BY <1>1, <1>3, IdleChains

\* fat_open.
LEMMA OpensChains ==
  ASSUME SafeUse, TypeOK, VolumeInv, AccessInv, NEW rank \in Ranks, RankInv(rank),
         NEW n \in Names, NEW m \in Modes,
         \/ OpenFound(n, m) \/ OpenUnread(n, m)
         \/ \E ro \in RoModes : OpenMissing(n, m, ro)
  PROVE  RankInv(rank)'
  <1>1. pc = "idle" /\ UNCHANGED <<fat, dir, owner>> /\ ~call.seeking
    BY DEF AccessInv, OpenFound, OpenUnread, OpenMissing, Idle, Ready, NoWrite
  <1>2. UNCHANGED <<pc, call>>
    BY <1>1 DEF OpenFound, OpenUnread, OpenIn, OpenMissing, CreateIn, Refuse, SafeUse
  <1>3. \/ file_num' = file_num
        \/ \E h \in Handles, ro \in RoModes : file_num' = [file_num EXCEPT ![h] = NewFile(n, m, ro)]
        \/ \E h \in Handles, s \in Slots :
             \E f \in {OldFile(s, m), UnreadFile(s, m)} :
                Lookup(s, n) /\ file_num' = [file_num EXCEPT ![h] = f]
    BY DEF OpenFound, OpenUnread, OpenIn, OpenMissing, CreateIn, Refuse, UnreadFile
  <1>4. CASE file_num' = file_num
    BY <1>1, <1>2, <1>4, RefusedChains
  <1>5. CASE \E h \in Handles, ro \in RoModes : file_num' = [file_num EXCEPT ![h] = NewFile(n, m, ro)]
    <2>1. PICK h \in Handles, ro \in RoModes : file_num' = [file_num EXCEPT ![h] = NewFile(n, m, ro)]
      BY <1>5
    <2>2. NewFile(n, m, ro).first = 0 /\ NewFile(n, m, ro).size = 0
      BY DEF NewFile, Closed
    <2> QED BY <1>1, <1>2, <2>1, <2>2, OpenedChains
  <1>6. ASSUME NEW h \in Handles, NEW s \in Slots, NEW f \in {OldFile(s, m), UnreadFile(s, m)},
               Lookup(s, n), file_num' = [file_num EXCEPT ![h] = f]
        PROVE  RankInv(rank)'
    <2>1. AtStart(OldFile(s, m), s) /\ AtStart(UnreadFile(s, m), s)
      BY DEF AtStart, OldFile, UnreadFile, Closed
    <2>2. Live(s) /\ AtStart(f, s)
      BY <1>6, <2>1 DEF Lookup, IsNamed, Live
    <2> QED BY <1>1, <1>2, <1>6, <2>2, OpenedChains
  <1> QED BY <1>3, <1>4, <1>5, <1>6

\* The beginnings of the calls on a handle.
LEMMA CallsChains ==
  ASSUME SafeUse, TypeOK, VolumeInv, AccessInv, NEW rank \in Ranks, RankInv(rank),
         NEW h \in Handles,
         \/ Close(h) \/ BadHandle(h)
         \/ \E bs \in Payloads : Write(h, bs)
         \/ \E n \in 1 .. MaxCount : Read(h, n)
         \/ \E w \in {"SET", "CUR", "END"}, p \in -MaxSize .. MaxSize : Lseek(h, p, w)
  PROVE  RankInv(rank)'
  <1>1. pc = "idle" /\ UNCHANGED <<fat, dir, owner, file_num>> /\ ~call.seeking
    BY DEF AccessInv, Close, BadHandle, Write, Read, Lseek, Idle, Ready, Start, Refuse, NoWrite
  <1>2. CASE Close(h)
    BY <1>1, <1>2, RefusedChains DEF Close, Start, NoCall
  <1>3. CASE BadHandle(h)
    BY <1>1, <1>3, RefusedChains DEF BadHandle, Refuse
  <1>4. CASE \E n \in 1 .. MaxCount : Read(h, n)
    BY <1>1, <1>4, RefusedChains DEF Read, Start, NoCall
  <1>5. CASE \E bs \in Payloads : Write(h, bs)
    <2>1. PICK bs \in Payloads : Write(h, bs)
      BY <1>5
    <2>2. CASE "APPEND" \in file_num[h].flags
      <3>1. MaySeek(file_num[h], file_num[h].size) /\ pc' = "flush"
        BY <2>1, <2>2 DEF Write, Start
      <3>2. /\ call'.fd = h /\ call'.flush = "seek" /\ call'.old = Pos(file_num[h])
            /\ call'.new = file_num[h].size
        BY <2>1, <2>2 DEF Write, Start, NoCall
      <3> QED BY <1>1, <3>1, <3>2, SeekStartChains
    <2>3. CASE "APPEND" \notin file_num[h].flags
      <3>1. pc' = "byte" /\ ~call'.seeking
        BY <2>1, <2>3 DEF Write, Start, NoCall
      <3> QED BY <1>1, <3>1, RefusedChains
    <2> QED BY <2>2, <2>3
  <1>6. CASE \E w \in {"SET", "CUR", "END"}, p \in -MaxSize .. MaxSize : Lseek(h, p, w)
    <2>1. PICK w \in {"SET", "CUR", "END"}, p \in -MaxSize .. MaxSize : Lseek(h, p, w)
      BY <1>6
    <2>2. PICK new : new = (SeekBase(file_num[h], w) + p) % Word
      OBVIOUS
    <2>3. MaySeek(file_num[h], new) /\ pc' = "flush"
      BY <2>1, <2>2 DEF Lseek, Start
    <2>4. /\ call'.fd = h /\ call'.flush = "seek" /\ call'.old = Pos(file_num[h])
          /\ call'.new = new
      BY <2>1, <2>2 DEF Lseek, Start, NoCall
    <2> QED BY <1>1, <2>3, <2>4, SeekStartChains
  <1> QED BY <1>2, <1>3, <1>4, <1>5, <1>6

\* The beginnings of the calls on a name.
LEMMA NamesChains ==
  ASSUME TypeOK, VolumeInv, AccessInv, NEW rank \in Ranks, RankInv(rank), NEW n \in Names,
         OpenNoHandle(n) \/ UnlinkRefused(n) \/ Unlink(n)
  PROVE  RankInv(rank)'
  <1>1. pc = "idle" /\ UNCHANGED <<fat, dir, owner, file_num>> /\ ~call.seeking
    BY DEF AccessInv, OpenNoHandle, UnlinkRefused, Unlink, Idle, Ready, Start, Refuse, NoWrite
  <1>2. pc' \in {"idle", "delete"} /\ ~call'.seeking
    BY <1>1 DEF OpenNoHandle, UnlinkRefused, Unlink, Start, Refuse, NoCall
  <1> QED BY <1>1, <1>2, RefusedChains

\* Power loss: every handle is gone, the chains stay.
LEMMA CrashChains ==
  ASSUME NEW rank \in Ranks, RankInv(rank), Crash
  PROVE  RankInv(rank)'
  <1>1. /\ UNCHANGED <<fat, dir, owner>> /\ pc' = "idle" /\ ~call'.seeking
        /\ \A h \in Handles : ~IsOpen(h)'
    BY DEF Crash, NoWrite, NoCall, Closed, IsOpen
  <1>2. Chained(rank)'
    BY <1>1, ChainsSame DEF RankInv
  <1>3. SizesInv(rank)'
    BY <1>1 DEF RankInv, SizesInv, Covers, InChain, Live
  <1>4. StandInv(rank)' /\ CrossInv(rank)' /\ SeekerInv(rank)'
    BY <1>1, NotCrossing, NotSeeking DEF StandInv
  <1> QED BY <1>2, <1>3, <1>4 DEF RankInv

\* On an empty volume no cluster has a rank.
LEMMA InitRanks == ASSUME Init PROVE \E rank \in Ranks : RankInv(rank)
  <1>1. PICK rank : rank = [c \in Clusters |-> -1]
    OBVIOUS
  <1>2. /\ \A c \in Clusters : rank[c] = -1 /\ owner[c] = 0 /\ fat[c] = 0
        /\ \A s \in Slots : ~Live(s)
        /\ \A h \in Handles : ~IsOpen(h)
        /\ pc = "idle" /\ ~call.seeking
    <2>1. \A c \in Clusters : c \in FatIndex /\ ~(c < 2)
      BY GeometryAssumption DEF Clusters, FatIndex
    <2>2. \A c \in Clusters : rank[c] = -1 /\ owner[c] = 0 /\ fat[c] = 0
      BY <1>1, <2>1 DEF Init
    <2> QED BY <2>2 DEF Init, Live, IsOpen, EmptySlot, Closed, NoCall
  <1>3. rank \in Ranks
    BY <1>1 DEF Ranks
  <1>4. Chained(rank)
    BY <1>2, Markers DEF Chained
  <1>5. SizesInv(rank) /\ StandInv(rank) /\ CrossInv(rank) /\ SeekerInv(rank)
    BY <1>2 DEF SizesInv, StandInv, CrossInv, Crossing, Linked, SeekerInv, WriterSeeks
  <1> QED BY <1>3, <1>4, <1>5 DEF RankInv

-----------------------------------------------------------------------------
(* Every step, and what follows from the invariant. *)

\* The labels at which calls begin.
LEMMA BeginLabels ==
  ASSUME SafeUse, Begin
  PROVE  pc' \in {"idle", "flush", "byte", "delete"}
  <1>1. ASSUME NEW n \in Names, OpenNoHandle(n) \/ Unlink(n) \/ UnlinkRefused(n)
        PROVE  pc' \in {"idle", "delete"}
    BY <1>1 DEF OpenNoHandle, Unlink, UnlinkRefused, Start, Refuse, Idle, Ready
  <1>2. ASSUME NEW n \in Names, NEW m \in Modes,
               \/ OpenFound(n, m) \/ OpenUnread(n, m)
               \/ \E ro \in RoModes : OpenMissing(n, m, ro)
        PROVE  pc' = "idle"
    BY <1>2 DEF OpenFound, OpenUnread, OpenIn, OpenMissing, CreateIn, Refuse, Idle, Ready, SafeUse
  <1>3. ASSUME NEW h \in Handles, Close(h) \/ BadHandle(h)
        PROVE  pc' \in {"idle", "flush"}
    BY <1>3 DEF Close, BadHandle, Start, Refuse, Idle, Ready
  <1>4. ASSUME NEW h \in Handles, NEW bs \in Payloads, Write(h, bs)
        PROVE  pc' \in {"byte", "flush"}
    BY <1>4 DEF Write, Start
  <1>5. ASSUME NEW h \in Handles, NEW n \in 1 .. MaxCount, Read(h, n)
        PROVE  pc' = "byte"
    BY <1>5 DEF Read, Start
  <1>6. ASSUME NEW h \in Handles, NEW w, NEW p, Lseek(h, p, w)
        PROVE  pc' = "flush"
    BY <1>6 DEF Lseek, Start
  <1> QED BY <1>1, <1>2, <1>3, <1>4, <1>5, <1>6, DirectoryWorks DEF Begin

\* fat_free_clusters zeroes the first cluster with the first FAT block.
LEMMA FreeingKept ==
  ASSUME SafeUse, TypeInv, VolumeInv, VolumeInv', FreeingInv, [Next]_vars
  PROVE  FreeingInv'
  <1>0. TypeOK
    BY DEF TypeInv
  <1>1. CASE pc' \notin {"free", "freed"}
    BY <1>1 DEF FreeingInv
  <1>2. CASE FreeEntry
    <2>1. PICK o, r, Z : o = owner[call.res] /\ r = call.res /\ Z = call'.zeroed
      OBVIOUS
    <2>2. /\ pc = "free" /\ pc' \in {"free", "freed"} /\ r \in Z
          /\ call'.block = FatBlock(r) /\ Z \subseteq call.zeroed \cup {r}
          /\ ~Leaving => call.zeroed \subseteq Z
      BY <1>0, <1>2, <2>1 DEF FreeEntry, TypeOK, Calls
    <2>3. /\ call'.res \in Clusters /\ owner'[call'.res] # 0
          /\ \A z \in Z : z \in Clusters /\ owner'[z] = owner'[call'.res]
      BY <2>1, <2>2 DEF VolumeInv, FreeInv
    <2>4. call'.block # NoBlock
      <3>1. r \in FatIndex
        BY <2>2, <2>3, Markers
      <3>2. r \in Nat /\ EntriesPerFatBlock \in Nat \ {0}
        BY <3>1, GeometryAssumption DEF FatIndex
      <3>3. FatBlock(r) \in Nat
        BY <3>2 DEF FatBlock
      <3> QED BY <2>2, <3>3 DEF NoBlock
    <2>5. \/ ~Leaving /\ owner' = owner
          \/ Leaving /\ WriteZeroes
      BY <1>2 DEF FreeEntry, SafeUse, Fault
    <2>6. /\ r \in Clusters /\ o # 0 /\ o \in Clusters
          /\ \A z \in call.zeroed : z \in Clusters /\ owner[z] = o
      BY <2>1, <2>2 DEF VolumeInv, FreeInv, FatInv
    <2>7. \A c \in FatIndex : owner'[c] \in {0, owner[c]}
                              /\ (Leaving /\ c \in call.zeroed => owner'[c] = 0)
      BY <1>0, <2>5 DEF TypeOK, WriteZeroes, Zero
    <2>8. owner'[call'.res] = o
      BY <2>1, <2>2, <2>3, <2>6, <2>7, Markers
    <2>9. o \in Z \/ owner'[o] # o
      <3>1. CASE call.block = NoBlock
        BY <2>1, <2>2, <3>1 DEF FreeingInv
      <3>2. CASE call.block # NoBlock
        <4>1. o \in call.zeroed \/ owner[o] # o
          BY <2>1, <2>2, <3>2 DEF FreeingInv
        <4> QED BY <2>2, <2>6, <2>7, <4>1, Markers
      <3> QED BY <3>1, <3>2
    <2> QED BY <2>1, <2>2, <2>4, <2>8, <2>9 DEF FreeingInv
  <1>3. CASE DeleteEntry
    <2>1. /\ pc = "delete" /\ pc' = "free" /\ UNCHANGED <<owner, call>>
      BY <1>3 DEF DeleteEntry
    <2>2. /\ call.slot \in Slots /\ Live(call.slot) /\ dir[call.slot].first = call.res
          /\ call.block = NoBlock
      BY <2>1 DEF VolumeInv, FreeInv, TypeInv
    <2>3. owner[call.res] = call.res
      BY <2>2 DEF VolumeInv, DirInv
    <2> QED BY <2>1, <2>2, <2>3 DEF FreeingInv
  <1>4. CASE UNCHANGED vars
    BY <1>4 DEF vars, FreeingInv
  <1>5. pc' \in {"free", "freed"} => FreeEntry \/ DeleteEntry \/ UNCHANGED vars
    <2> SUFFICES ASSUME pc' \in {"free", "freed"} PROVE FreeEntry \/ DeleteEntry \/ UNCHANGED vars
      OBVIOUS
    <2>1. call'.op = "unlink"
      BY DEF VolumeInv, CallInv, FreeLabels
    <2>2. CASE FlushStep \/ InfoStep
      BY <2>2 DEF FlushStep, InfoStep, FlushClean, FlushNoSpace, FlushWrite, FlushWriteFails,
         FlushAllocate, InfoSkip, InfoWrite, InfoWriteFails, InfoUnreadable, InfoAstray, InfoLost, AfterFlush, AfterInfo, AfterSector, AfterNext
    <2>3. CASE NextStep
      BY <2>3 DEF NextStep, SectorHop, SectorEnd, SelectCluster, NextLink, NextEnd, NextUnreadable,
         NextChain, NextChainFails, NextAllocate, NextReturn, AfterSector, AfterNext
    <2>4. CASE SeekStep \/ ByteStep
      BY <2>4 DEF SeekStep, ByteStep, SeekOutside, SeekFlushed, SeekSector, SeekCluster, SeekRewind,
         WalkNext, WalkMove, WalkEnd, EndSeek, AfterSeek, SeekLoad,
         WriteByte, ReadByte, BytesDone, NeedSector
    <2>5. CASE FreeStep \/ CloseInfo \/ Return
      BY <2>5 DEF FreeStep, FreeUnreadable, FreeLast, CloseInfo, Return
    <2>6. CASE Begin
      BY <2>6, BeginLabels
    <2>7. CASE Crash
      BY <2>7 DEF Crash
    <2> QED BY <2>2, <2>3, <2>4, <2>5, <2>6, <2>7 DEF Next, Step
  <1> QED BY <1>1, <1>2, <1>3, <1>4, <1>5

\* Only a flush that precedes a seek, or belongs to none, starts a chain.
LEMMA FirstKept ==
  ASSUME SafeUse, TypeOK, AccessInv, AccessInv', FirstInv, NEW rank \in Ranks, RankInv(rank), [Next]_vars
  PROVE  FirstInv'
  <1>1. CASE UNCHANGED vars
    BY <1>1 DEF vars, FirstInv
  <1>2. CASE FlushWrite
    BY <1>2 DEF FlushWrite, FirstInv, TypeOK, Calls, AfterFlush, AfterSector, AfterNext
  <1>3. CASE \E k \in FatIndex : FlushAllocate(k)
    <2>1. PICK k \in FatIndex : FlushAllocate(k)
      BY <1>3
    <2>2. pc = "flush" /\ "DIRTY" \in Cur.flags /\ call' = call /\ pc' # "info"
      BY <2>1 DEF FlushAllocate, AfterFlush, AfterSector, AfterNext
    <2>3. call.fd \in Handles
      BY DEF TypeOK, Calls
    <2>4. "WRITE" \in Cur.flags
      BY <2>2, <2>3 DEF AccessInv, FlagsInv, Cur
    <2>5. call.seeking => call.flush = "seek"
      BY <2>2, <2>4 DEF RankInv, SeekerInv, WriterSeeks, SeekFlushing
    <2> QED BY <2>2, <2>5 DEF FirstInv
  <1>4. CASE FlushClean \/ FlushNoSpace \/ FlushWriteFails \/ InfoStep
    <2>1. pc' \notin {"data", "info"}
      BY <1>4 DEF InfoStep, FlushClean, FlushNoSpace, FlushWriteFails,
         InfoSkip, InfoWrite, InfoWriteFails, InfoUnreadable, InfoAstray, InfoLost, AfterFlush, AfterInfo, AfterSector, AfterNext
    <2> QED BY <2>1 DEF FirstInv
  <1>5. CASE NextStep
    <2>1. pc' # "data" /\ (pc' = "info" => call'.info = "next")
      BY <1>5 DEF NextStep, SectorHop, SectorEnd, SelectCluster, NextLink, NextEnd, NextUnreadable,
         NextChain, NextChainFails, NextAllocate, NextReturn, AfterSector, AfterNext, TypeOK, Calls
    <2> QED BY <2>1 DEF FirstInv
  <1>6. CASE SeekStep \/ ByteStep
    <2>1. pc' \notin {"data", "info"}
      BY <1>6 DEF SeekStep, ByteStep, SeekOutside, SeekFlushed, SeekSector, SeekCluster, SeekRewind,
         WalkNext, WalkMove, WalkEnd, EndSeek, AfterSeek, SeekLoad,
         WriteByte, ReadByte, BytesDone, NeedSector
    <2> QED BY <2>1 DEF FirstInv
  <1>7. CASE FreeStep \/ CloseInfo \/ Return
    <2>1. pc' # "data" /\ (pc' = "info" => call'.info = "close")
      BY <1>7 DEF FreeStep, FreeEntry, FreeUnreadable, FreeLast, DeleteEntry, CloseInfo, Return, TypeOK, Calls
    <2> QED BY <2>1 DEF FirstInv
  <1>8. CASE Begin
    <2>1. pc' \notin {"data", "info"}
      BY <1>8, BeginLabels
    <2> QED BY <2>1 DEF FirstInv
  <1>9. CASE Crash
    BY <1>9 DEF Crash, FirstInv
  <1> QED BY <1>1, <1>2, <1>3, <1>4, <1>5, <1>6, <1>7, <1>8, <1>9 DEF Next, Step, FlushStep

\* Every step keeps the chain invariant.
LEMMA NextKeepsChains ==
  ASSUME SafeUse, TypeInv, VolumeInv, VolumeInv', ChainInv, [Next]_vars
  PROVE  ChainInv'
  <1>0. TypeOK /\ AccessInv /\ FirstInv /\ FreeingInv
    BY DEF TypeInv, ChainInv
  <1>1. PICK rank \in Ranks : RankInv(rank)
    BY DEF ChainInv
  <1>2. AccessInv'
    BY <1>0, NextKeepsAccess
  <1>3. FirstInv'
    BY <1>0, <1>1, <1>2, FirstKept
  <1>4. FreeingInv'
    BY <1>0, FreeingKept
  <1>5. \E next \in Ranks : RankInv(next)'
    <2>1. CASE FlushStep
      BY <1>0, <1>1, <2>1, FlushChains
    <2>2. CASE InfoStep
      BY <1>0, <1>1, <2>2, InfoChains
    <2>3. CASE NextStep
      BY <1>0, <1>1, <2>3, NextChains
    <2>4. CASE SeekStep
      BY <1>0, <1>1, <2>4, SeekChains
    <2>5. CASE ByteStep
      BY <1>0, <1>1, <2>5, ByteChains
    <2>6. CASE FreeStep
      BY <1>0, <1>1, <2>6, FreeChains, DeleteChains DEF FreeStep
    <2>7. CASE CloseInfo \/ Return
      BY <1>0, <1>1, <2>7, CloseInfoChains, ReturnChains
    <2>8. CASE Begin
      BY <1>0, <1>1, <2>8, OpensChains, CallsChains, NamesChains, DirectoryWorks DEF Begin
    <2>9. CASE Crash
      BY <1>1, <2>9, CrashChains
    <2>10. CASE UNCHANGED vars
      <3>1. Chained(rank)'
        BY <1>1, <2>10, ChainsSame DEF RankInv, vars
      <3>2. SizesInv(rank)' /\ StandInv(rank)'
        BY <1>1, <2>10 DEF RankInv, SizesInv, StandInv, Covers, StandsAt, InChain, Aligned, PlacedAt,
           IsOpen, Live, Walking, vars
      <3>3. CrossInv(rank)' /\ SeekerInv(rank)'
        BY <1>1, <2>10 DEF RankInv, CrossInv, SeekerInv, Crossing, Linked, Walking, WriterSeeks,
           SeekFlushing, Loading, Room, Reaches, RiskySeek, Pos, InChain, Cur, vars
      <3> QED BY <1>1, <3>1, <3>2, <3>3 DEF RankInv
    <2> QED BY <2>1, <2>2, <2>3, <2>4, <2>5, <2>6, <2>7, <2>8, <2>9, <2>10 DEF Next, Step
  <1> QED BY <1>2, <1>3, <1>4, <1>5 DEF ChainInv

\* It holds at first.
LEMMA InitChains == ASSUME Init PROVE ChainInv
  <1>1. pc = "idle"
    BY DEF Init
  <1> QED BY <1>1, InitAccess, InitRanks DEF ChainInv, FirstInv, FreeingInv

\* Every step keeps the three invariants together.
LEMMA NextInOrder ==
  SafeUse /\ TypeInv /\ VolumeInv /\ ChainInv /\ [Next]_vars
    => TypeInv' /\ VolumeInv' /\ ChainInv'
  <1> SUFFICES ASSUME SafeUse, TypeInv, VolumeInv, ChainInv, [Next]_vars
               PROVE  TypeInv' /\ VolumeInv' /\ ChainInv'
    OBVIOUS
  <1>1. TypeInv' /\ VolumeInv'
    BY NextKeepsType, NextSafe
  <1> QED BY <1>1, NextKeepsChains

\* As long as callers keep to SafeUse, every cluster in use has a rank along
\* the chain of its file: the FAT has no cycles, every file's chain has room for
\* the size in its directory entry and for the size its open handle knows, and
\* every handle that may write stands on the cluster, the sector and the position
\* that its cached fields say - in the middle of any call, through every seek, and
\* after a power loss at any block write.
THEOREM ChainsInOrder == ASSUME SafeUse PROVE Spec => []ChainInv
  <1>1. Init => TypeInv /\ VolumeInv /\ ChainInv
    BY InitType, InitSafe, InitChains
  <1>2. TypeInv /\ VolumeInv /\ ChainInv /\ [Next]_vars => TypeInv' /\ VolumeInv' /\ ChainInv'
    BY NextInOrder
  <1> QED BY <1>1, <1>2, PTL DEF Spec

\* fat_flush writes to the sector on which the writer stands.
LEMMA FlushWritesOwn ==
  ASSUME TypeOK, VolumeInv, ChainInv, FlushWrite
  PROVE  Cur.sector >= FirstData /\ owner[ClusterOf(Cur.sector)] = Cur.first
  <1>1. PICK rank \in Ranks : RankInv(rank)
    BY DEF ChainInv
  <1>2. /\ call.fd \in Handles /\ Cur \in FileS
        /\ pc \in {"flush", "data"} /\ "DIRTY" \in Cur.flags
        /\ pc = "flush" => Cur.sector # 0
    BY DEF FlushWrite, ChainInv, AccessInv, TypeOK, Calls, Cur
  <1>3. "WRITE" \in Cur.flags
    BY <1>2 DEF ChainInv, AccessInv, FlagsInv, Cur
  <1>4. ~Walking
    BY <1>1, <1>2, <1>3 DEF Walking, ChainInv, AccessInv, RankInv, SeekerInv, WriterSeeks, SeekFlushing
  <1>5. IsOpen(call.fd)
    BY <1>2 DEF VolumeInv, CallInv, FreeLabels, HandleInv, ClosedInv, Closed, Cur, IsOpen
  <1>6. Cur.first # 0
    BY <1>2, <1>5, CurStored DEF VolumeInv, CallInv, NeedsStored, Unstored
  <1>7. /\ Cur.cluster \in Clusters /\ owner[Cur.cluster] = Cur.first
        /\ rank[Cur.cluster] >= 0 /\ Aligned(rank, Cur)
    BY <1>1, <1>3, <1>4, <1>5, <1>6, CurStands
  <1>8. Cur.sector >= FirstData /\ ClusterOf(Cur.sector) = Cur.cluster
    BY <1>2, <1>7, StandingAt
  <1> QED BY <1>7, <1>8

\* The only step that writes data is fat_flush.
LEMMA DataInOwnCluster ==
  TypeInv /\ VolumeInv /\ ChainInv /\ [Next]_vars =>
    \A s \in Sectors : disk'[s] # disk[s] =>
      s >= FirstData /\ owner[ClusterOf(s)] = Cur.first
  <1> SUFFICES ASSUME TypeInv, VolumeInv, ChainInv, [Next]_vars, NEW s \in Sectors, disk'[s] # disk[s]
               PROVE  s >= FirstData /\ owner[ClusterOf(s)] = Cur.first
    OBVIOUS
  <1>0. TypeOK
    BY DEF TypeInv
  <1>1. FlushWrite
    BY <1>0, OnlyFlushWrites
  <1>2. s = Cur.sector
    BY <1>0, <1>1 DEF FlushWrite, TypeOK
  <1> QED BY <1>0, <1>1, <1>2, FlushWritesOwn

\* As long as callers keep to SafeUse, fat_flush writes a file's data only into
\* clusters allocated to that file: for every geometry, and whatever sequence of
\* writes and seeks has brought the handle where it is.
THEOREM OwnClustersWritten == ASSUME SafeUse PROVE Spec => WritesOwnCluster
  <1>1. Init => TypeInv /\ VolumeInv /\ ChainInv
    BY InitType, InitSafe, InitChains
  <1>2. TypeInv /\ VolumeInv /\ ChainInv /\ [Next]_vars => TypeInv' /\ VolumeInv' /\ ChainInv'
    BY NextInOrder
  <1>3. TypeInv /\ VolumeInv /\ ChainInv /\ [Next]_vars =>
          [\A s \in Sectors : disk'[s] # disk[s] =>
             s >= FirstData /\ owner[ClusterOf(s)] = Cur.first]_vars
    BY DataInOwnCluster
  <1> QED BY <1>1, <1>2, <1>3, PTL DEF Spec, WritesOwnCluster

-----------------------------------------------------------------------------
(* The chain of a file, as the FAT leads through it. *)

\* Induction over the natural numbers, for sets.
LEMMA SetInduction ==
  ASSUME NEW S, 0 \in S, \A n \in Nat : n \in S => n + 1 \in S
  PROVE  Nat \subseteq S
  <1> DEFINE R == OpToRel(<, Nat)
             T == {n \in Nat : n \notin S}
  <1>1. SUFFICES ASSUME T # {} PROVE FALSE
    OBVIOUS
  <1>2. IsWellFoundedOn(R, Nat)
    BY NatLessThanWellFounded
  <1>3. T \subseteq Nat
    OBVIOUS
  <1>4. \A x, y \in Nat : x < y => <<x, y>> \in R
    BY DEF OpToRel
  <1> HIDE DEF R, T
  <1>5. PICK x \in T : \A y \in T : ~ (<<y, x>> \in R)
    BY <1>1, <1>2, <1>3, WFMin
  <1>6. x \in Nat /\ x \notin S /\ x # 0 /\ x - 1 \in Nat /\ x - 1 < x
    BY <1>5 DEF T
  <1>7. x - 1 \in S
    BY <1>4, <1>5, <1>6 DEF T
  <1> QED BY <1>6, <1>7

\* nth is the walk along the FAT from first, as far as the n-th link.
Walks(f, first, nth, n) ==
  nth = [i \in 0 .. n |->
           IF i = 0 THEN first ELSE IF nth[i - 1] \in Clusters THEN f[nth[i - 1]] ELSE Bad]

\* The walk exists, however long.
LEMMA WalkDefined ==
  ASSUME NEW f, NEW first
  PROVE  \A n \in Nat : \E nth : Walks(f, first, nth, n)
  <1> DEFINE S == {n \in Nat : \E nth : Walks(f, first, nth, n)}
  <1>1. 0 \in S
    <2> DEFINE k == [i \in 0 .. 0 |-> first]
    <2>1. Walks(f, first, k, 0)
      BY DEF Walks
    <2> QED BY <2>1
  <1>2. ASSUME NEW n \in Nat, n \in S PROVE n + 1 \in S
    <2>1. PICK k : Walks(f, first, k, n)
      BY <1>2
    <2> DEFINE e == IF k[n] \in Clusters THEN f[k[n]] ELSE Bad
               kk == [i \in 0 .. n + 1 |-> IF i = n + 1 THEN e ELSE k[i]]
    <2>2. \A i \in 0 .. n : kk[i] = k[i]
      OBVIOUS
    <2>3. ASSUME NEW i \in 0 .. n + 1
          PROVE  kk[i] = IF i = 0 THEN first
                         ELSE IF kk[i - 1] \in Clusters THEN f[kk[i - 1]] ELSE Bad
      <3>1. CASE i = n + 1
        <4>1. kk[n] = k[n] /\ i - 1 = n /\ i # 0
          BY <3>1
        <4> QED BY <3>1, <4>1
      <3>2. CASE i # n + 1 /\ i # 0
        <4>1. i \in 0 .. n /\ i - 1 \in 0 .. n
          BY <3>2
        <4>2. kk[i] = k[i] /\ kk[i - 1] = k[i - 1]
          BY <4>1
        <4>3. k[i] = IF k[i - 1] \in Clusters THEN f[k[i - 1]] ELSE Bad
          BY <2>1, <3>2, <4>1 DEF Walks
        <4> QED BY <3>2, <4>2, <4>3
      <3>3. CASE i = 0
        <4>1. kk[0] = k[0] /\ k[0] = first
          BY <2>1 DEF Walks
        <4> QED BY <3>3, <4>1
      <3> QED BY <3>1, <3>2, <3>3
    <2>4. Walks(f, first, kk, n + 1)
      <3>1. kk = [i \in 0 .. n + 1 |-> kk[i]]
        OBVIOUS
      <3> HIDE DEF kk
      <3> QED BY <2>3, <3>1 DEF Walks
    <2> QED BY <2>4
  <1> HIDE DEF S
  <1>3. Nat \subseteq S
    BY <1>1, <1>2, SetInduction
  <1> QED BY <1>3 DEF S

\* What ChainFrom computes.
LEMMA ChainWalks ==
  ASSUME NEW first
  PROVE  /\ ChainFrom(first)[0] = first
         /\ \A i \in 1 .. LastCluster :
              ChainFrom(first)[i] = IF ChainFrom(first)[i - 1] \in Clusters
                                    THEN fat[ChainFrom(first)[i - 1]] ELSE Bad
  <1>0. LastCluster \in Nat
    BY GeometryAssumption
  <1> DEFINE nth == CHOOSE k : Walks(fat, first, k, LastCluster)
  <1>1. ChainFrom(first) = nth
    BY DEF ChainFrom, Walks
  <1>2. Walks(fat, first, nth, LastCluster)
    BY <1>0, WalkDefined
  <1> HIDE DEF nth
  <1>3. nth[0] = first
    BY <1>0, <1>2 DEF Walks
  <1>4. ASSUME NEW i \in 1 .. LastCluster
        PROVE nth[i] = IF nth[i - 1] \in Clusters THEN fat[nth[i - 1]] ELSE Bad
    BY <1>0, <1>2 DEF Walks
  <1> QED BY <1>1, <1>3, <1>4

\* From the first cluster of a chain the FAT leads through its clusters rank
\* by rank, up to any cluster c of the chain.
LEMMA WalkThroughRanks ==
  ASSUME TypeOK, FatInv, NEW rank \in Ranks, Chained(rank), NEW first \in Clusters,
         owner[first] = first, NEW c \in Clusters, InChain(rank, c, first),
         NEW i \in Nat, i <= rank[c], i <= LastCluster
  PROVE  InChain(rank, ChainFrom(first)[i], first) /\ rank[ChainFrom(first)[i]] = i
  <1>0. LastCluster \in Nat /\ rank[c] \in Nat
    BY GeometryAssumption DEF Ranks, InChain
  <1> DEFINE nth == ChainFrom(first)
             S == {n \in Nat : n <= rank[c] /\ n <= LastCluster =>
                     InChain(rank, nth[n], first) /\ rank[nth[n]] = n}
  <1>1. /\ nth[0] = first
        /\ \A n \in 1 .. LastCluster :
             nth[n] = IF nth[n - 1] \in Clusters THEN fat[nth[n - 1]] ELSE Bad
    BY ChainWalks
  <1> HIDE DEF nth
  <1>2. 0 \in S
    BY <1>1 DEF Chained, InChain
  <1>3. ASSUME NEW n \in Nat, n \in S PROVE n + 1 \in S
    <2>1. SUFFICES ASSUME n + 1 <= rank[c], n + 1 <= LastCluster
                   PROVE  InChain(rank, nth[n + 1], first) /\ rank[nth[n + 1]] = n + 1
      OBVIOUS
    <2>2. InChain(rank, nth[n], first) /\ rank[nth[n]] = n
      BY <1>0, <1>3, <2>1
    <2>3. PICK e \in Clusters : e = nth[n]
      BY <2>2 DEF InChain
    <2>4. owner[e] = first /\ rank[e] = n
      BY <2>2, <2>3 DEF InChain
    <2>5. nth[n + 1] = fat[e]
      <3>1. n + 1 \in 1 .. LastCluster /\ n + 1 - 1 = n
        BY <1>0, <2>1
      <3> QED BY <1>1, <2>3, <3>1
    <2>6. fat[e] # 0
      BY <2>4, Markers DEF FatInv
    <2>7. fat[e] # EndMarker
      <3> SUFFICES ASSUME fat[e] = EndMarker PROVE FALSE
        OBVIOUS
      <3>1. rank[c] <= rank[e]
        BY <2>4 DEF Chained, InChain
      <3> QED BY <1>0, <2>1, <2>4, <3>1
    <2>8. fat[e] \in Clusters
      BY <2>6, <2>7 DEF FatInv
    <2>9. owner[fat[e]] = first /\ rank[fat[e]] = n + 1
      BY <2>4, <2>8 DEF FatInv, Chained
    <2> QED BY <2>5, <2>8, <2>9 DEF InChain
  <1>4. Nat \subseteq S
    <2> HIDE DEF S
    <2> QED BY <1>2, <1>3, SetInduction
  <1> QED BY <1>4 DEF nth

\* A chain is as long as the rank of any of its clusters says.
LEMMA ChainCounts ==
  ASSUME TypeOK, FatInv, NEW rank \in Ranks, Chained(rank), NEW first \in Clusters,
         owner[first] = first, NEW c \in Clusters, InChain(rank, c, first)
  PROVE  Cardinality(Chain(first)) \in Nat /\ rank[c] + 1 <= Cardinality(Chain(first))
  <1>0. LastCluster \in Nat /\ LastCluster >= 2 /\ rank[c] \in Nat
    BY GeometryAssumption DEF Ranks, InChain
  <1>1. PICK m \in Nat : m = IF rank[c] <= LastCluster THEN rank[c] ELSE LastCluster
    BY <1>0
  <1>2. \A i \in 0 .. m : /\ InChain(rank, ChainFrom(first)[i], first)
                          /\ rank[ChainFrom(first)[i]] = i
    BY <1>0, <1>1, WalkThroughRanks
  <1>3. /\ IsFiniteSet(Clusters) /\ Cardinality(Clusters) = LastCluster - 1
    <2>1. 2 \in Int /\ LastCluster \in Int /\ ~(2 > LastCluster)
      BY <1>0
    <2>2. /\ IsFiniteSet(2 .. LastCluster)
          /\ Cardinality(2 .. LastCluster)
               = IF 2 > LastCluster THEN 0 ELSE LastCluster - 2 + 1
      BY <2>1, FS_Interval
    <2> QED BY <1>0, <2>1, <2>2 DEF Clusters
  <1>4. Chain(first) \subseteq Clusters
    BY DEF Chain
  <1>5. /\ IsFiniteSet(Chain(first)) /\ Cardinality(Chain(first)) \in Nat
        /\ Cardinality(Chain(first)) <= LastCluster - 1
    BY <1>3, <1>4, FS_Subset, FS_CardinalityType
  <1>6. PICK g : g = [i \in 0 .. m |-> ChainFrom(first)[i]]
    OBVIOUS
  <1>7. g \in Injection(0 .. m, Chain(first))
    <2>1. \A i \in 0 .. m : g[i] \in Chain(first)
      <3> SUFFICES ASSUME NEW i \in 0 .. m PROVE g[i] \in Chain(first)
        OBVIOUS
      <3>1. i \in 0 .. LastCluster
        BY <1>0, <1>1
      <3>2. g[i] = ChainFrom(first)[i] /\ ChainFrom(first)[i] \in Clusters
        BY <1>2, <1>6 DEF InChain
      <3> QED BY <3>1, <3>2 DEF Chain
    <2>2. \A i, j \in 0 .. m : g[i] = g[j] => i = j
      <3> SUFFICES ASSUME NEW i \in 0 .. m, NEW j \in 0 .. m, g[i] = g[j] PROVE i = j
        OBVIOUS
      <3>1. rank[g[i]] = i /\ rank[g[j]] = j
        BY <1>2, <1>6
      <3> QED BY <3>1
    <2>3. g \in [0 .. m -> Chain(first)]
      BY <1>6, <2>1
    <2> QED BY <2>2, <2>3 DEF Injection, IsInjective
  <1>8. Cardinality(0 .. m) = m + 1
    BY <1>1, FS_Interval
  <1>9. m + 1 <= Cardinality(Chain(first))
    BY <1>5, <1>7, <1>8, FS_Injection
  <1>10. rank[c] <= LastCluster
    BY <1>0, <1>1, <1>5, <1>9
  <1> QED BY <1>1, <1>5, <1>9, <1>10

\* The size of an entry is covered by the clusters the walk from its first
\* cluster finds.
LEMMA ChainsCover == TypeOK /\ VolumeInv /\ ChainInv => SizeCovered
  <1> SUFFICES ASSUME TypeOK, VolumeInv, ChainInv, NEW s \in Slots, Live(s)
               PROVE  dir[s].size <= Cardinality(Chain(dir[s].first)) * ClusterBytes
    BY DEF SizeCovered
  <1>1. PICK rank \in Ranks : RankInv(rank)
    BY DEF ChainInv
  <1>2. PICK first \in Clusters : first = dir[s].first /\ owner[first] = first
    BY DEF VolumeInv, DirInv
  <1>3. PICK c \in Clusters : InChain(rank, c, first) /\ dir[s].size <= (rank[c] + 1) * ClusterBytes
    BY <1>1, <1>2 DEF RankInv, SizesInv, Covers
  <1>4. PICK n \in Nat : n = Cardinality(Chain(first))
    BY <1>1, <1>2, <1>3, ChainCounts DEF RankInv, VolumeInv
  <1>5. rank[c] + 1 <= n
    BY <1>1, <1>2, <1>3, <1>4, ChainCounts DEF RankInv, VolumeInv
  <1>6. ClusterBytes \in Nat /\ dir[s].size \in Nat /\ rank[c] \in Nat
    BY <1>3, GeometryAssumption DEF ClusterBytes, TypeOK, DirEntry, InChain, Ranks
  <1>7. PICK b \in Nat, r \in Nat : b = ClusterBytes /\ r = rank[c] + 1
    BY <1>6
  <1>8. r * b <= n * b
    BY <1>5, <1>7, Z3
  <1>9. dir[s].size <= r * b
    BY <1>3, <1>7
  <1>10. r * b \in Nat /\ n * b \in Nat
    OBVIOUS
  <1>11. dir[s].size <= n * b
    BY <1>6, <1>8, <1>9, <1>10
  <1> QED BY <1>2, <1>4, <1>7, <1>11

\* As long as callers keep to SafeUse, the size in every directory entry is
\* covered by the chain the FAT leads through from the entry's first cluster: in
\* the middle of any call and after a power loss between any two writes of
\* fat_flush, fat_next_cluster and fat_flush_fileinfo.
THEOREM SizesCovered == ASSUME SafeUse PROVE Spec => []SizeCovered
  <1>1. Init => TypeInv /\ VolumeInv /\ ChainInv
    BY InitType, InitSafe, InitChains
  <1>2. TypeInv /\ VolumeInv /\ ChainInv /\ [Next]_vars => TypeInv' /\ VolumeInv' /\ ChainInv'
    BY NextInOrder
  <1>3. TypeInv /\ VolumeInv /\ ChainInv => SizeCovered
    BY ChainsCover DEF TypeInv
  <1> QED BY <1>1, <1>2, <1>3, PTL DEF Spec
=============================================================================
