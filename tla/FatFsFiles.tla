----------------------------- MODULE FatFsFiles -----------------------------
(***************************************************************************)
(* Theorems about FatFs and FatVolume: under SafeUse no call disturbs what *)
(* the volume stores of another file, and, as long as no power was lost    *)
(* and no operation has failed, every allocated cluster is in the chain of *)
(* a file.  The first follows from ChainInv: what is stored of a file      *)
(* depends on its entry, on the links of its clusters and on their         *)
(* sectors; the second from SpaceInv, below.                               *)
(***************************************************************************)
EXTENDS FatFsChains

-----------------------------------------------------------------------------
(* What is stored of a file. *)

\* What ChainFrom computes after a step, for the chain of an entry.
LEMMA ChainWalksOn ==
  ASSUME NEW s
  PROVE  /\ (ChainFrom(dir[s].first)')[0] = dir'[s].first
         /\ \A i \in 1 .. LastCluster :
              (ChainFrom(dir[s].first)')[i] =
                IF (ChainFrom(dir[s].first)')[i - 1] \in Clusters
                THEN fat'[(ChainFrom(dir[s].first)')[i - 1]] ELSE Bad
  <1>0. LastCluster \in Nat
    BY GeometryAssumption
  <1> DEFINE nth == CHOOSE k : Walks(fat', dir'[s].first, k, LastCluster)
  <1>1. ChainFrom(dir[s].first)' = nth
    BY DEF ChainFrom, Walks, Clusters, Bad
  <1>2. Walks(fat', dir'[s].first, nth, LastCluster)
    BY <1>0, WalkDefined
  <1> HIDE DEF nth
  <1>3. nth[0] = dir'[s].first
    BY <1>0, <1>2 DEF Walks
  <1>4. ASSUME NEW i \in 1 .. LastCluster
        PROVE nth[i] = IF nth[i - 1] \in Clusters THEN fat'[nth[i - 1]] ELSE Bad
    BY <1>0, <1>2 DEF Walks
  <1> QED BY <1>1, <1>3, <1>4

\* A chain whose links a step leaves alone is walked as before, and the walk
\* stays within the clusters allocated to it.
LEMMA WalkSame ==
  ASSUME TypeOK, FatInv, NEW s, NEW first \in Clusters, owner[first] = first,
         dir[s].first = first, dir'[s].first = first,
         \A c \in Clusters : owner[c] = first => fat'[c] = fat[c]
  PROVE  \A i \in 0 .. LastCluster :
           /\ (ChainFrom(dir[s].first)')[i] = ChainFrom(dir[s].first)[i]
           /\ ChainFrom(dir[s].first)[i] \in Clusters =>
                owner[ChainFrom(dir[s].first)[i]] = first
  <1>0. LastCluster \in Nat
    BY GeometryAssumption
  <1> DEFINE old == ChainFrom(dir[s].first)
             new == ChainFrom(dir[s].first)'
             S == {n \in Nat : n <= LastCluster =>
                     new[n] = old[n] /\ (old[n] \in Clusters => owner[old[n]] = first)}
  <1>1. /\ old[0] = first
        /\ \A n \in 1 .. LastCluster :
             old[n] = IF old[n - 1] \in Clusters THEN fat[old[n - 1]] ELSE Bad
    BY ChainWalks
  <1>2. /\ new[0] = first
        /\ \A n \in 1 .. LastCluster :
             new[n] = IF new[n - 1] \in Clusters THEN fat'[new[n - 1]] ELSE Bad
    BY ChainWalksOn
  <1> HIDE DEF old, new
  <1>3. 0 \in S
    BY <1>1, <1>2
  <1>4. ASSUME NEW n \in Nat, n \in S PROVE n + 1 \in S
    <2>1. SUFFICES ASSUME n + 1 <= LastCluster
                   PROVE  /\ new[n + 1] = old[n + 1]
                          /\ old[n + 1] \in Clusters => owner[old[n + 1]] = first
      OBVIOUS
    <2>2. new[n] = old[n] /\ (old[n] \in Clusters => owner[old[n]] = first)
      BY <1>0, <1>4, <2>1
    <2>3. n + 1 \in 1 .. LastCluster /\ n + 1 - 1 = n
      BY <1>0, <2>1
    <2>4. CASE old[n] \in Clusters
      <3>1. new[n + 1] = fat'[old[n]] /\ old[n + 1] = fat[old[n]]
        BY <1>1, <1>2, <2>2, <2>3, <2>4
      <3> QED BY <2>2, <2>4, <3>1 DEF FatInv
    <2>5. CASE old[n] \notin Clusters
      <3>1. new[n + 1] = Bad /\ old[n + 1] = Bad
        BY <1>1, <1>2, <2>2, <2>3, <2>5
      <3>2. Bad \notin Clusters
        BY GeometryAssumption DEF Bad, Clusters
      <3> QED BY <3>1, <3>2
    <2> QED BY <2>4, <2>5
  <1>5. Nat \subseteq S
    <2> HIDE DEF S
    <2> QED BY <1>3, <1>4, SetInduction
  <1> QED BY <1>5 DEF old, new

\* The sectors of a cluster belong to it.
LEMMA SectorsBelong ==
  ASSUME NEW c \in Clusters, NEW j \in 0 .. SectorsPerCluster - 1
  PROVE  SectorOf(c) + j \in Sectors /\ ClusterOf(SectorOf(c) + j) = c
  <1>1. /\ SectorOf(c) = c * SectorsPerCluster + Cluster0
        /\ SectorOf(c) \in Nat \ {0}
        /\ SectorOf(c) + SectorsPerCluster - 1 <= LastSector
    BY ClusterSectors
  <1>2. c \in Nat /\ SectorsPerCluster \in Nat \ {0} /\ Cluster0 \in Nat
    BY GeometryAssumption DEF Clusters
  <1>3. LastSector \in Int
    BY GeometryAssumption DEF LastSector
  <1>4. SectorOf(c) + j \in Sectors
    BY <1>1, <1>2, <1>3 DEF Sectors
  <1>5. (c * SectorsPerCluster + j) \div SectorsPerCluster = c
    BY <1>2, DivModUnique
  <1>6. PICK x \in Nat : x = SectorOf(c) + j
    BY <1>1, <1>2
  <1>7. ClusterOf(x) = c
    <2>1. x - Cluster0 = c * SectorsPerCluster + j
      BY <1>1, <1>2, <1>6
    <2> QED BY <1>5, <2>1 DEF ClusterOf
  <1> QED BY <1>4, <1>6, <1>7

\* Every byte of a file lies on a cluster the walk has a number for.
LEMMA ByteInWalk ==
  ASSUME TypeOK, VolumeInv, ChainInv, NEW s \in Slots, Live(s),
         NEW p \in 0 .. dir[s].size - 1
  PROVE  p \in Nat /\ p \div ClusterBytes \in 0 .. LastCluster
  <1>0. LastCluster \in Nat /\ LastCluster >= 2
    BY GeometryAssumption
  <1>1. /\ IsFiniteSet(Clusters) /\ Cardinality(Clusters) = LastCluster - 1
    <2>1. 2 \in Int /\ LastCluster \in Int /\ ~(2 > LastCluster)
      BY <1>0
    <2>2. /\ IsFiniteSet(2 .. LastCluster)
          /\ Cardinality(2 .. LastCluster)
               = IF 2 > LastCluster THEN 0 ELSE LastCluster - 2 + 1
      BY <2>1, FS_Interval
    <2> QED BY <1>0, <2>1, <2>2 DEF Clusters
  <1>2. PICK n \in Nat : n = Cardinality(Chain(dir[s].first)) /\ n <= LastCluster - 1
    <2>1. Chain(dir[s].first) \subseteq Clusters
      BY DEF Chain
    <2> QED BY <1>1, <2>1, FS_Subset, FS_CardinalityType
  <1>3. dir[s].size \in Nat /\ dir[s].size <= n * ClusterBytes
    BY <1>2, ChainsCover DEF SizeCovered, TypeOK, DirEntry
  <1>4. p \in Nat /\ p < n * ClusterBytes
    <2>1. ClusterBytes \in Nat /\ n * ClusterBytes \in Nat
      BY PositiveSizes
    <2> QED BY <1>3, <2>1
  <1>5. n # 0
    <2>1. n = 0 => n * ClusterBytes = 0
      BY PositiveSizes
    <2> QED BY <1>4, <2>1
  <1>6. PICK r \in Nat : n = r + 1
    <2>1. n - 1 \in Nat /\ n = (n - 1) + 1
      BY <1>5
    <2> QED BY <2>1
  <1>7. p \div ClusterBytes <= r
    BY <1>4, <1>6, ClusterEnds
  <1>8. p \div ClusterBytes \in Nat
    BY <1>4, PositiveSizes
  <1> QED BY <1>0, <1>2, <1>4, <1>6, <1>7, <1>8

\* What is stored of a file depends on its entry, on the links of its clusters
\* and on their sectors.
LEMMA StoredSame ==
  ASSUME TypeOK, VolumeInv, ChainInv, NEW s \in Slots, Live(s), Live(s)',
         dir'[s].first = dir[s].first, dir'[s].size = dir[s].size,
         \A c \in Clusters : owner[c] = dir[s].first => fat'[c] = fat[c],
         \A x \in Sectors : owner[ClusterOf(x)] = dir[s].first => disk'[x] = disk[x]
  PROVE  Stored(s)' = Stored(s)
  <1>1. PICK first \in Clusters : first = dir[s].first /\ owner[first] = first
    BY DEF VolumeInv, DirInv
  <1>2. ASSUME NEW p \in 0 .. dir[s].size - 1
        PROVE  StoredByte(dir[s].first, p)' = StoredByte(dir[s].first, p)
    <2>1. PICK i \in 0 .. LastCluster : i = p \div ClusterBytes
      BY <1>2, ByteInWalk
    <2>2. /\ (ChainFrom(dir[s].first)')[i] = ChainFrom(dir[s].first)[i]
          /\ ChainFrom(dir[s].first)[i] \in Clusters =>
               owner[ChainFrom(dir[s].first)[i]] = first
      BY <1>1, WalkSame DEF VolumeInv
    <2>3. PICK c : c = ChainFrom(dir[s].first)[i]
      OBVIOUS
    <2>4. PICK j : j = (p % ClusterBytes) \div SectorSize
      OBVIOUS
    <2>5. c \in Clusters => disk'[SectorOf(c) + j] = disk[SectorOf(c) + j]
      <3>1. j \in 0 .. SectorsPerCluster - 1
        BY <1>2, <2>4, ByteInWalk, SectorInCluster, GeometryAssumption DEF ClusterBytes
      <3> QED BY <1>1, <2>2, <2>3, <3>1, SectorsBelong
    <2>6. StoredByte(dir[s].first, p)
            = IF c \in Clusters THEN disk[SectorOf(c) + j][p % SectorSize] ELSE Meta
      BY <2>1, <2>3, <2>4 DEF StoredByte
    <2>7. StoredByte(dir[s].first, p)'
            = IF c \in Clusters THEN disk'[SectorOf(c) + j][p % SectorSize] ELSE Meta
      <3>1. (ChainFrom(dir[s].first)')[p \div ClusterBytes] = c
        BY <2>1, <2>2, <2>3
      <3> QED BY <2>4, <3>1 DEF StoredByte, SectorOf, ClusterBytes
    <2> QED BY <2>5, <2>6, <2>7
  <1> QED BY <1>2 DEF Stored


-----------------------------------------------------------------------------
(* Other files. *)

\* The steps that write the FAT or the directory.
LEMMA OnlyTheseRelink ==
  ASSUME SafeUse, [Next]_vars, fat' # fat \/ dir' # dir
  PROVE  \/ \E k \in FatIndex : FlushAllocate(k) \/ NextAllocate(k)
         \/ \E s \in Slots : InfoWrite(s)
         \/ NextChain \/ FreeEntry \/ FreeUnreadable \/ FreeLast \/ DeleteEntry
  BY DirectoryWorks DEF Next, vars, Step, Begin, FlushStep, InfoStep, NextStep, SeekStep, ByteStep, FreeStep,
     FlushClean, FlushNoSpace, FlushWrite, FlushWriteFails, InfoSkip,
     InfoUnreadable, InfoLost, SectorHop, SectorEnd, SelectCluster, NextLink, NextEnd, NextUnreadable,
     NextChainFails, SeekOutside, SeekFlushed, SeekSector,
     SeekCluster, SeekRewind, WalkNext, WalkMove, WalkEnd, WriteByte, ReadByte, BytesDone,
     CloseInfo, Return, OpenNoHandle,
     Unlink, UnlinkRefused, OpenFound, OpenUnread, OpenMissing, Close, BadHandle, Write, Read, Lseek,
     Crash, Idle, Ready, NoWrite

\* A call on another file: the entry is not the running handle's, nor is its
\* first cluster.
LEMMA OthersEntry ==
  ASSUME VolumeInv, NEW s \in Slots, Live(s), dir[s].name # Cur.name, IsOpen(call.fd),
         call.fd \in Handles
  PROVE  s # Cur.entry /\ dir[s].first # Cur.first
  <1>1. Cur.entry # 0 => dir[Cur.entry].name = Cur.name
    BY DEF VolumeInv, HandleInv, EntryInv, Cur
  <1>2. 0 \notin Slots
    BY GeometryAssumption DEF Slots
  <1>3. s # Cur.entry
    BY <1>1, <1>2
  <1> QED BY <1>3 DEF VolumeInv, HandleInv, EntryInv, Cur

\* A free entry of the FAT belongs to no file.
LEMMA FreeIsNobodys ==
  ASSUME TypeOK, VolumeInv, NEW k \in FatIndex, FreeCluster(k), NEW first \in Clusters,
         fat' = [fat EXCEPT ![k] = EndMarker]
  PROVE  \A c \in Clusters : owner[c] = first => fat'[c] = fat[c]
  <1>1. 0 \notin Clusters /\ Clusters \subseteq FatIndex
    BY Markers DEF Clusters
  <1> QED BY <1>1 DEF VolumeInv, FatInv, FreeCluster, TypeOK

\* What a step of a call on another file leaves alone in the FAT and in the
\* directory.
LEMMA OthersLinks ==
  ASSUME TypeInv, VolumeInv, ChainInv, SafeUse, [Next]_vars, NEW s \in Slots, Live(s), Live(s)',
         pc # "idle" => dir[s].name # Cur.name
  PROVE  /\ dir'[s].first = dir[s].first /\ dir'[s].size = dir[s].size
         /\ \A c \in Clusters : owner[c] = dir[s].first => fat'[c] = fat[c]
  <1>0. TypeOK /\ 0 \notin Clusters
    BY Markers DEF TypeInv, Clusters
  <1>1. PICK first \in Clusters : first = dir[s].first /\ owner[first] = first
    BY DEF VolumeInv, DirInv
  <1>2. CASE fat' = fat /\ dir' = dir
    BY <1>2
  <1>3. ASSUME NEW k \in FatIndex, FlushAllocate(k) \/ NextAllocate(k)
        PROVE  /\ dir' = dir /\ \A c \in Clusters : owner[c] = first => fat'[c] = fat[c]
    <2>1. FreeCluster(k) /\ fat' = [fat EXCEPT ![k] = EndMarker] /\ dir' = dir
      BY <1>3 DEF FlushAllocate, NextAllocate, Claim
    <2> QED BY <1>0, <2>1, FreeIsNobodys
  <1>4. ASSUME NEW t \in Slots, InfoWrite(t)
        PROVE  fat' = fat /\ dir'[s] = dir[s]
    <2>1. /\ fat' = fat /\ dir' = [dir EXCEPT ![t] = EntryOf(Cur)] /\ EntrySlot(t)
          /\ pc = "info"
      BY <1>4 DEF InfoWrite
    <2>2. IsOpen(call.fd) /\ call.fd \in Handles
      BY <1>0, <2>1, AtInfo
    <2>3. s # t
      <3>1. s # Cur.entry
        BY <2>1, <2>2, OthersEntry
      <3> QED BY <2>1, <3>1 DEF EntrySlot, FirstEmptySlot, Live
    <2> QED BY <1>0, <2>1, <2>3 DEF TypeOK
  <1>5. ASSUME NextChain
        PROVE  dir' = dir /\ \A c \in Clusters : owner[c] = first => fat'[c] = fat[c]
    <2>1. pc = "chain" /\ dir' = dir /\ fat' = [fat EXCEPT ![Cur.cluster] = call.res]
      BY <1>5 DEF NextChain
    <2>2. IsOpen(call.fd) /\ call.fd \in Handles
      BY <1>0, <2>1 DEF VolumeInv, CallInv, FreeLabels, TypeOK, Calls
    <2>3. first # Cur.first
      BY <1>1, <2>1, <2>2, OthersEntry
    <2>4. Cur.first # 0 /\ Cur.cluster \in Clusters
      BY <2>1 DEF VolumeInv, CallInv, NeedsStored
    <2>5. StoredFile(Cur)
      BY <2>2, <2>4 DEF VolumeInv, HandleInv, FilesInv, Cur
    <2>6. owner[Cur.cluster] = Cur.first
      <3>1. Bad \notin Clusters
        BY GeometryAssumption DEF Bad, Clusters
      <3> QED BY <2>4, <2>5, <3>1 DEF StoredFile
    <2> QED BY <1>0, <2>1, <2>3, <2>6, Markers DEF TypeOK
  <1>6. ASSUME FreeEntry \/ FreeUnreadable \/ FreeLast
        PROVE  dir' = dir /\ \A c \in Clusters : owner[c] = first => fat'[c] = fat[c]
    <2>1. pc \in {"free", "freed"} /\ dir' = dir /\ (WriteZeroes \/ fat' = fat)
      BY <1>6 DEF FreeEntry, FreeUnreadable, FreeLast
    <2>2. /\ NobodyHas(owner[call.res])
          /\ \A z \in call.zeroed : owner[z] = owner[call.res]
      BY <2>1 DEF VolumeInv, FreeInv
    <2>3. first # owner[call.res]
      BY <1>1, <2>2 DEF NobodyHas
    <2>4. \A c \in Clusters : owner[c] = first => c \notin call.zeroed
      BY <2>2, <2>3
    <2> QED BY <2>1, <2>4, Markers DEF WriteZeroes, Zero
  <1>7. ASSUME DeleteEntry
        PROVE  fat' = fat /\ dir'[s].first = dir[s].first /\ dir'[s].size = dir[s].size
    BY <1>0, <1>7, DirectoryWorks DEF DeleteEntry, TypeOK, DirEntry
  <1> QED BY <1>1, <1>2, <1>3, <1>4, <1>5, <1>6, <1>7, OnlyTheseRelink

\* The sectors of other files are not written.
LEMMA OthersSectors ==
  ASSUME TypeInv, VolumeInv, ChainInv, [Next]_vars, NEW s \in Slots, Live(s),
         pc # "idle" => dir[s].name # Cur.name,
         NEW x \in Sectors, owner[ClusterOf(x)] = dir[s].first
  PROVE  disk'[x] = disk[x]
  <1> SUFFICES ASSUME disk'[x] # disk[x] PROVE FALSE
    OBVIOUS
  <1>0. TypeOK
    BY DEF TypeInv
  <1>1. FlushWrite
    BY OnlyFlushWrites
  <1>2. owner[ClusterOf(x)] = Cur.first
    BY <1>0, DataInOwnCluster
  <1>3. pc \in {"flush", "data"} /\ call.fd \in Handles
    BY <1>0, <1>1 DEF FlushWrite, TypeOK, Calls
  <1>4. IsOpen(call.fd)
    BY <1>3 DEF VolumeInv, CallInv, FreeLabels
  <1> QED BY <1>2, <1>3, <1>4, OthersEntry

\* No step of a call on one file changes what is stored of another.
LEMMA OthersStay ==
  TypeInv /\ VolumeInv /\ ChainInv /\ SafeUse /\ [Next]_vars =>
    \A s \in Slots : Live(s) /\ (pc # "idle" => dir[s].name # Cur.name) /\ Live(s)'
      => Stored(s)' = Stored(s)
  <1> SUFFICES ASSUME TypeInv, VolumeInv, ChainInv, SafeUse, [Next]_vars, NEW s \in Slots,
                      Live(s), pc # "idle" => dir[s].name # Cur.name, Live(s)'
               PROVE  Stored(s)' = Stored(s)
    OBVIOUS
  <1>1. TypeOK
    BY DEF TypeInv
  <1>2. /\ dir'[s].first = dir[s].first /\ dir'[s].size = dir[s].size
        /\ \A c \in Clusters : owner[c] = dir[s].first => fat'[c] = fat[c]
    BY OthersLinks
  <1>3. \A x \in Sectors : owner[ClusterOf(x)] = dir[s].first => disk'[x] = disk[x]
    BY OthersSectors
  <1> QED BY <1>1, <1>2, <1>3, StoredSame

\* As long as callers keep to SafeUse, no step of a call on one file changes a
\* byte of what the FAT and the data sectors hold of another file: neither the
\* writes of its buffer, nor the allocation, linking and freeing of clusters,
\* nor the update of its directory entry.
THEOREM OthersStayUntouched == ASSUME SafeUse PROVE Spec => OthersUntouched
  <1>1. Init => TypeInv /\ VolumeInv /\ ChainInv
    BY InitType, InitSafe, InitChains
  <1>2. TypeInv /\ VolumeInv /\ ChainInv /\ [Next]_vars => TypeInv' /\ VolumeInv' /\ ChainInv'
    BY NextInOrder
  <1>3. TypeInv /\ VolumeInv /\ ChainInv /\ [Next]_vars =>
          [\A s \in Slots :
             Live(s) /\ (pc # "idle" => dir[s].name # Cur.name) /\ Live(s)'
               => Stored(s)' = Stored(s)]_vars
    BY OthersStay
  <1> QED BY <1>1, <1>2, <1>3, PTL DEF Spec, OthersUntouched

-----------------------------------------------------------------------------
(* Clusters in use. *)

(***************************************************************************)
(* No cluster is lost, as long as no power was lost and no operation has   *)
(* failed: every allocated cluster belongs to a file somebody has, and no  *)
(* allocated clusters are cut off from the chain's first one.              *)
(***************************************************************************)
Untroubled == crashes = 0 /\ faults = 0
\* An open file's entry has its first cluster; a file without an entry that
\* has a cluster will be given one.
SavedInv == \A h \in Handles : IsOpen(h) /\ file_num[h].first # 0 =>
  IF file_num[h].entry # 0 THEN dir[file_num[h].entry].first = file_num[h].first
  ELSE {"WRITE", "FS_DIRTY"} \subseteq file_num[h].flags
ClosingInv == call.op = "close" =>
  ~call.seeking /\ (pc = "done" /\ Cur.first # 0 => Cur.entry # 0)

Freeing == pc \in {"free", "freed"}
Held(first) ==
  \/ \E s \in Slots : Live(s) /\ dir[s].first = first
  \/ \E h \in Handles : IsOpen(h) /\ file_num[h].first = first
  \/ Freeing /\ owner[call.res] = first
\* Where chains start: at their first clusters, in mid-allocation at the new
\* cluster, in fat_free_clusters at those in hand.
Starts ==
  {c \in Clusters : owner[c] = c}
    \cup (IF pc = "chain" THEN {call.res}
          ELSE IF Freeing THEN call.zeroed \cup {call.res} ELSE {})
Rooted(S) == S \cap Starts # {} \/ \E d \in Clusters \ S, c \in S : fat[d] = c
HandInv == Freeing =>
  /\ \A z \in call.zeroed : fat[z] \in call.zeroed \cup {call.res, EndMarker}
  /\ pc = "freed" => call.res \in call.zeroed
SpaceInv ==
  /\ SavedInv /\ ClosingInv /\ HandInv
  /\ Untroubled => \A c \in Clusters : owner[c] # 0 => Held(owner[c])
  /\ Untroubled => \A S \in SUBSET {c \in Clusters : owner[c] # 0} : S = {} \/ Rooted(S)

\* Outside fat_free_clusters, and except where a cluster has been allocated and
\* is not linked yet, a step that writes neither the FAT nor the directory loses
\* no cluster as long as every first cluster stays in somebody's hands.
LEMMA SpaceSame ==
  ASSUME SpaceInv, UNCHANGED <<fat, dir, owner>>, ~Freeing, pc' \notin {"chain", "free", "freed"},
         Untroubled' => Untroubled /\ pc # "chain",
         \A h \in Handles : IsOpen(h) /\ file_num[h].first # 0 =>
           \/ IsOpen(h)' /\ file_num'[h].first = file_num[h].first
           \/ \E s \in Slots : Live(s) /\ dir[s].first = file_num[h].first,
         SavedInv', ClosingInv'
  PROVE  SpaceInv'
  <1>1. HandInv' /\ ~Freeing'
    BY DEF HandInv, Freeing
  <1>2. ASSUME Untroubled' PROVE Starts' = Starts
    BY <1>1, <1>2 DEF Starts, Freeing
  <1>3. ASSUME NEW c \in Clusters, owner[c] # 0, Held(owner[c]) PROVE Held(owner[c])'
    BY <1>3 DEF Held, Live, Freeing
  <1>4. ASSUME Untroubled', NEW S, Rooted(S) PROVE Rooted(S)'
    <2>1. Starts' = Starts
      BY <1>2, <1>4
    <2> QED BY <1>4, <2>1 DEF Rooted
  <1>5. Untroubled' => \A c \in Clusters : owner'[c] # 0 => Held(owner[c])'
    BY <1>3 DEF SpaceInv
  <1>6. Untroubled' => \A S \in SUBSET {c \in Clusters : owner'[c] # 0} : S = {} \/ Rooted(S)'
    BY <1>4 DEF SpaceInv
  <1> QED BY <1>1, <1>5, <1>6 DEF SpaceInv

\* A step of a call that keeps first cluster and entry of its file, and does
\* not forget to save it.
Gentle(f) ==
  /\ SetCur(f) /\ call'.fd = call.fd /\ call'.op = call.op
  /\ call'.seeking => call.seeking
  /\ f.first = Cur.first /\ f.entry = Cur.entry
  /\ "OPEN" \in f.flags <=> "OPEN" \in Cur.flags
  /\ \A x \in {"WRITE", "FS_DIRTY"} : x \in Cur.flags => x \in f.flags

\* A step that only changes such parts of the file loses no cluster.
LEMMA GentleSpace ==
  ASSUME TypeOK, VolumeInv, SpaceInv, NEW f, Gentle(f),
         UNCHANGED <<fat, dir, owner, crashes>>, Works \/ \E op : Fault(op),
         ~Freeing, pc' \notin {"chain", "free", "freed"},
         pc = "chain" => \E op : Fault(op),
         pc' = "done" /\ call.op = "close" /\ Cur.first # 0 => Cur.entry # 0
  PROVE  SpaceInv'
  <1>1. /\ call.fd \in Handles
        /\ \A h \in Handles : file_num'[h] = IF h = call.fd THEN f ELSE file_num[h]
    BY CurType DEF Gentle, SetCur, TypeOK
  <1>2. \A h \in Handles : /\ IsOpen(h)' = IsOpen(h)
                           /\ file_num'[h].first = file_num[h].first
                           /\ file_num'[h].entry = file_num[h].entry
                           /\ \A x \in {"WRITE", "FS_DIRTY"} :
                                x \in file_num[h].flags => x \in file_num'[h].flags
    BY <1>1 DEF Gentle, IsOpen, Cur
  <1>3. SavedInv'
    BY <1>2 DEF SpaceInv, SavedInv
  <1>4. Cur' = f
    BY CurAfter DEF Gentle
  <1>5. ClosingInv'
    BY <1>4 DEF SpaceInv, ClosingInv, Gentle
  <1>6. Untroubled' => Untroubled /\ pc # "chain"
    BY DEF Untroubled, TypeOK, Works, Fault
  <1> QED BY <1>2, <1>3, <1>5, <1>6, SpaceSame

\* A step that leaves the file of the call alone.
LEMMA SameGentle ==
  ASSUME TypeOK, file_num' = file_num, call'.fd = call.fd, call'.op = call.op,
         call'.seeking => call.seeking
  PROVE  Gentle(Cur)
  <1>1. SetCur(Cur)
    BY DEF TypeOK, SetCur, Cur, Calls
  <1> QED BY <1>1 DEF Gentle

\* fat_close only returns through fat_flush_fileinfo or where there is nothing to save.
LEMMA CloseReturns ==
  ASSUME call.op = "close"
  PROVE  /\ \A ok \in BOOLEAN : AfterSector(ok) # "done" /\ AfterFlush(ok) # "done"
         /\ \A c : AfterNext(c) # "done"
         /\ \A ok \in BOOLEAN : AfterInfo(ok) = "done" => ok /\ call.info \notin {"flush", "next"}
  <1>1. \A ok \in BOOLEAN : AfterSector(ok) # "done"
    BY DEF AfterSector
  <1>2. \A c : AfterNext(c) # "done"
    BY <1>1 DEF AfterNext
  <1>3. \A ok \in BOOLEAN : AfterFlush(ok) # "done"
    BY <1>1, <1>2 DEF AfterFlush
  <1>4. \A ok \in BOOLEAN : AfterInfo(ok) = "done" => ok /\ call.info \notin {"flush", "next"}
    BY <1>2, <1>3 DEF AfterInfo
  <1> QED BY <1>1, <1>2, <1>3, <1>4

\* fat_flush of a file that has a cluster, or that gets none.
LEMMA FlushSpace ==
  ASSUME TypeOK, VolumeInv, SpaceInv, FlushClean \/ FlushNoSpace \/ FlushWrite \/ FlushWriteFails
  PROVE  SpaceInv'
  <1>1. /\ UNCHANGED <<fat, dir, owner, crashes>> /\ (Works \/ \E op : Fault(op))
        /\ pc \in {"flush", "data"}
        /\ pc' = "info" \/ \E ok \in BOOLEAN : pc' = AfterFlush(ok)
    BY DEF FlushClean, FlushNoSpace, FlushWrite, FlushWriteFails, Quiet, NoWrite
  <1>2. /\ call'.fd = call.fd /\ call'.op = call.op /\ call'.seeking = call.seeking
    BY DEF FlushClean, FlushNoSpace, FlushWrite, FlushWriteFails, TypeOK, Calls
  <1>3. \E f : Gentle(f)
    <2>1. CASE FlushWrite
      <3>1. SetCur([Cur EXCEPT !.flags = @ \ {"DIRTY"}])
        BY <2>1 DEF FlushWrite
      <3>2. Gentle([Cur EXCEPT !.flags = @ \ {"DIRTY"}])
        BY <1>2, <3>1, CurType DEF Gentle, FileS
      <3> QED BY <3>2
    <2>2. CASE file_num' = file_num
      BY <1>2, <2>2, SameGentle
    <2> QED BY <2>1, <2>2 DEF FlushClean, FlushNoSpace, FlushWriteFails
  <1>4. pc' \notin {"chain", "free", "freed"} /\ (call.op = "close" => pc' # "done")
    BY <1>1, ReturnLabels, CloseReturns DEF Plain
  <1>5. ~Freeing /\ pc # "chain"
    BY <1>1 DEF Freeing
  <1> QED BY <1>1, <1>3, <1>4, <1>5, GentleSpace

\* fat_flush_fileinfo with nothing to save: the file has no cluster.  Or the
\* entry cannot be read, or no slot is found for it.
LEMMA InfoSkipSpace ==
  ASSUME SafeUse, TypeOK, VolumeInv, SpaceInv, InfoSkip \/ InfoUnreadable \/ InfoLost
  PROVE  SpaceInv'
  <1>1. /\ UNCHANGED <<fat, dir, owner, crashes, file_num, call>> /\ pc = "info"
        /\ Works \/ \E op : Fault(op)
        /\ pc' \in {AfterInfo(TRUE), AfterInfo(FALSE), "lost"}
        /\ NothingToSave(Cur) \/ Cur.entry # 0 \/ pc' = "lost"
    BY DEF InfoSkip, InfoUnreadable, InfoLost, Unread, Quiet, NoWrite
  <1>2. Gentle(Cur)
    BY <1>1, SameGentle
  <1>3. Cur.first # 0 => Cur.entry # 0 \/ pc' = "lost"
    BY <1>1, AtInfo DEF NothingToSave, SpaceInv, SavedInv, Cur
  <1>4. pc' \notin {"chain", "free", "freed"}
    BY <1>1, ReturnLabels DEF Plain
  <1>5. ~Freeing /\ pc # "chain"
    BY <1>1 DEF Freeing
  <1> QED BY <1>1, <1>2, <1>3, <1>4, <1>5, GentleSpace

\* fat_next_sector, and fat_next_cluster without an allocation.
LEMMA NextSpace ==
  ASSUME TypeOK, VolumeInv, SpaceInv,
         SectorHop \/ SectorEnd \/ SelectCluster \/ NextLink \/ NextEnd \/ NextUnreadable
           \/ NextChainFails
  PROVE  SpaceInv'
  <1>1. /\ UNCHANGED <<fat, dir, owner, crashes>> /\ (Works \/ \E op : Fault(op))
        /\ pc \in {"sector", "select", "next", "chain"}
        /\ pc = "chain" => \E op : Fault(op)
    BY DEF SectorHop, SectorEnd, SelectCluster, NextLink, NextEnd, NextUnreadable,
       NextChainFails, Quiet, NoWrite
  <1>2. /\ call'.fd = call.fd /\ call'.op = call.op /\ call'.seeking = call.seeking
    BY DEF SectorHop, SectorEnd, SelectCluster, NextLink, NextEnd, NextUnreadable,
       NextChainFails, NextReturn, TypeOK, Calls
  <1>3. \/ pc' = "next" \/ \E ok \in BOOLEAN : pc' = AfterSector(ok)
        \/ \E c : pc' = AfterNext(c)
    BY DEF SectorHop, SectorEnd, SelectCluster, NextLink, NextEnd, NextUnreadable,
       NextChainFails, NextReturn
  <1>4. \E f : Gentle(f)
    <2>1. CASE SectorHop
      <3> DEFINE s == (Cur.sector + 1) % Word
                 f == [Cur EXCEPT !.sectors_left = @ - 1, !.file_sector = @ + 1,
                                  !.cursor = 0, !.sector = s]
                 g == [f EXCEPT !.buffer = disk[s]]
      <3>1. SetCur(f) \/ SetCur(g)
        BY <2>1 DEF SectorHop
      <3>2. \A x \in {f, g} : x.first = Cur.first /\ x.entry = Cur.entry /\ x.flags = Cur.flags
        BY CurType DEF FileS
      <3> HIDE DEF f, g
      <3> QED BY <1>2, <3>1, <3>2 DEF Gentle
    <2>2. CASE SelectCluster
      <3> DEFINE s == SectorOf(call.res)
                 f == [Cur EXCEPT !.file_sector = @ + 1, !.sector = s,
                                  !.sectors_left = SectorsPerCluster - 1,
                                  !.cluster = call.res, !.cursor = 0]
                 g == [f EXCEPT !.buffer = disk[s]]
      <3>1. SetCur(f) \/ SetCur(g)
        BY <2>2 DEF SelectCluster
      <3>2. \A x \in {f, g} : x.first = Cur.first /\ x.entry = Cur.entry /\ x.flags = Cur.flags
        BY CurType DEF FileS
      <3> HIDE DEF f, g
      <3> QED BY <1>2, <3>1, <3>2 DEF Gentle
    <2>3. CASE NextLink \/ NextEnd
      <3>1. SetCur([Cur EXCEPT !.buffer = MetaBlock])
        BY <2>3 DEF NextLink, NextEnd
      <3>2. Gentle([Cur EXCEPT !.buffer = MetaBlock])
        BY <1>2, <3>1, CurType DEF Gentle, FileS
      <3> QED BY <3>2
    <2>4. CASE file_num' = file_num
      BY <1>2, <2>4, SameGentle
    <2> QED BY <2>1, <2>2, <2>3, <2>4 DEF SectorEnd, NextUnreadable, NextChainFails
  <1>5. pc' \notin {"chain", "free", "freed"} /\ (call.op = "close" => pc' # "done")
    BY <1>3, ReturnLabels, CloseReturns DEF Plain
  <1>6. ~Freeing
    BY <1>1 DEF Freeing
  <1> QED BY <1>1, <1>4, <1>5, <1>6, GentleSpace

-----------------------------------------------------------------------------
(* Seeks, the bytes of a call, and the entry of a file. *)

\* The steps of fat_lseek.
LEMMA SeekSpace ==
  ASSUME TypeOK, VolumeInv, AccessInv, SpaceInv, SeekStep
  PROVE  SpaceInv'
  <1>0. Cur \in FileS /\ call.fd \in Handles /\ call \in Calls
    BY CurType DEF TypeOK
  <1>1. /\ UNCHANGED <<fat, dir, owner, crashes>> /\ (Works \/ \E op : Fault(op))
        /\ pc \in SeekLabels
    BY DEF SeekStep, SeekOutside, SeekFlushed, SeekSector, SeekCluster, SeekRewind, WalkNext,
       WalkMove, WalkEnd, SeekLoad, Quiet, NoWrite, SeekLabels
  <1>2. call.op # "close" /\ ~Freeing /\ pc # "chain"
    BY <1>1 DEF SpaceInv, ClosingInv, AccessInv, Freeing, SeekLabels
  <1>3. ASSUME NEW f, SetCur(f), f.flags = Cur.flags, f.first = Cur.first, f.entry = Cur.entry,
               call'.fd = call.fd, call'.op = call.op, call'.seeking => call.seeking,
               pc' \in {"byte", "done", "fail", "flush", "case", "walk"}
        PROVE  SpaceInv'
    <2>1. Gentle(f)
      BY <1>3 DEF Gentle
    <2> QED BY <1>1, <1>2, <1>3, <2>1, GentleSpace
  <1>4. ASSUME NEW ok, EndSeek(ok), NEW f, SetCur(f), f.flags = Cur.flags,
               f.first = Cur.first, f.entry = Cur.entry
        PROVE  SpaceInv'
    <2>1. /\ pc' \in {"byte", "done", "fail"} /\ ~call'.seeking /\ call'.fd = call.fd
          /\ call'.op = call.op
      BY <1>0, <1>4 DEF EndSeek, AfterSeek, Calls
    <2> QED BY <1>3, <1>4, <2>1
  <1>5. ASSUME NEW n, NEW p, NEW l, NEW s,
               SeekLoad([Cur EXCEPT !.file_sector = n, !.cursor = p, !.sectors_left = l], s)
        PROVE  SpaceInv'
    <2> DEFINE g == [Cur EXCEPT !.file_sector = n, !.cursor = p, !.sectors_left = l]
               a == [g EXCEPT !.sector = s, !.buffer = disk[s]]
               b == [g EXCEPT !.sector = s]
    <2>1. (SetCur(a) \/ SetCur(b)) /\ \E ok : EndSeek(ok)
      BY <1>5 DEF SeekLoad
    <2>2. \A x \in {a, b} : x.flags = Cur.flags /\ x.first = Cur.first /\ x.entry = Cur.entry
      BY <1>0 DEF FileS
    <2> HIDE DEF a, b
    <2> QED BY <1>4, <2>1, <2>2
  <1>6. CASE SeekOutside
    <2>1. EndSeek(FALSE) /\ SetCur(Cur)
      BY <1>6, SameCur DEF SeekOutside
    <2> QED BY <1>4, <2>1
  <1>7. CASE SeekSector
    <2> DEFINE f == [Cur EXCEPT !.cursor = call.new % SectorSize]
    <2>1. EndSeek(TRUE) /\ SetCur(f)
      BY <1>7 DEF SeekSector
    <2>2. f.flags = Cur.flags /\ f.first = Cur.first /\ f.entry = Cur.entry
      BY <1>0 DEF FileS
    <2> HIDE DEF f
    <2> QED BY <1>4, <2>1, <2>2
  <1>8. CASE SeekCluster \/ WalkEnd
    BY <1>5, <1>8 DEF SeekCluster, WalkEnd
  <1>9. CASE SeekFlushed \/ WalkNext
    <2>1. /\ file_num' = file_num
          /\ \/ pc' = "flush" /\ call' = [call EXCEPT !.flush = "sector"]
             \/ pc' = "case" /\ call' = call
             \/ pc' = "flush" /\ call' = [call EXCEPT !.flush = "next", !.next = "walk", !.res = Bad]
      BY <1>9 DEF SeekFlushed, WalkNext
    <2>2. /\ call'.fd = call.fd /\ call'.seeking = call.seeking /\ call'.op = call.op
          /\ SetCur(Cur)
      BY <1>0, <2>1, SameCur DEF Calls
    <2> QED BY <1>3, <2>1, <2>2
  <1>10. CASE SeekRewind \/ WalkMove
    <2>1. pc' = "walk" /\ \E i : call' = [call EXCEPT !.i = i]
      BY <1>10 DEF SeekRewind, WalkMove
    <2>2. PICK c : SetCur([Cur EXCEPT !.cluster = c])
      BY <1>10 DEF SeekRewind, WalkMove
    <2> DEFINE f == [Cur EXCEPT !.cluster = c]
    <2>3. f.flags = Cur.flags /\ f.first = Cur.first /\ f.entry = Cur.entry /\ SetCur(f)
      BY <1>0, <2>2 DEF FileS
    <2>4. call'.fd = call.fd /\ call'.seeking = call.seeking /\ call'.op = call.op
      BY <1>0, <2>1 DEF Calls
    <2> HIDE DEF f
    <2> QED BY <1>3, <2>1, <2>3, <2>4
  <1> QED BY <1>6, <1>7, <1>8, <1>9, <1>10 DEF SeekStep

\* The loops of fat_write and fat_read.
LEMMA ByteSpace ==
  ASSUME TypeOK, VolumeInv, SpaceInv, ByteStep
  PROVE  SpaceInv'
  <1>0. Cur \in FileS /\ call.fd \in Handles /\ call \in Calls
    BY CurType DEF TypeOK
  <1>1. UNCHANGED <<fat, dir, owner, crashes>> /\ Works /\ pc = "byte"
    BY DEF ByteStep, WriteByte, ReadByte, BytesDone, Quiet, NoWrite
  <1>2. ASSUME NEW f, Gentle(f), pc' \in {"byte", "flush", "done"},
               pc' = "done" => call.op \in {"write", "read"}
        PROVE  SpaceInv'
    <2>1. ~Freeing
      BY <1>1 DEF Freeing
    <2> QED BY <1>1, <1>2, <2>1, GentleSpace
  <1>3. CASE NeedSector
    <2>1. /\ pc' = "flush" /\ call'.seeking = call.seeking
          /\ call'.fd = call.fd /\ call'.op = call.op /\ file_num' = file_num
      BY <1>0, <1>3 DEF NeedSector, Calls
    <2> QED BY <1>2, <2>1, SameGentle
  <1>4. CASE WriteByte /\ ~NeedSector
    <2> DEFINE grows == Pos(Cur) = Cur.size
               f == [Cur EXCEPT
                   !.buffer = [@ EXCEPT ![Cur.cursor] = Head(call.todo)],
                   !.cursor = @ + 1,
                   !.size = IF grows THEN @ + 1 ELSE @,
                   !.flags = @ \cup {"DIRTY"} \cup
                             (IF grows THEN {"FS_DIRTY"} ELSE {})]
    <2>1. SetCur(f) /\ pc' = "byte" /\ call' = [call EXCEPT !.todo = Tail(@)]
      BY <1>1, <1>4 DEF WriteByte
    <2>2. call'.seeking = call.seeking /\ call'.fd = call.fd /\ call'.op = call.op
      BY <1>0, <2>1 DEF Calls
    <2>3. /\ f.flags = Cur.flags \cup {"DIRTY"} \cup (IF grows THEN {"FS_DIRTY"} ELSE {})
          /\ f.first = Cur.first /\ f.entry = Cur.entry
      BY <1>0 DEF FileS
    <2> HIDE DEF f, grows
    <2>4. Gentle(f)
      BY <2>1, <2>2, <2>3 DEF Gentle
    <2> QED BY <1>2, <2>1, <2>4
  <1>5. CASE ReadByte /\ ~NeedSector
    <2> DEFINE f == [Cur EXCEPT !.cursor = @ + 1]
    <2>1. /\ SetCur(f) /\ pc' = "byte"
          /\ call' = [call EXCEPT !.n = @ - 1, !.got = Append(@, Cur.buffer[Cur.cursor])]
      BY <1>1, <1>5 DEF ReadByte
    <2>2. call'.seeking = call.seeking /\ call'.fd = call.fd /\ call'.op = call.op
      BY <1>0, <2>1 DEF Calls
    <2>3. f.flags = Cur.flags /\ f.first = Cur.first /\ f.entry = Cur.entry
      BY <1>0 DEF FileS
    <2> HIDE DEF f
    <2>4. Gentle(f)
      BY <2>1, <2>2, <2>3 DEF Gentle
    <2> QED BY <1>2, <2>1, <2>4
  <1>6. CASE BytesDone
    <2>1. pc' = "done" /\ UNCHANGED <<file_num, call>> /\ call.op \in {"write", "read"}
      BY <1>6 DEF BytesDone
    <2> QED BY <1>2, <2>1, SameGentle
  <1> QED BY <1>3, <1>4, <1>5, <1>6 DEF ByteStep

\* fat_close between its flushes: what has no entry yet gets one.
LEMMA CloseInfoSpace ==
  ASSUME TypeOK, VolumeInv, SpaceInv, CloseInfo
  PROVE  SpaceInv'
  <1>1. /\ UNCHANGED <<fat, dir, owner, crashes, file_num>> /\ Works /\ pc = "closing"
        /\ pc' \in {"info", "done"} /\ (pc' = "done" => "FS_DIRTY" \notin Cur.flags)
    BY DEF CloseInfo, Quiet, NoWrite
  <1>2. call'.fd = call.fd /\ call'.op = call.op /\ call'.seeking = call.seeking
    BY DEF CloseInfo, TypeOK, Calls
  <1>3. Gentle(Cur)
    BY <1>1, <1>2, SameGentle
  <1>4. IsOpen(call.fd) /\ call.fd \in Handles
    BY <1>1, Running, CurType DEF VolumeInv, FreeLabels
  <1>5. pc' = "done" /\ Cur.first # 0 => Cur.entry # 0
    BY <1>1, <1>4 DEF SpaceInv, SavedInv, Cur
  <1>6. ~Freeing /\ pc # "chain"
    BY <1>1 DEF Freeing
  <1> QED BY <1>1, <1>3, <1>5, <1>6, GentleSpace

\* fat_flush_fileinfo writes the entry of the file.
LEMMA InfoWriteSpace ==
  ASSUME TypeOK, VolumeInv, SpaceInv, NEW s \in Slots, InfoWrite(s)
  PROVE  SpaceInv'
  <1>1. /\ UNCHANGED <<fat, owner, call, crashes>> /\ (Works \/ \E op : Fault(op)) /\ pc = "info"
        /\ dir' = [dir EXCEPT ![s] = EntryOf(Cur)] /\ EntrySlot(s) /\ Cur.first # 0
        /\ \E ok \in BOOLEAN : pc' = AfterInfo(ok)
    BY DEF InfoWrite, NothingToSave, Quiet
  <1>2. IsOpen(call.fd) /\ call.fd \in Handles /\ Cur \in FileS
    BY <1>1, AtInfo
  <1>3. PICK f : /\ SetCur(f) /\ f.first = Cur.first /\ f.entry = s
                 /\ "OPEN" \in f.flags
    <2> DEFINE a == Saved(Cur, s)
               b == [Cur EXCEPT !.entry = s, !.buffer = MetaBlock]
    <2>1. SetCur(a) \/ SetCur(b)
      BY DEF InfoWrite
    <2>0. "OPEN" \in Cur.flags
      BY <1>2 DEF IsOpen, Cur
    <2>2. a.first = Cur.first /\ a.entry = s /\ "OPEN" \in a.flags
      BY <1>2, <2>0 DEF Saved, FileS
    <2>3. b.first = Cur.first /\ b.entry = s /\ "OPEN" \in b.flags
      BY <1>2, <2>0 DEF FileS
    <2> HIDE DEF a, b
    <2> QED BY <2>1, <2>2, <2>3
  <1>4. \A h \in Handles : file_num'[h] = IF h = call.fd THEN f ELSE file_num[h]
    BY <1>2, <1>3 DEF SetCur, TypeOK
  <1>5. \A t \in Slots : dir'[t] = IF t = s THEN EntryOf(Cur) ELSE dir[t]
    BY <1>1 DEF TypeOK
  <1>6. 0 \notin Slots
    BY GeometryAssumption DEF Slots
  <1>7. /\ HandleInv /\ EntryInv /\ ApartInv
        /\ SavedInv
    BY DEF VolumeInv, HandleInv, SpaceInv
  <1>8. \A h \in Handles : IsOpen(h) /\ file_num[h].entry # 0 =>
          Live(file_num[h].entry) /\ dir[file_num[h].entry].name = file_num[h].name
    BY <1>7 DEF EntryInv
  <1>9. s = Cur.entry \/ ~Live(s)
    BY <1>1 DEF EntrySlot, FirstEmptySlot, Live
  <1>10. SavedInv'
    <2> SUFFICES ASSUME NEW h \in Handles, IsOpen(h)', file_num'[h].first # 0
                 PROVE  IF file_num'[h].entry # 0
                        THEN dir'[file_num'[h].entry].first = file_num'[h].first
                        ELSE {"WRITE", "FS_DIRTY"} \subseteq file_num'[h].flags
      BY DEF SavedInv
    <2>1. CASE h = call.fd
      BY <1>3, <1>4, <1>5, <1>6, <2>1 DEF EntryOf
    <2>2. CASE h # call.fd
      <3>1. file_num'[h] = file_num[h] /\ IsOpen(h)
        BY <1>4, <2>2 DEF IsOpen
      <3>2. file_num[h].entry # 0 => file_num[h].entry # s
        <4>1. file_num[h].name # Cur.name
          BY <1>2, <1>7, <2>2, <3>1 DEF ApartInv, Cur
        <4>2. s = Cur.entry => dir[s].name = Cur.name
          BY <1>2, <1>6, <1>8 DEF Cur
        <4> QED BY <1>8, <1>9, <3>1, <4>1, <4>2
      <3>3. file_num[h].entry # 0 => dir'[file_num[h].entry] = dir[file_num[h].entry]
        <4>1. file_num[h] \in FileS
          BY DEF TypeOK
        <4>2. file_num[h].entry # 0 => file_num[h].entry \in Slots
          BY <4>1, GeometryAssumption DEF FileS, Slots
        <4> QED BY <1>5, <3>2, <4>2
      <3> QED BY <1>7, <3>1, <3>3 DEF SavedInv
    <2> QED BY <2>1, <2>2
  <1>11. ClosingInv'
    BY <1>1, <1>2, <1>3, <1>4, <1>6 DEF SpaceInv, ClosingInv, Cur
  <1>12. ~Freeing /\ ~Freeing' /\ pc # "chain" /\ pc' # "chain"
    BY <1>1, ReturnLabels DEF Freeing, Plain
  <1>13. ASSUME NEW o, Held(o) PROVE Held(o)'
    <2>1. CASE \E h \in Handles : IsOpen(h) /\ file_num[h].first = o
      BY <1>3, <1>4, <2>1 DEF Held, IsOpen, Cur
    <2>2. ASSUME NEW t \in Slots, Live(t), dir[t].first = o PROVE Held(o)'
      <3>1. CASE t # s
        BY <1>5, <2>2, <3>1 DEF Held, Live
      <3>2. CASE t = s
        <4>1. s = Cur.entry /\ dir[s].first = Cur.first
          BY <1>1, <1>2, <1>6, <1>7, <1>9, <2>2, <3>2 DEF SavedInv, Cur
        <4> QED BY <1>2, <2>2, <3>2, <4>1, <2>1 DEF Cur
      <3> QED BY <3>1, <3>2
    <2> QED BY <1>12, <1>13, <2>1, <2>2 DEF Held
  <1>14. Starts' = Starts
    BY <1>1, <1>12 DEF Starts, Freeing
  <1>15. Untroubled' => Untroubled
    BY <1>1 DEF Untroubled, TypeOK, Works, Fault
  <1>16. HandInv'
    BY <1>12 DEF HandInv
  <1>17. \A S : Rooted(S) => Rooted(S)'
    BY <1>1, <1>14 DEF Rooted
  <1>18. ASSUME Untroubled', NEW c \in Clusters, owner'[c] # 0 PROVE Held(owner[c])'
    <2>1. PICK o : o = owner[c] /\ o = owner'[c]
      BY <1>1
    <2>2. Held(o)'
      BY <1>13, <1>15, <1>18, <2>1 DEF SpaceInv
    <2> QED BY <2>1, <2>2 DEF Held
  <1>19. Untroubled' => \A S \in SUBSET {c \in Clusters : owner'[c] # 0} : S = {} \/ Rooted(S)'
    BY <1>1, <1>15, <1>17 DEF SpaceInv
  <1> QED BY <1>1, <1>10, <1>11, <1>16, <1>18, <1>19 DEF SpaceInv

-----------------------------------------------------------------------------
(* Allocation. *)

\* A cluster that is allocated starts a chain, or will be linked to one.
LEMMA ClaimSpace ==
  ASSUME TypeOK, VolumeInv, SpaceInv, NEW k \in Clusters, fat[k] = 0, NEW o \in Clusters,
         Claim(k, o), dir' = dir, UNCHANGED crashes, Works,
         pc \notin {"chain", "free", "freed"}, ~Freeing', k \in Starts', Held(o)',
         \A h \in Handles : IsOpen(h) /\ file_num[h].first # 0 =>
           IsOpen(h)' /\ file_num'[h].first = file_num[h].first,
         SavedInv', ClosingInv'
  PROVE  SpaceInv'
  <1>1. /\ owner'[k] = o /\ fat'[k] = EndMarker
        /\ \A c \in Clusters : owner[c] # 0 => owner'[c] = owner[c] /\ fat'[c] = fat[c]
        /\ \A c \in Clusters : c # k => owner'[c] = owner[c] /\ fat'[c] = fat[c]
    <2>1. \A c \in Clusters : c # k => owner'[c] = owner[c] /\ fat'[c] = fat[c]
      BY Markers DEF Claim, TypeOK
    <2> QED BY <2>1, ClaimKeeps DEF VolumeInv
  <1>2. Untroubled' => Untroubled
    BY DEF Untroubled, Works
  <1>3. HandInv'
    BY DEF HandInv
  <1>4. ~Freeing
    BY DEF Freeing
  <1>5. ASSUME Untroubled', NEW c \in Clusters, owner'[c] # 0 PROVE Held(owner[c])'
    <2>1. CASE c = k
      BY <1>1, <2>1 DEF Held
    <2>2. CASE c # k
      <3>1. PICK x : x = owner[c] /\ x = owner'[c] /\ x # 0
        BY <1>1, <1>5, <2>2
      <3>2. Held(x)
        BY <1>2, <1>5, <3>1 DEF SpaceInv
      <3>3. Held(x)'
        BY <1>4, <3>1, <3>2 DEF Held, Live
      <3> QED BY <3>1, <3>3 DEF Held
    <2> QED BY <2>1, <2>2
  <1>6. Starts \subseteq Starts'
    <2>1. Starts = {c \in Clusters : owner[c] = c}
      BY <1>4 DEF Starts
    <2>2. \A c \in Clusters : owner[c] = c => owner'[c] = c
      BY <1>1, Markers
    <2> QED BY <2>1, <2>2 DEF Starts
  <1>7. ASSUME Untroubled', NEW S \in SUBSET {c \in Clusters : owner'[c] # 0}
        PROVE  S = {} \/ Rooted(S)'
    <2>1. CASE k \in S
      BY <2>1 DEF Rooted
    <2>2. CASE k \notin S
      <3>1. S \in SUBSET {c \in Clusters : owner[c] # 0}
        BY <1>1, <2>2
      <3>2. S = {} \/ Rooted(S)
        BY <1>2, <1>7, <3>1 DEF SpaceInv
      <3>3. \A d \in Clusters, c \in S : fat[d] = c => fat'[d] = c
        <4>1. \A d \in Clusters, c \in S : fat[d] = c => owner[d] # 0
          BY <3>1, Markers DEF VolumeInv, FatInv
        <4> QED BY <1>1, <4>1
      <3> QED BY <1>6, <3>2, <3>3 DEF Rooted
    <2> QED BY <2>1, <2>2
  <1> QED BY <1>3, <1>5, <1>7 DEF SpaceInv

\* fat_flush gives a file its first cluster.
LEMMA FlushAllocateSpace ==
  ASSUME TypeOK, VolumeInv, ChainInv, SpaceInv, NEW k \in FatIndex, FlushAllocate(k)
  PROVE  SpaceInv'
  <1>1. k \in Clusters /\ fat[k] = 0 /\ owner[k] = 0
    BY FreeIsCluster DEF FlushAllocate, VolumeInv
  <1> DEFINE f == [Cur EXCEPT !.first = k, !.cluster = k, !.sector = SectorOf(k),
                              !.sectors_left = SectorsPerCluster - 1,
                              !.flags = @ \cup {"FS_DIRTY"}]
  <1>2. /\ pc = "flush" /\ Claim(k, k) /\ pc' = "data" /\ SetCur(f)
        /\ dir' = dir /\ call' = call /\ UNCHANGED crashes /\ Works
        /\ "DIRTY" \in Cur.flags /\ Cur.sector = 0
    BY <1>1, Markers DEF FlushAllocate, Quiet
  <1>3. IsOpen(call.fd) /\ call.fd \in Handles /\ Cur \in FileS
    BY <1>2, Running, CurType DEF VolumeInv, FreeLabels
  <1>4. f.first = k /\ f.entry = Cur.entry /\ f.flags = Cur.flags \cup {"FS_DIRTY"}
    BY <1>3 DEF FileS
  <1> HIDE DEF f
  <1>5. PICK rank \in Ranks : RankInv(rank)
    BY DEF ChainInv
  <1>6. "WRITE" \in Cur.flags /\ ~Walking
    BY <1>2, <1>5, DirtyFlush DEF ChainInv
  <1>7. Cur.first = 0
    <2> SUFFICES ASSUME Cur.first # 0 PROVE FALSE
      OBVIOUS
    <2>1. Cur.cluster \in Clusters /\ Aligned(rank, Cur)
      BY <1>3, <1>5, <1>6, CurStands
    <2>2. Cur.sector >= FirstData /\ Cur.sector \in Sectors
      BY <1>3, <2>1, PlacedInData DEF Aligned
    <2> QED BY <1>2, <2>2 DEF Sectors
  <1>8. \A h \in Handles : file_num'[h] = IF h = call.fd THEN f ELSE file_num[h]
    BY <1>2, <1>3 DEF SetCur, TypeOK
  <1>9. \A h \in Handles : IsOpen(h) /\ file_num[h].first # 0 =>
          IsOpen(h)' /\ file_num'[h].first = file_num[h].first
    BY <1>7, <1>8 DEF IsOpen, Cur
  <1>10. IsOpen(call.fd)' /\ file_num'[call.fd].first = k
    BY <1>2, <1>3, <1>4, <1>8 DEF IsOpen, Cur
  <1>11. Held(k)'
    <2> PICK h \in Handles : h = call.fd
      BY <1>3
    <2> QED BY <1>2, <1>10 DEF Held, IsOpen
  <1>12. Cur.entry = 0
    BY <1>3, <1>7, CurStored DEF Unstored
  <1>13. SavedInv'
    <2>1. SavedInv
      BY DEF SpaceInv
    <2> SUFFICES ASSUME NEW h \in Handles, IsOpen(h)', file_num'[h].first # 0
                 PROVE  IF file_num'[h].entry # 0
                        THEN dir'[file_num'[h].entry].first = file_num'[h].first
                        ELSE {"WRITE", "FS_DIRTY"} \subseteq file_num'[h].flags
      BY DEF SavedInv
    <2>2. CASE h = call.fd
      BY <1>4, <1>6, <1>8, <1>12, <2>2
    <2>3. CASE h # call.fd
      BY <1>2, <1>8, <2>1, <2>3 DEF SavedInv, IsOpen
    <2> QED BY <2>2, <2>3
  <1>14. ClosingInv'
    BY <1>2 DEF SpaceInv, ClosingInv
  <1>15. k \in Starts'
    <2>1. owner'[k] = k
      BY <1>1, <1>2, ClaimKeeps DEF VolumeInv
    <2> QED BY <1>1, <2>1 DEF Starts
  <1>16. pc \notin {"chain", "free", "freed"} /\ ~Freeing'
    BY <1>2 DEF Freeing
  <1> QED BY <1>1, <1>2, <1>9, <1>11, <1>13, <1>14, <1>15, <1>16, ClaimSpace

\* fat_next_cluster allocates a cluster for the end of the chain.
LEMMA NextAllocateSpace ==
  ASSUME TypeOK, VolumeInv, SpaceInv, NEW k \in FatIndex, NextAllocate(k)
  PROVE  SpaceInv'
  <1>1. k \in Clusters /\ fat[k] = 0 /\ owner[k] = 0
    BY FreeIsCluster DEF NextAllocate, VolumeInv
  <1> DEFINE f == [Cur EXCEPT !.buffer = MetaBlock]
  <1>2. /\ pc = "next" /\ Claim(k, Cur.first) /\ SetCur(f) /\ dir' = dir
        /\ pc' = "chain" /\ call' = [call EXCEPT !.res = k] /\ UNCHANGED crashes /\ Works
    BY <1>1, Markers DEF NextAllocate, Quiet
  <1>3. /\ Cur.first # 0 /\ StoredFile(Cur) /\ Cur \in FileS /\ call \in Calls
        /\ IsOpen(call.fd) /\ call.fd \in Handles
    BY <1>2, AtStored, Running, CurType DEF VolumeInv, FreeLabels
  <1>4. f.first = Cur.first /\ f.entry = Cur.entry /\ f.flags = Cur.flags
    BY <1>3 DEF FileS
  <1> HIDE DEF f
  <1>5. /\ call'.fd = call.fd /\ call'.op = call.op /\ call'.res = k
        /\ call'.seeking = call.seeking
    BY <1>2, <1>3 DEF Calls
  <1>6. \A h \in Handles : file_num'[h] = IF h = call.fd THEN f ELSE file_num[h]
    BY <1>2, <1>3 DEF SetCur, TypeOK
  <1>7. \A h \in Handles : /\ IsOpen(h)' = IsOpen(h)
                           /\ file_num'[h].first = file_num[h].first
                           /\ file_num'[h].entry = file_num[h].entry
                           /\ file_num'[h].flags = file_num[h].flags
    BY <1>4, <1>6 DEF IsOpen, Cur
  <1>8. SavedInv'
    BY <1>2, <1>7 DEF SpaceInv, SavedInv
  <1>9. ClosingInv'
    BY <1>2, <1>5 DEF SpaceInv, ClosingInv
  <1>10. Cur.first \in Clusters
    BY <1>3 DEF StoredFile
  <1>11. PICK o \in Clusters : o = Cur.first
    BY <1>10
  <1>12. Held(o)'
    <2> PICK h \in Handles : h = call.fd
      BY <1>3
    <2> QED BY <1>3, <1>7, <1>11 DEF Held, Cur
  <1>13. k \in Starts'
    BY <1>2, <1>5 DEF Starts
  <1>14. pc \notin {"chain", "free", "freed"} /\ ~Freeing' /\ Claim(k, o)
    BY <1>2, <1>11 DEF Freeing
  <1> QED BY <1>1, <1>2, <1>7, <1>8, <1>9, <1>12, <1>13, <1>14, ClaimSpace

\* fat_next_cluster links the cluster it has allocated.
LEMMA NextChainSpace ==
  ASSUME TypeOK, VolumeInv, SpaceInv, NextChain
  PROVE  SpaceInv'
  <1>1. /\ pc = "chain" /\ fat' = [fat EXCEPT ![Cur.cluster] = call.res]
        /\ UNCHANGED <<dir, owner, file_num, crashes>> /\ Works /\ pc' = "info"
        /\ call' = [call EXCEPT !.info = "next"] /\ call \in Calls
    BY DEF NextChain, Quiet, TypeOK
  <1>2. PICK r \in Clusters, e \in Clusters :
          /\ r = call.res /\ e = Cur.cluster /\ r # e
          /\ fat[r] = EndMarker /\ fat[e] = EndMarker
    BY <1>1 DEF VolumeInv, CallInv, OwnCluster
  <1>3. \A c \in Clusters : fat'[c] = IF c = e THEN r ELSE fat[c]
    BY <1>1, <1>2, Markers DEF TypeOK
  <1>4. /\ call'.fd = call.fd /\ call'.op = call.op /\ call'.seeking = call.seeking
    BY <1>1 DEF Calls
  <1>5. SavedInv' /\ ClosingInv' /\ HandInv'
    <2>1. SavedInv'
      BY <1>1 DEF SpaceInv, SavedInv, IsOpen
    <2>2. ClosingInv'
      BY <1>1, <1>4 DEF SpaceInv, ClosingInv
    <2>3. HandInv'
      BY <1>1 DEF HandInv, Freeing
    <2> QED BY <2>1, <2>2, <2>3
  <1>6. Untroubled' => Untroubled
    BY <1>1 DEF Untroubled, Works
  <1>7. ASSUME Untroubled', NEW c \in Clusters, owner'[c] # 0 PROVE Held(owner[c])'
    BY <1>1, <1>6, <1>7 DEF SpaceInv, Held, Freeing, Live, IsOpen
  <1>8. Starts = {c \in Clusters : owner[c] = c} \cup {r} /\ Starts' = {c \in Clusters : owner[c] = c}
    BY <1>1, <1>2 DEF Starts, Freeing
  <1>9. ASSUME Untroubled', NEW S \in SUBSET {c \in Clusters : owner'[c] # 0}
        PROVE  S = {} \/ Rooted(S)'
    <2>1. PICK T : T = S \ {r}
      OBVIOUS
    <2>2. T \in SUBSET {c \in Clusters : owner[c] # 0}
      BY <1>1, <1>9, <2>1
    <2>3. T = {} \/ Rooted(T)
      BY <1>6, <1>9, <2>2 DEF SpaceInv
    <2>4. CASE T = {}
      BY <1>2, <1>3, <2>1, <2>4 DEF Rooted
    <2>5. CASE T \cap Starts # {}
      BY <1>8, <2>1, <2>5 DEF Rooted
    <2>6. ASSUME NEW d \in Clusters \ T, NEW c \in T, fat[d] = c PROVE Rooted(S)'
      <3>1. d # r /\ d # e
        BY <1>2, <2>2, <2>6, Markers
      <3>2. d \in Clusters \ S /\ fat'[d] = c /\ c \in S
        BY <1>3, <2>1, <2>6, <3>1
      <3> QED BY <3>2 DEF Rooted
    <2> QED BY <2>3, <2>4, <2>5, <2>6 DEF Rooted
  <1> QED BY <1>5, <1>7, <1>9 DEF SpaceInv

-----------------------------------------------------------------------------
(* Files that are deleted and freed. *)

\* fat_free_clusters takes one more cluster in hand.
LEMMA FreeEntrySpace ==
  ASSUME SafeUse, TypeOK, VolumeInv, VolumeInv', SpaceInv, FreeEntry
  PROVE  SpaceInv'
  <1> DEFINE here == IF Leaving THEN {} ELSE call.zeroed
             j == IF call.res \in here THEN 0 ELSE fat[call.res]
  <1>1. /\ pc = "free" /\ pc' \in {"free", "freed"} /\ UNCHANGED <<dir, file_num, crashes>>
        /\ Works \/ \E op : Fault(op)
        /\ \/ ~Leaving /\ UNCHANGED <<fat, owner>>
           \/ Leaving /\ WriteZeroes
    BY DEF FreeEntry, Quiet, SafeUse, Fault
  <1>2. PICK r \in Clusters, o \in Clusters : r = call.res /\ o = owner[r] /\ r \notin call.zeroed
    BY <1>1, Markers DEF VolumeInv, FreeInv, FatInv
  <1>3. /\ \A z \in call.zeroed : z \in Clusters /\ owner[z] = o
        /\ \A z \in call.zeroed : fat[z] \in call.zeroed \cup {r, EndMarker}
    BY <1>1, <1>2 DEF VolumeInv, FreeInv, SpaceInv, HandInv, Freeing
  <1>4. /\ call'.zeroed = here \cup {r} /\ call'.op = call.op /\ call'.fd = call.fd
        /\ call'.res = IF fat[r] < EndMarker THEN fat[r] ELSE r
        /\ pc' = IF fat[r] < EndMarker THEN "free" ELSE "freed"
    <2>1. j = fat[r]
      BY <1>2
    <2>2. /\ call' = [call EXCEPT !.zeroed = here \cup {call.res},
                                  !.block = FatBlock(call.res),
                                  !.res = IF j < EndMarker THEN j ELSE @]
          /\ pc' = IF j < EndMarker THEN "free" ELSE "freed"
          /\ call \in Calls
      BY DEF FreeEntry, TypeOK
    <2> HIDE DEF j, here
    <2> QED BY <1>2, <2>1, <2>2 DEF Calls
  <1>5. \A c \in Clusters :
          /\ Leaving /\ c \in call.zeroed => owner'[c] = 0
          /\ ~(Leaving /\ c \in call.zeroed) => owner'[c] = owner[c] /\ fat'[c] = fat[c]
    BY <1>1, Markers DEF WriteZeroes, Zero
  <1>6. owner'[call'.res] = o
    <2>1. owner'[r] = o
      BY <1>2, <1>5
    <2>2. \A z \in call'.zeroed : owner'[z] = owner'[call'.res]
      BY <1>1 DEF VolumeInv, FreeInv
    <2> QED BY <1>4, <2>1, <2>2
  <1>7. Freeing /\ Freeing'
    BY <1>1 DEF Freeing
  <1>8. HandInv'
    <2>1. fat[r] \in 0 .. EndMarker
      BY <1>2, Markers DEF TypeOK
    <2>2. ~(fat[r] < EndMarker) => fat[r] = EndMarker
      BY <2>1, GeometryAssumption DEF EndMarker
    <2>3. fat'[r] = fat[r]
      BY <1>2, <1>5
    <2>4. fat'[r] \in {call'.res, EndMarker}
      BY <1>4, <2>2, <2>3
    <2>5. ASSUME NEW z \in here PROVE fat'[z] \in call'.zeroed \cup {call'.res, EndMarker}
      <3>1. ~Leaving /\ z \in call.zeroed /\ here = call.zeroed
        BY <2>5
      <3>2. fat'[z] = fat[z]
        BY <1>3, <1>5, <3>1
      <3> QED BY <1>3, <1>4, <3>1, <3>2
    <2>6. pc' = "freed" => call'.res \in call'.zeroed
      BY <1>4
    <2> QED BY <1>4, <2>4, <2>5, <2>6 DEF HandInv
  <1>9. SavedInv'
    BY <1>1 DEF SpaceInv, SavedInv, IsOpen
  <1>10. ClosingInv'
    BY <1>1, <1>4 DEF ClosingInv, VolumeInv, CallInv, FreeLabels
  <1>11. Untroubled' => Untroubled
    BY <1>1 DEF Untroubled, TypeOK, Works, Fault
  <1>12. \A c \in Clusters : owner'[c] # 0 => owner'[c] = owner[c] /\ ~(Leaving /\ c \in call.zeroed)
    BY <1>5
  <1>13. ASSUME Untroubled', NEW c \in Clusters, owner'[c] # 0 PROVE Held(owner[c])'
    <2>1. PICK x : x = owner[c] /\ x = owner'[c] /\ Held(x)
      BY <1>11, <1>12, <1>13 DEF SpaceInv
    <2>2. Held(x)'
      BY <1>1, <1>2, <1>6, <1>7, <2>1 DEF Held, Live, IsOpen
    <2> QED BY <2>1, <2>2 DEF Held
  <1>14. ASSUME NEW c \in Starts, owner'[c] # 0 PROVE c \in Starts'
    <2>1. c \in Clusters /\ (owner[c] = c \/ c \in call.zeroed \/ c = r)
      BY <1>2, <1>3, <1>7, <1>14 DEF Starts, Freeing
    <2>2. call'.zeroed \subseteq Starts'
      BY <1>1, <1>7 DEF Starts, Freeing
    <2>3. CASE owner[c] = c
      BY <1>12, <1>14, <2>1, <2>3 DEF Starts
    <2>4. CASE c \in call.zeroed \/ c = r
      BY <1>4, <1>12, <1>14, <2>1, <2>2, <2>4
    <2> QED BY <2>1, <2>3, <2>4
  <1>15. ASSUME Untroubled', NEW S \in SUBSET {c \in Clusters : owner'[c] # 0}
        PROVE  S = {} \/ Rooted(S)'
    <2>1. S = {} \/ Rooted(S)
      BY <1>11, <1>12, <1>15 DEF SpaceInv
    <2>2. CASE S \cap Starts # {}
      BY <1>14, <1>15, <2>2 DEF Rooted
    <2>3. ASSUME NEW d \in Clusters \ S, NEW c \in S, fat[d] = c PROVE Rooted(S)'
      <3>1. CASE ~(Leaving /\ d \in call.zeroed)
        BY <1>5, <2>3, <3>1 DEF Rooted
      <3>2. CASE Leaving /\ d \in call.zeroed
        <4>1. c \in Clusters /\ owner'[c] # 0 /\ c \notin call.zeroed
          BY <1>12, <1>15, <2>3, <3>2
        <4>2. c = r
          BY <1>3, <2>3, <3>2, <4>1, Markers
        <4>3. r \in Starts'
          BY <1>4, <1>7, <1>1 DEF Starts, Freeing
        <4> QED BY <2>3, <4>2, <4>3 DEF Rooted
      <3> QED BY <3>1, <3>2
    <2> QED BY <2>1, <2>2, <2>3 DEF Rooted
  <1> QED BY <1>8, <1>9, <1>10, <1>13, <1>15 DEF SpaceInv

\* At the end of the walk every cluster of the deleted file is in hand.
LEMMA AllInHand ==
  ASSUME TypeOK, VolumeInv, FreeingInv, SpaceInv, Untroubled, pc = "freed"
  PROVE  \A c \in Clusters : owner[c] = owner[call.res] => c \in call.zeroed
  <1> DEFINE o == owner[call.res]
             T == {c \in Clusters : owner[c] = o /\ c \notin call.zeroed}
  <1> SUFFICES ASSUME T # {} PROVE FALSE
    OBVIOUS
  <1>1. /\ o # 0 /\ Freeing /\ call.res \in call.zeroed
        /\ \A z \in call.zeroed : z \in Clusters /\ owner[z] = o
        /\ \A z \in call.zeroed : fat[z] \in call.zeroed \cup {call.res, EndMarker}
    BY DEF VolumeInv, FreeInv, SpaceInv, HandInv, Freeing
  <1>2. Rooted(T)
    BY <1>1 DEF SpaceInv
  <1>3. T \cap Starts = {}
    <2> SUFFICES ASSUME NEW c \in T, c \in Starts PROVE FALSE
      OBVIOUS
    <2>1. owner[c] = c
      BY <1>1 DEF Starts
    <2> QED BY <2>1 DEF FreeingInv
  <1>4. PICK d \in Clusters \ T, c \in T : fat[d] = c
    BY <1>2, <1>3 DEF Rooted
  <1>5. owner[d] = o
    BY <1>4 DEF VolumeInv, FatInv
  <1>6. d \in call.zeroed
    BY <1>4, <1>5
  <1> QED BY <1>1, <1>4, <1>6, Markers

\* fat_free_clusters ends.
LEMMA FreedSpace ==
  ASSUME SafeUse, TypeOK, VolumeInv, FreeingInv, SpaceInv, FreeUnreadable \/ FreeLast
  PROVE  SpaceInv'
  <1>1. /\ pc \in {"free", "freed"} /\ pc' = "done" /\ UNCHANGED <<dir, file_num, crashes>>
        /\ call' = [call EXCEPT !.zeroed = {}] /\ call \in Calls
    BY DEF FreeUnreadable, FreeLast, Quiet, TypeOK
  <1>2. Untroubled' => Untroubled /\ pc = "freed" /\ WriteZeroes
    BY DEF Untroubled, TypeOK, FreeUnreadable, FreeLast, Quiet, Works, Fault
  <1>3. call'.op = call.op /\ call'.op = "unlink"
    BY <1>1 DEF VolumeInv, CallInv, FreeLabels, Calls
  <1>4. SavedInv' /\ ClosingInv' /\ HandInv'
    <2>1. SavedInv'
      BY <1>1 DEF SpaceInv, SavedInv, IsOpen
    <2>2. ClosingInv'
      BY <1>3 DEF ClosingInv
    <2>3. HandInv'
      BY <1>1 DEF HandInv, Freeing
    <2> QED BY <2>1, <2>2, <2>3
  <1>5. ASSUME Untroubled'
        PROVE  /\ \A c \in Clusters : owner'[c] # 0 => Held(owner[c])'
               /\ \A S \in SUBSET {c \in Clusters : owner'[c] # 0} : S = {} \/ Rooted(S)'
    <2>1. Untroubled /\ pc = "freed" /\ WriteZeroes
      BY <1>2, <1>5
    <2>2. \A c \in Clusters : /\ c \in call.zeroed => owner'[c] = 0
                              /\ c \notin call.zeroed => owner'[c] = owner[c] /\ fat'[c] = fat[c]
      BY <2>1, Markers DEF WriteZeroes, Zero
    <2>3. \A c \in Clusters : owner[c] = owner[call.res] => c \in call.zeroed
      BY <2>1, AllInHand
    <2>4. /\ call.res \in call.zeroed
          /\ \A z \in call.zeroed : fat[z] \in call.zeroed \cup {EndMarker}
      BY <2>1 DEF SpaceInv, HandInv, Freeing
    <2>5. ASSUME NEW c \in Clusters, owner'[c] # 0 PROVE Held(owner[c])'
      <3>1. PICK x : x = owner[c] /\ x = owner'[c] /\ Held(x) /\ x # owner[call.res]
        BY <2>1, <2>2, <2>3, <2>5 DEF SpaceInv
      <3>2. Held(x)'
        BY <1>1, <3>1 DEF Held, Live, IsOpen
      <3> QED BY <3>1, <3>2 DEF Held
    <2>6. ASSUME NEW S \in SUBSET {c \in Clusters : owner'[c] # 0} PROVE S = {} \/ Rooted(S)'
      <3>1. \A c \in S : c \in Clusters /\ c \notin call.zeroed /\ owner'[c] = owner[c] /\ owner[c] # 0
        BY <2>2, <2>6
      <3>2. S = {} \/ Rooted(S)
        BY <2>1, <3>1 DEF SpaceInv
      <3>3. ASSUME NEW c \in S, c \in Starts PROVE c \in Starts'
        <4>1. owner[c] = c
          BY <2>1, <2>4, <3>1, <3>3 DEF Starts, Freeing
        <4> QED BY <3>1, <4>1 DEF Starts
      <3>4. ASSUME NEW d \in Clusters \ S, NEW c \in S, fat[d] = c PROVE fat'[d] = c
        BY <2>2, <2>4, <3>1, <3>4, Markers
      <3> QED BY <3>2, <3>3, <3>4 DEF Rooted
    <2> QED BY <2>5, <2>6
  <1> QED BY <1>4, <1>5 DEF SpaceInv

\* fat_delete: the clusters of the entry are now fat_free_clusters' to free.
LEMMA DeleteSpace ==
  ASSUME SafeUse, TypeOK, VolumeInv, SpaceInv, DeleteEntry
  PROVE  SpaceInv'
  <1>1. /\ pc = "delete" /\ pc' = "free" /\ UNCHANGED <<fat, owner, file_num, call, crashes, faults>>
        /\ dir' = [dir EXCEPT ![call.slot].kind = "deleted"]
    BY DirectoryWorks DEF DeleteEntry, Quiet, Works, SafeUse, Fault
  <1>2. \A s \in Slots : /\ dir'[s].first = dir[s].first
                         /\ s # call.slot => dir'[s] = dir[s]
    BY <1>1 DEF TypeOK, DirEntry
  <1>3. /\ Live(call.slot) /\ dir[call.slot].first = call.res /\ call.zeroed = {}
        /\ call.op = "unlink"
    BY <1>1 DEF VolumeInv, FreeInv, CallInv, FreeLabels
  <1>4. ASSUME Live(call.slot), call.slot \in Slots PROVE owner[call.res] = call.res
    BY <1>3, <1>4 DEF VolumeInv, DirInv
  <1>5. SavedInv'
    <2>1. \A h \in Handles : file_num[h].entry # 0 => file_num[h].entry \in Slots
      BY GeometryAssumption DEF TypeOK, FileS, Slots
    <2> QED BY <1>1, <1>2, <2>1 DEF SpaceInv, SavedInv, IsOpen
  <1>6. ClosingInv' /\ HandInv'
    BY <1>1, <1>3 DEF ClosingInv, HandInv
  <1>7. Freeing' /\ ~Freeing
    BY <1>1 DEF Freeing
  <1>8. Starts \subseteq Starts'
    BY <1>1, <1>7 DEF Starts
  <1>9. ASSUME Untroubled', NEW c \in Clusters, owner'[c] # 0 PROVE Held(owner[c])'
    <2>1. Untroubled
      BY <1>1, <1>9 DEF Untroubled
    <2>2. PICK x : x = owner[c] /\ x = owner'[c] /\ Held(x)
      BY <1>1, <1>9, <2>1 DEF SpaceInv
    <2>3. CASE \E h \in Handles : IsOpen(h) /\ file_num[h].first = x
      BY <1>1, <2>2, <2>3 DEF Held, IsOpen
    <2>4. ASSUME NEW s \in Slots, Live(s), dir[s].first = x PROVE Held(owner[c])'
      <3>1. CASE s = call.slot
        BY <1>1, <1>3, <1>4, <1>7, <2>2, <2>4, <3>1 DEF Held
      <3>2. CASE s # call.slot
        BY <1>2, <2>2, <2>4, <3>2 DEF Held, Live
      <3> QED BY <3>1, <3>2
    <2> QED BY <1>7, <2>2, <2>3, <2>4 DEF Held
  <1>10. ASSUME Untroubled' PROVE \A S \in SUBSET {c \in Clusters : owner'[c] # 0} : S = {} \/ Rooted(S)'
    <2>1. Untroubled
      BY <1>1, <1>10 DEF Untroubled
    <2> QED BY <1>1, <1>8, <2>1 DEF SpaceInv, Rooted
  <1> QED BY <1>5, <1>6, <1>9, <1>10 DEF SpaceInv

-----------------------------------------------------------------------------
(* Calls that begin and return, and what follows from the invariant. *)

\* A call returns.  What fat_close forgets has an entry in the directory.
LEMMA ReturnSpace ==
  ASSUME TypeOK, VolumeInv, SpaceInv, Return
  PROVE  SpaceInv'
  <1>1. /\ pc \in {"done", "fail"} /\ pc' = "idle" /\ UNCHANGED <<fat, dir, owner, crashes>>
        /\ Works /\ call' = NoCall
    BY DEF Return, NoWrite
  <1>2. call.op # "open" /\ call.fd \in Handles /\ Cur \in FileS
    BY <1>1, CurType DEF VolumeInv, CallInv
  <1>3. \/ UNCHANGED file_num
        \/ SetCur(Closed) /\ pc = "done" /\ call.op = "close"
        \/ SetCur([Cur EXCEPT !.flags = @ \cup {"FS_DIRTY"}])
    BY <1>2 DEF Return, Finished
  <1>4. \A h \in Handles :
          \/ file_num'[h] = file_num[h]
          \/ h = call.fd /\ file_num'[h] = Closed /\ pc = "done" /\ call.op = "close"
          \/ h = call.fd /\ file_num'[h] = [Cur EXCEPT !.flags = @ \cup {"FS_DIRTY"}]
    BY <1>2, <1>3 DEF SetCur, TypeOK
  <1>5. ASSUME NEW h \in Handles, h = call.fd,
               file_num'[h] = [Cur EXCEPT !.flags = @ \cup {"FS_DIRTY"}]
        PROVE  /\ file_num'[h].first = file_num[h].first /\ file_num'[h].entry = file_num[h].entry
               /\ file_num'[h].flags = file_num[h].flags \cup {"FS_DIRTY"}
    BY <1>2, <1>5 DEF FileS, Cur
  <1>6. Closed.flags = {}
    BY DEF Closed
  <1>7. SavedInv'
    <2> SUFFICES ASSUME NEW h \in Handles, IsOpen(h)', file_num'[h].first # 0
                 PROVE  IF file_num'[h].entry # 0
                        THEN dir'[file_num'[h].entry].first = file_num'[h].first
                        ELSE {"WRITE", "FS_DIRTY"} \subseteq file_num'[h].flags
      BY DEF SavedInv
    <2>1. CASE file_num'[h] = file_num[h]
      BY <1>1, <2>1 DEF SpaceInv, SavedInv, IsOpen
    <2>2. CASE h = call.fd /\ file_num'[h] = [Cur EXCEPT !.flags = @ \cup {"FS_DIRTY"}]
      <3>1. IsOpen(h)
        <4>1. file_num'[h].flags = file_num[h].flags \cup {"FS_DIRTY"}
          BY <1>5, <2>2
        <4>2. "OPEN" \in file_num'[h].flags
          BY DEF IsOpen
        <4>3. "OPEN" \in file_num[h].flags
          BY <4>1, <4>2
        <4> QED BY <4>3 DEF IsOpen
      <3> QED BY <1>1, <1>5, <2>2, <3>1 DEF SpaceInv, SavedInv
    <2>3. file_num'[h] # Closed
      BY <1>6 DEF IsOpen
    <2> QED BY <1>4, <2>1, <2>2, <2>3
  <1>8. ClosingInv'
    BY <1>1 DEF ClosingInv, NoCall
  <1>9. ASSUME NEW h \in Handles, IsOpen(h), file_num[h].first # 0
        PROVE  \/ IsOpen(h)' /\ file_num'[h].first = file_num[h].first
               \/ \E s \in Slots : Live(s) /\ dir[s].first = file_num[h].first
    <2>1. CASE file_num'[h] = file_num[h]
      BY <1>9, <2>1 DEF IsOpen
    <2>2. CASE h = call.fd /\ file_num'[h] = [Cur EXCEPT !.flags = @ \cup {"FS_DIRTY"}]
      BY <1>5, <1>9, <2>2 DEF IsOpen
    <2>3. CASE h = call.fd /\ pc = "done" /\ call.op = "close"
      <3>1. file_num[h].entry # 0
        BY <1>9, <2>3 DEF SpaceInv, ClosingInv, Cur
      <3>2. Live(file_num[h].entry) /\ dir[file_num[h].entry].first = file_num[h].first
        BY <1>9, <3>1 DEF SpaceInv, SavedInv, VolumeInv, HandleInv, EntryInv
      <3>3. file_num[h].entry \in Slots
        BY <3>1, GeometryAssumption DEF TypeOK, FileS, Slots
      <3> QED BY <3>2, <3>3
    <2> QED BY <1>4, <2>1, <2>2, <2>3
  <1>10. /\ ~Freeing /\ pc' \notin {"chain", "free", "freed"}
         /\ Untroubled' => Untroubled /\ pc # "chain"
    BY <1>1 DEF Freeing, Untroubled, Works
  <1> QED BY <1>1, <1>7, <1>8, <1>9, <1>10, SpaceSame

\* A call begins, or is refused; fat_open may fill a closed handle.
LEMMA BeginSpace ==
  ASSUME SafeUse, TypeOK, VolumeInv, SpaceInv, Begin
  PROVE  SpaceInv'
  <1>1. /\ pc = "idle" /\ UNCHANGED <<fat, dir, owner, crashes>>
        /\ Works \/ faults' = faults + 1
    BY DirectoryWorks DEF Begin, OpenNoHandle, UnlinkRefused, Unlink, OpenFound, OpenUnread,
       OpenMissing, Close, BadHandle, Write, Read, Lseek, Fault, Idle, Ready, NoWrite
  <1>2. pc' \notin {"chain", "free", "freed", "done"}
    BY BeginLabels
  <1>3. \/ file_num' = file_num
        \/ \E h \in Handles, n \in Names, m \in Modes, ro \in RoModes :
             ~IsOpen(h) /\ file_num' = [file_num EXCEPT ![h] = NewFile(n, m, ro)]
        \/ \E h \in Handles, s \in Slots, m \in Modes :
             \E f \in {OldFile(s, m), UnreadFile(s, m)} :
                ~IsOpen(h) /\ file_num' = [file_num EXCEPT ![h] = f]
    <2>1. ASSUME NEW n \in Names, NEW m \in Modes, OpenFound(n, m) \/ OpenUnread(n, m)
          PROVE  \/ file_num' = file_num
                 \/ \E h \in Handles, s \in Slots :
                      \E f \in {OldFile(s, m), UnreadFile(s, m)} :
                         ~IsOpen(h) /\ file_num' = [file_num EXCEPT ![h] = f]
      BY <2>1 DEF OpenFound, OpenUnread, OpenIn, UnreadFile, Refuse, NextFile
    <2>2. ASSUME NEW n \in Names, NEW m \in Modes, NEW ro \in RoModes, OpenMissing(n, m, ro)
          PROVE  \/ file_num' = file_num
                 \/ \E h \in Handles :
                      ~IsOpen(h) /\ file_num' = [file_num EXCEPT ![h] = NewFile(n, m, ro)]
      BY <2>2 DEF OpenMissing, CreateIn, Refuse, NextFile
    <2>3. ASSUME ~ \E n \in Names, m \in Modes :
                     \/ OpenFound(n, m) \/ OpenUnread(n, m)
                     \/ \E ro \in RoModes : OpenMissing(n, m, ro)
          PROVE  file_num' = file_num
      BY <2>3, DirectoryWorks DEF Begin, OpenNoHandle, UnlinkRefused, Unlink, Close, BadHandle, Write, Read,
         Lseek, Start, Refuse
    <2> QED BY <2>1, <2>2, <2>3
  <1>4. call' = call \/ (call'.op = "close" => ~call'.seeking)
    <2>1. ASSUME NEW n \in Names, NEW m \in Modes,
                 \/ OpenFound(n, m) \/ OpenUnread(n, m)
                 \/ \E ro \in RoModes : OpenMissing(n, m, ro)
          PROVE  call' = call
      BY <2>1 DEF OpenFound, OpenUnread, OpenIn, OpenMissing, CreateIn, Refuse, SafeUse
    <2>2. ASSUME NEW n \in Names, OpenNoHandle(n) \/ UnlinkRefused(n) \/ Unlink(n)
          PROVE  call' = call \/ ~call'.seeking
      BY <2>2 DEF OpenNoHandle, UnlinkRefused, Unlink, Refuse, Start, NoCall
    <2>3. ASSUME NEW h \in Handles, Close(h) \/ BadHandle(h) \/ \E n \in 1 .. MaxCount : Read(h, n)
          PROVE  call' = call \/ ~call'.seeking
      BY <2>3 DEF Close, BadHandle, Read, Refuse, Start, NoCall
    <2>4. ASSUME NEW h \in Handles, NEW bs \in Payloads, Write(h, bs)
          PROVE  call'.op = "write"
      BY <2>4 DEF Write, Start, NoCall
    <2>5. ASSUME NEW h \in Handles, NEW w, NEW p, Lseek(h, p, w)
          PROVE  call'.op = "lseek"
      BY <2>5 DEF Lseek, Start, NoCall
    <2> QED BY <2>1, <2>2, <2>3, <2>4, <2>5, DirectoryWorks DEF Begin
  <1>5. ClosingInv'
    BY <1>2, <1>4 DEF SpaceInv, ClosingInv
  <1>6. \A h \in Handles :
          \/ file_num'[h] = file_num[h]
          \/ ~IsOpen(h) /\ file_num'[h].first = 0
          \/ ~IsOpen(h) /\ \E s \in Slots : file_num'[h].entry = s /\ file_num'[h].first = dir[s].first
    <2>1. ASSUME NEW n, NEW m, NEW ro PROVE NewFile(n, m, ro).first = 0
      BY DEF NewFile, Closed
    <2>2. ASSUME NEW s, NEW m, NEW f \in {OldFile(s, m), UnreadFile(s, m)}
          PROVE  f.entry = s /\ f.first = dir[s].first
      BY DEF OldFile, UnreadFile, Closed
    <2> QED BY <1>3, <2>1, <2>2 DEF TypeOK
  <1>7. SavedInv'
    <2>1. SavedInv /\ 0 \notin Slots
      BY GeometryAssumption DEF SpaceInv, Slots
    <2> QED BY <1>1, <1>6, <2>1 DEF SavedInv, IsOpen
  <1>8. \A h \in Handles : IsOpen(h) /\ file_num[h].first # 0 =>
          IsOpen(h)' /\ file_num'[h].first = file_num[h].first
    BY <1>6 DEF IsOpen
  <1>9. ~Freeing /\ (Untroubled' => Untroubled /\ pc # "chain")
    BY <1>1 DEF Freeing, Untroubled, Works, TypeOK
  <1> QED BY <1>1, <1>2, <1>5, <1>7, <1>8, <1>9, SpaceSame

\* Power loss is trouble: what is lost with it is not promised to anybody.
LEMMA CrashSpace ==
  ASSUME TypeOK, Crash
  PROVE  SpaceInv'
  <1>1. ~Untroubled'
    BY DEF Crash, TypeOK, Untroubled
  <1>2. \A h \in Handles : ~IsOpen(h)'
    BY DEF Crash, Closed, IsOpen
  <1>3. SavedInv' /\ ClosingInv' /\ HandInv'
    BY <1>2 DEF SavedInv, ClosingInv, HandInv, Freeing, Crash, NoCall
  <1> QED BY <1>1, <1>3 DEF SpaceInv

\* On the initial volume no cluster is allocated.
LEMMA InitSpace == ASSUME Init PROVE SpaceInv
  <1>1. /\ \A c \in Clusters : owner[c] = 0
        /\ \A h \in Handles : ~IsOpen(h)
        /\ pc = "idle" /\ call.op = "none"
    BY Markers DEF Init, IsOpen, Closed, NoCall
  <1>2. SavedInv /\ ClosingInv /\ HandInv
    BY <1>1 DEF SavedInv, ClosingInv, HandInv, Freeing
  <1>3. {c \in Clusters : owner[c] # 0} = {}
    BY <1>1
  <1> QED BY <1>1, <1>2, <1>3 DEF SpaceInv

\* The invariant is inductive.
LEMMA NextKeepsSpace ==
  ASSUME SafeUse, TypeInv, VolumeInv, ChainInv, VolumeInv', SpaceInv, [Next]_vars
  PROVE  SpaceInv'
  <1>0. TypeOK /\ AccessInv /\ FreeingInv
    BY DEF TypeInv, ChainInv
  <1>1. CASE FlushStep
    BY <1>0, <1>1, FlushSpace, FlushAllocateSpace DEF FlushStep
  <1>2. CASE InfoStep
    BY <1>0, <1>2, DirectoryWorks, InfoSkipSpace, InfoWriteSpace DEF InfoStep
  <1>3. CASE NextStep
    BY <1>0, <1>3, NextSpace, NextChainSpace, NextAllocateSpace DEF NextStep
  <1>4. CASE SeekStep
    BY <1>0, <1>4, SeekSpace
  <1>5. CASE ByteStep
    BY <1>0, <1>5, ByteSpace
  <1>6. CASE FreeStep
    BY <1>0, <1>6, FreeEntrySpace, FreedSpace, DeleteSpace DEF FreeStep
  <1>7. CASE CloseInfo \/ Return
    BY <1>0, <1>7, CloseInfoSpace, ReturnSpace
  <1>8. CASE Begin
    BY <1>0, <1>8, BeginSpace
  <1>9. CASE Crash
    BY <1>0, <1>9, CrashSpace
  <1>10. CASE UNCHANGED vars
    <2>1. Cur' = Cur /\ Freeing' = Freeing /\ Starts' = Starts /\ Untroubled' = Untroubled
      BY <1>10 DEF vars, Cur, Freeing, Starts, Untroubled
    <2>2. SavedInv' /\ ClosingInv' /\ HandInv'
      BY <1>10, <2>1 DEF vars, SpaceInv, SavedInv, ClosingInv, HandInv, IsOpen
    <2>3. Untroubled' => \A c \in Clusters : owner'[c] # 0 => Held(owner[c])'
      BY <1>10, <2>1 DEF vars, SpaceInv, Held, Live, IsOpen
    <2>4. Untroubled' => \A S \in SUBSET {c \in Clusters : owner'[c] # 0} : S = {} \/ Rooted(S)'
      BY <1>10, <2>1 DEF vars, SpaceInv, Rooted
    <2> QED BY <2>2, <2>3, <2>4 DEF SpaceInv
  <1> QED BY <1>1, <1>2, <1>3, <1>4, <1>5, <1>6, <1>7, <1>8, <1>9, <1>10 DEF Next, Step

\* Between calls every allocated cluster has a rank.
LEMMA AllRanked ==
  ASSUME TypeOK, VolumeInv, SpaceInv, Untroubled, pc = "idle",
         NEW rank \in Ranks, Chained(rank)
  PROVE  \A c \in Clusters : owner[c] # 0 => rank[c] >= 0
  <1> DEFINE S == {c \in Clusters : owner[c] # 0 /\ ~(rank[c] >= 0)}
  <1> SUFFICES ASSUME S # {} PROVE FALSE
    OBVIOUS
  <1>1. Rooted(S)
    BY DEF SpaceInv
  <1>2. S \cap Starts = {}
    <2> SUFFICES ASSUME NEW c \in S, c \in Starts PROVE FALSE
      OBVIOUS
    <2>1. owner[c] = c
      BY DEF Starts, Freeing
    <2> QED BY <2>1 DEF Chained
  <1>3. PICK d \in Clusters \ S, c \in S : fat[d] = c
    BY <1>1, <1>2 DEF Rooted
  <1>4. owner[d] # 0
    BY <1>3 DEF VolumeInv, FatInv
  <1>5. rank[d] >= 0 /\ rank[d] \in Int
    BY <1>3, <1>4 DEF Ranks
  <1>6. rank[c] = rank[d] + 1
    BY <1>3, <1>5 DEF Chained
  <1> QED BY <1>3, <1>5, <1>6

\* A cluster with a rank is in the chain the walk from its first cluster finds.
LEMMA RankedInChain ==
  ASSUME TypeOK, FatInv, NEW rank \in Ranks, Chained(rank), NEW c \in Clusters, rank[c] >= 0
  PROVE  c \in Chain(owner[c])
  <1>1. PICK o \in Clusters : o = owner[c] /\ owner[o] = o
    BY DEF Chained
  <1>2. InChain(rank, c, o)
    BY <1>1 DEF InChain
  <1>3. LastCluster \in Nat /\ LastCluster >= 2 /\ rank[c] \in Nat
    BY GeometryAssumption DEF Ranks
  <1>4. rank[c] <= LastCluster
    <2>1. /\ IsFiniteSet(Clusters) /\ Cardinality(Clusters) = LastCluster - 1
      <3>1. 2 \in Int /\ LastCluster \in Int /\ ~(2 > LastCluster)
        BY <1>3
      <3>2. /\ IsFiniteSet(2 .. LastCluster)
            /\ Cardinality(2 .. LastCluster)
                 = IF 2 > LastCluster THEN 0 ELSE LastCluster - 2 + 1
        BY <3>1, FS_Interval
      <3> QED BY <1>3, <3>1, <3>2 DEF Clusters
    <2>2. Chain(o) \subseteq Clusters
      BY DEF Chain
    <2>3. Cardinality(Chain(o)) <= LastCluster - 1
      BY <2>1, <2>2, FS_Subset
    <2>4. Cardinality(Chain(o)) \in Nat /\ rank[c] + 1 <= Cardinality(Chain(o))
      BY <1>1, <1>2, ChainCounts
    <2> QED BY <1>3, <2>3, <2>4
  <1>5. PICK i \in 0 .. LastCluster : i = rank[c]
    BY <1>3, <1>4
  <1>6. PICK d : d = ChainFrom(o)[i]
    OBVIOUS
  <1>7. InChain(rank, d, o) /\ rank[d] = i
    BY <1>1, <1>2, <1>3, <1>5, <1>6, WalkThroughRanks
  <1>8. d = c
    BY <1>1, <1>5, <1>7 DEF InChain, Chained
  <1> QED BY <1>1, <1>6, <1>8 DEF Chain

\* Where every cluster in use has a rank and an owner, none is outside the
\* chains of the files.
LEMMA NothingLost == TypeOK /\ VolumeInv /\ ChainInv /\ SpaceInv => NoLeak
  <1> SUFFICES ASSUME TypeOK, VolumeInv, ChainInv, SpaceInv, pc = "idle", crashes = 0, faults = 0,
                      NEW c \in Clusters, fat[c] # 0
               PROVE  \/ \E s \in Slots : Live(s) /\ c \in Chain(dir[s].first)
                      \/ \E h \in Handles : IsOpen(h) /\ c \in Chain(file_num[h].first)
    BY DEF NoLeak
  <1>1. PICK rank \in Ranks : RankInv(rank)
    BY DEF ChainInv
  <1>2. Untroubled /\ owner[c] # 0
    BY DEF Untroubled, VolumeInv, FatInv
  <1>3. rank[c] >= 0
    BY <1>1, <1>2, AllRanked DEF RankInv
  <1>4. c \in Chain(owner[c])
    BY <1>1, <1>3, RankedInChain DEF RankInv, VolumeInv
  <1>5. Held(owner[c]) /\ ~Freeing
    BY <1>2 DEF SpaceInv, Freeing
  <1> QED BY <1>4, <1>5 DEF Held

\* gristle.c, fat_open, fat_write, fat_lseek, fat_close and fat_unlink: between
\* calls, as long as no power was lost and no block operation has failed, every
\* cluster whose FAT entry is not 0 is in the chain of a file in the directory
\* or of an open one.  No cluster is allocated and not linked, forgotten with
\* the handle of a file, or left behind by fat_free_clusters.
THEOREM NoSpaceLost == ASSUME SafeUse PROVE Spec => []NoLeak
  <1>1. Init => TypeInv /\ VolumeInv /\ ChainInv /\ SpaceInv
    BY InitType, InitSafe, InitChains, InitSpace
  <1>2. TypeInv /\ VolumeInv /\ ChainInv /\ SpaceInv /\ [Next]_vars =>
          TypeInv' /\ VolumeInv' /\ ChainInv' /\ SpaceInv'
    BY NextInOrder, NextKeepsSpace
  <1>3. TypeInv /\ VolumeInv /\ ChainInv /\ SpaceInv => NoLeak
    BY NothingLost DEF TypeInv
  <1> QED BY <1>1, <1>2, <1>3, PTL DEF Spec
=============================================================================
