----------------------------- MODULE FatFsProofs -----------------------------
(***************************************************************************)
(* Theorems about FatFs: every step keeps the state well typed, for every  *)
(* geometry, usage of the API and pattern of faults and crashes.           *)
(***************************************************************************)
EXTENDS FatFsInv, FiniteSetTheorems, TLAPS

(***************************************************************************)
(* Arithmetic of sectors.                                                  *)
(***************************************************************************)

\* The remainder of a division lies below the divisor.
LEMMA ModRange ==
  ASSUME NEW a \in Int, NEW b \in Nat \ {0}
  PROVE  a % b \in 0 .. b - 1
  OBVIOUS

\* A product of naturals grows with its first factor.
LEMMA MulMonotone ==
  ASSUME NEW a \in Nat, NEW b \in Nat, NEW c \in Nat, a <= b
  PROVE  a * c \in Nat /\ b * c \in Nat /\ a * c <= b * c
  <1>1. b = a + (b - a) /\ b - a \in Nat
    OBVIOUS
  <1>2. b * c = a * c + (b - a) * c
    BY <1>1, Z3
  <1>3. (b - a) * c \in Nat /\ a * c \in Nat
    BY <1>1
  <1> QED BY <1>2, <1>3

\* Division by a positive number yields a natural number.
LEMMA DivNat ==
  ASSUME NEW a \in Nat, NEW b \in Nat \ {0}
  PROVE  a \div b \in Nat /\ (a \div b) * b <= a
  OBVIOUS

\* The sector within the cluster that a position falls into.
LEMMA SectorInCluster ==
  ASSUME NEW a \in Nat, NEW s \in Nat \ {0}, NEW n \in Nat \ {0}
  PROVE  (a % (n * s)) \div s \in 0 .. n - 1
  <1> DEFINE r == a % (n * s)
             q == r \div s
  <1>1. n * s \in Nat \ {0}
    OBVIOUS
  <1>2. r \in Nat /\ r < n * s
    BY <1>1
  <1>3. q \in Nat /\ q * s <= r
    BY <1>2, DivNat
  <1>4. ASSUME n <= q PROVE FALSE
    BY <1>2, <1>3, <1>4, MulMonotone
  <1> QED BY <1>3, <1>4

\* Division by the size of a sector or of a cluster yields a natural number.
LEMMA PositiveSizes ==
  /\ ClusterBytes \in Nat \ {0}
  /\ \A p \in Nat : /\ p \div SectorSize \in Nat /\ p \div ClusterBytes \in Nat
                    /\ p % SectorSize \in 0 .. SectorSize - 1
  <1>1. ClusterBytes \in Nat \ {0}
    BY GeometryAssumption DEF ClusterBytes
  <1>2. SectorSize \in Nat \ {0}
    BY GeometryAssumption
  <1> HIDE DEF ClusterBytes
  <1>3. ASSUME NEW p \in Nat
        PROVE  /\ p \div SectorSize \in Nat /\ p \div ClusterBytes \in Nat
               /\ p % SectorSize \in 0 .. SectorSize - 1
    <2>1. p \div SectorSize \in Nat
      BY <1>2, DivNat
    <2>2. p \div ClusterBytes \in Nat
      BY <1>1, DivNat
    <2>3. p % SectorSize \in 0 .. SectorSize - 1
      BY <1>2, ModRange
    <2> QED BY <2>1, <2>2, <2>3
  <1> QED BY <1>1, <1>3, Zenon

\* Sector numbers are 32 bits wide, and those of clusters of the volume are on
\* the device.
LEMMA SectorOfType ==
  /\ \A c \in Nat : SectorOf(c) \in 0 .. Bad
  /\ \A c \in 1 .. LastCluster : SectorOf(c) \in Sectors
  <1>1. ASSUME NEW c \in Nat PROVE SectorOf(c) \in 0 .. Bad
    <2> DEFINE s == c * SectorsPerCluster + Cluster0
    <2>1. s \in Int /\ Word \in Nat \ {0}
      BY GeometryAssumption
    <2> HIDE DEF s
    <2>2. s % Word \in 0 .. Word - 1
      BY <2>1, ModRange
    <2> QED BY <2>2 DEF SectorOf, Bad, s
  <1>2. ASSUME NEW c \in 1 .. LastCluster PROVE SectorOf(c) \in Sectors
    <2> DEFINE s == c * SectorsPerCluster + Cluster0
    <2>1. /\ 1 * SectorsPerCluster <= c * SectorsPerCluster
          /\ c * SectorsPerCluster \in Nat
          /\ c * SectorsPerCluster <= LastCluster * SectorsPerCluster
          /\ LastCluster * SectorsPerCluster \in Nat
      BY MulMonotone, GeometryAssumption
    <2>2. s \in 1 .. LastSector /\ s < Word
      BY <2>1, GeometryAssumption DEF LastSector
    <2> HIDE DEF s
    <2>3. s % Word = s
      BY <2>2, GeometryAssumption
    <2> QED BY <2>2, <2>3 DEF SectorOf, Sectors, s
  <1> QED BY <1>1, <1>2

(***************************************************************************)
(* Types.                                                                  *)
(***************************************************************************)

\* The labels the subroutines return to are labels, and not those at which a
\* cluster number is in hand.
Plain == Labels \ {"delete", "free", "freed", "chain"}
LEMMA ReturnLabels ==
  /\ \A ok \in BOOLEAN : /\ AfterSector(ok) \in Plain /\ AfterFlush(ok) \in Plain
                         /\ AfterInfo(ok) \in Plain /\ AfterSeek(ok) \in Plain
  /\ \A c : AfterNext(c) \in Plain
  <1>1. \A ok : AfterSector(ok) \in Plain /\ AfterSeek(ok) \in Plain
    BY DEF AfterSector, AfterSeek, Plain, Labels
  <1>2. \A c : AfterNext(c) \in Plain
    BY <1>1 DEF AfterNext, Plain, Labels
  <1>3. \A ok : AfterFlush(ok) \in Plain
    BY <1>1, <1>2 DEF AfterFlush, Plain, Labels
  <1>4. \A ok : AfterInfo(ok) \in Plain
    BY <1>2, <1>3 DEF AfterInfo, Plain, Labels
  <1> QED BY <1>1, <1>2, <1>3, <1>4

\* The file of the running call is a file, and replacing it keeps the table of
\* open files well typed.
LEMMA CurType ==
  ASSUME TypeOK
  PROVE  /\ call.fd \in Handles /\ Cur \in FileS
         /\ \A f \in FileS : SetCur(f) => file_num' \in [Handles -> FileS]
  <1>1. call.fd \in Handles
    BY DEF TypeOK, Calls
  <1>2. file_num \in [Handles -> FileS]
    BY DEF TypeOK
  <1> QED BY <1>1, <1>2 DEF Cur, SetCur

\* The blocks that appear without being read from the disk.
LEMMA BlockTypes == MetaBlock \in Block /\ NulBlock \in Block
  BY DEF MetaBlock, NulBlock, Block, Cells

\* Reading a sector of the device yields a block.
LEMMA DiskType ==
  ASSUME TypeOK, NEW s \in Sectors
  PROVE  disk[s] \in Block
  BY DEF TypeOK

\* Replacing the buffer, the cluster, or the entry and flags of a file.
LEMMA FileUpdates ==
  ASSUME NEW f \in FileS
  PROVE  /\ \A b \in Block : [f EXCEPT !.buffer = b] \in FileS
         /\ \A c \in 0 .. Bad : [f EXCEPT !.cluster = c] \in FileS
         /\ \A b \in Block, s \in Slots :
              /\ [f EXCEPT !.entry = s, !.buffer = b] \in FileS
              /\ [f EXCEPT !.entry = s, !.buffer = b,
                           !.flags = @ \ {"FS_DIRTY"}] \in FileS
  <1>1. ASSUME NEW b \in Block PROVE [f EXCEPT !.buffer = b] \in FileS
    BY <1>1 DEF FileS
  <1>2. ASSUME NEW c \in 0 .. Bad PROVE [f EXCEPT !.cluster = c] \in FileS
    BY <1>2 DEF FileS
  <1>3. ASSUME NEW b \in Block, NEW s \in Slots
        PROVE  /\ [f EXCEPT !.entry = s, !.buffer = b] \in FileS
               /\ [f EXCEPT !.entry = s, !.buffer = b,
                            !.flags = @ \ {"FS_DIRTY"}] \in FileS
    <2>1. s \in 0 .. DirSlots
      BY GeometryAssumption DEF Slots
    <2>2. [f EXCEPT !.entry = s, !.buffer = b] \in FileS
      BY <2>1 DEF FileS
    <2> QED BY <2>1, <2>2 DEF FileS
  <1> QED BY <1>1, <1>2, <1>3

\* A step that leaves the disk and the auxiliary variables alone, and arrives
\* at a plain label.
LEMMA QuietType ==
  ASSUME TypeInv, Quiet, NoWrite, pc' \in Plain, call' \in Calls,
         file_num' \in [Handles -> FileS], faults' \in Nat
  PROVE  TypeInv'
  BY DEF TypeInv, TypeOK, Quiet, NoWrite, Plain, Live

\* A fault counts one more fault.
LEMMA FaultType ==
  ASSUME TypeOK
  PROVE  (Works => faults' \in Nat) /\ \A op : Fault(op) => faults' \in Nat
  BY DEF TypeOK, Works, Fault

\* fat_flush and fat_get_free_cluster.
LEMMA FlushType ==
  ASSUME TypeInv, FlushStep
  PROVE  TypeInv'
  <1> USE DEF TypeInv
  <1>1. CASE FlushClean
    BY <1>1, QuietType, ReturnLabels, FaultType DEF FlushClean, TypeOK
  <1>2. CASE FlushNoSpace
    BY <1>2, QuietType, ReturnLabels, FaultType DEF FlushNoSpace, TypeOK
  <1>3. CASE FlushWriteFails
    BY <1>3, QuietType, ReturnLabels, FaultType DEF FlushWriteFails, TypeOK
  <1>4. CASE FlushWrite
    <2>1. [Cur EXCEPT !.flags = @ \ {"DIRTY"}] \in FileS /\ Cur.buffer \in Block
      BY CurType DEF FileS
    <2>2. file_num' \in [Handles -> FileS]
      BY <1>4, <2>1, CurType DEF FlushWrite
    <2>3. disk' \in [Sectors -> Block]
      BY <1>4, <2>1 DEF FlushWrite, TypeOK
    <2>4. pc' \in Plain
      BY <1>4, ReturnLabels DEF FlushWrite, Plain, Labels
    <2>5. [call EXCEPT !.info = "flush"] \in Calls
      BY DEF TypeOK, Calls
    <2>6. call' \in Calls
      BY <1>4, <2>5 DEF FlushWrite, TypeOK
    <2> QED BY <1>4, <2>2, <2>3, <2>4, <2>6
            DEF FlushWrite, TypeOK, Quiet, Works, Plain, Live
  <1>5. ASSUME NEW k \in FatIndex, FlushAllocate(k) PROVE TypeInv'
    <2>1. fat' \in [FatIndex -> 0 .. EndMarker] /\ owner' \in [FatIndex -> FatIndex]
      BY <1>5, GeometryAssumption
         DEF FlushAllocate, Claim, TypeOK, EndMarker, FatIndex
    <2>2. [Cur EXCEPT !.first = k, !.cluster = k, !.sector = SectorOf(k),
                      !.sectors_left = SectorsPerCluster - 1,
                      !.flags = @ \cup {"FS_DIRTY"}] \in FileS
      <3>1. k \in 0 .. Bad /\ SectorOf(k) \in 0 .. Bad
        BY SectorOfType, GeometryAssumption DEF FatIndex, Bad
      <3>2. SectorsPerCluster - 1 \in 0 .. 255
        BY GeometryAssumption
      <3> QED BY <3>1, <3>2, CurType DEF FileS, FileFlags
    <2>3. file_num' \in [Handles -> FileS]
      BY <1>5, <2>2, CurType DEF FlushAllocate, TypeOK
    <2>4. pc' \in Plain
      BY <1>5, ReturnLabels DEF FlushAllocate, Plain, Labels
    <2> QED BY <1>5, <2>1, <2>3, <2>4
            DEF FlushAllocate, TypeOK, Quiet, Works, Plain, Live
  <1> QED BY <1>1, <1>2, <1>3, <1>4, <1>5 DEF FlushStep

\* A directory with a block overwritten by file data holds entries still, and no
\* live one that it did not hold before.
LEMMA OverwrittenType ==
  ASSUME TypeInv, NEW b, NEW Z
  PROVE  /\ Overwritten(b, Z) \in [Slots -> DirEntry]
         /\ \A s \in Slots : Overwritten(b, Z)[s].kind = "file" =>
              Overwritten(b, Z)[s].first # 0
         /\ [DataSlot EXCEPT !.kind = "deleted"] \in DirEntry
  <1>1. EmptySlot \in DirEntry /\ EmptySlot.kind # "file"
    BY GeometryAssumption DEF EmptySlot, DirEntry, FatIndex
  <1>2. DataSlot \in DirEntry /\ DataSlot.kind # "file"
    BY <1>1 DEF DataSlot, DirEntry, EmptySlot
  <1>3. [DataSlot EXCEPT !.kind = "deleted"] \in DirEntry
    BY <1>2 DEF DirEntry
  <1>4. dir \in [Slots -> DirEntry] /\ \A s \in Slots : dir[s].kind = "file" => dir[s].first # 0
    BY DEF TypeInv, TypeOK, Live
  <1> QED BY <1>1, <1>2, <1>3, <1>4 DEF Overwritten

\* fat_flush_fileinfo.
LEMMA InfoType ==
  ASSUME TypeInv, InfoStep
  PROVE  TypeInv'
  <1> USE DEF TypeInv
  <1>1. CASE InfoSkip
    BY <1>1, QuietType, ReturnLabels, FaultType DEF InfoSkip, TypeOK
  <1>2. ASSUME NEW s \in Slots
        PROVE  [Cur EXCEPT !.entry = s, !.buffer = MetaBlock] \in FileS
    BY CurType, BlockTypes, FileUpdates
  <1>3. ASSUME NEW s \in Slots, InfoWrite(s) PROVE TypeInv'
    <2>1. Cur.sector \in Sectors => Saved(Cur, s) \in FileS
      BY CurType, DiskType, FileUpdates DEF Saved
    <2>2. file_num' \in [Handles -> FileS]
      BY <1>2, <1>3, <2>1, CurType DEF InfoWrite
    <2>3. EntryOf(Cur) \in DirEntry /\ EntryOf(Cur).first # 0
      BY <1>3, CurType DEF InfoWrite, NothingToSave, EntryOf, DirEntry, FileS
    <2>4. dir' \in [Slots -> DirEntry] /\ \A t \in Slots : Live(t)' => dir'[t].first # 0
      BY <1>3, <2>3 DEF InfoWrite, TypeOK, Live
    <2>5. pc' \in Plain /\ faults' \in Nat
      BY <1>3, ReturnLabels, FaultType DEF InfoWrite
    <2> QED BY <1>3, <2>2, <2>4, <2>5 DEF InfoWrite, TypeOK, Quiet, Plain
  <1>4. ASSUME NEW s \in Slots, InfoWriteFails(s) PROVE TypeInv'
    <2>1. file_num' \in [Handles -> FileS]
      BY <1>2, <1>4, CurType DEF InfoWriteFails
    <2> QED BY <1>4, <2>1, QuietType, ReturnLabels, FaultType
            DEF InfoWriteFails, TypeOK
  <1>5. CASE InfoUnreadable
    BY <1>5, QuietType, ReturnLabels, FaultType DEF InfoUnreadable, TypeOK
  <1>6. CASE InfoLost
    <2>1. pc' \in Plain /\ faults' \in Nat
      BY <1>6, FaultType DEF InfoLost, Unread, Plain, Labels
    <2> QED BY <1>6, <2>1, QuietType DEF InfoLost, TypeOK
  <1>7. ASSUME NEW s \in Slots, InfoAstray(s) PROVE TypeInv'
    <2>1. Cur.sector \in Sectors => Saved(Cur, s) \in FileS
      BY CurType, DiskType, FileUpdates DEF Saved
    <2>2. file_num' \in [Handles -> FileS] /\ pc' \in Plain
      BY <1>2, <1>7, <2>1, CurType, ReturnLabels DEF InfoAstray
    <2>3. EntryOf(Cur) \in DirEntry /\ EntryOf(Cur).first # 0
      BY <1>7, CurType DEF InfoAstray, NothingToSave, EntryOf, DirEntry, FileS
    <2>4. dir \in [Slots -> DirEntry] /\ \A t \in Slots : dir[t].kind = "file" => dir[t].first # 0
      BY DEF TypeOK, Live
    <2>5. PICK d \in [Slots -> DirEntry] :
            /\ \A t \in Slots : d[t].kind = "file" => d[t].first # 0
            /\ dir' = [d EXCEPT ![s] = EntryOf(Cur)]
      <3>1. CASE dir' = [dir EXCEPT ![s] = EntryOf(Cur)]
        BY <2>4, <3>1
      <3>2. CASE \E Z \in SUBSET (s + 1 .. DirSlots) :
                   dir' = [Overwritten(0, Z) EXCEPT ![s] = EntryOf(Cur)]
        BY <3>2, OverwrittenType
      <3> QED BY <1>7, <3>1, <3>2 DEF InfoAstray
    <2>6. dir' \in [Slots -> DirEntry] /\ \A t \in Slots : Live(t)' => dir'[t].first # 0
      BY <2>3, <2>5 DEF Live
    <2>7. faults' \in Nat
      BY <1>7, FaultType DEF InfoAstray, Unread
    <2> QED BY <1>7, <2>2, <2>6, <2>7 DEF InfoAstray, TypeOK, Quiet, Plain
  <1> QED BY <1>1, <1>3, <1>4, <1>5, <1>6, <1>7 DEF InfoStep

\* Replacing the fields of the activation record that subroutines use.
LEMMA CallUpdates ==
  ASSUME NEW c \in Calls
  PROVE  /\ \A r \in 0 .. Bad : [c EXCEPT !.res = r] \in Calls
         /\ [c EXCEPT !.info = "next"] \in Calls
         /\ [c EXCEPT !.info = "close"] \in Calls
         /\ [c EXCEPT !.flush = "sector"] \in Calls
         /\ [c EXCEPT !.seeking = FALSE] \in Calls
         /\ [c EXCEPT !.i = 0] \in Calls
         /\ [c EXCEPT !.i = @ + 1] \in Calls
  <1>1. ASSUME NEW r \in 0 .. Bad PROVE [c EXCEPT !.res = r] \in Calls
    BY <1>1 DEF Calls
  <1>2. [c EXCEPT !.info = "next"] \in Calls /\ [c EXCEPT !.info = "close"] \in Calls
    BY DEF Calls
  <1>3. [c EXCEPT !.flush = "sector"] \in Calls
    BY DEF Calls
  <1>4. [c EXCEPT !.seeking = FALSE] \in Calls
    BY DEF Calls
  <1>5. \A n \in Nat : [c EXCEPT !.i = n] \in Calls
    BY DEF Calls
  <1>6. c.i + 1 \in Nat
    BY DEF Calls
  <1> QED BY <1>1, <1>2, <1>3, <1>4, <1>5, <1>6

\* fat_next_sector, fat_select_cluster and fat_next_cluster.
LEMMA NextType ==
  ASSUME TypeInv, NextStep
  PROVE  TypeInv'
  <1> USE DEF TypeInv
  <1>1. /\ Cur \in FileS /\ call \in Calls /\ Bad \in 0 .. Bad
        /\ SectorsPerCluster - 1 \in 0 .. 255
    BY CurType, GeometryAssumption DEF TypeOK, Bad
  <1>2. ASSUME NEW r \in 0 .. Bad, NextReturn(r)
        PROVE  pc' \in Plain /\ call' \in Calls
    BY <1>1, <1>2, ReturnLabels, CallUpdates DEF NextReturn
  <1>3. ASSUME SetCur([Cur EXCEPT !.buffer = MetaBlock])
        PROVE  file_num' \in [Handles -> FileS]
    BY <1>1, <1>3, CurType, FileUpdates, BlockTypes
  <1>4. CASE SectorHop
    <2> DEFINE s == (Cur.sector + 1) % Word
               f == [Cur EXCEPT !.sectors_left = @ - 1, !.file_sector = @ + 1,
                                !.cursor = 0, !.sector = s]
    <2>1. /\ Cur.sectors_left - 1 \in 0 .. 255 /\ Cur.file_sector + 1 \in Nat
          /\ Cur.sector \in Nat
      BY <1>1, <1>4 DEF SectorHop, MoreSectors, FileS
    <2>2. s \in 0 .. Bad /\ 0 \in 0 .. SectorSize
      <3>1. Word \in Nat \ {0} /\ 0 \in 0 .. SectorSize
        BY GeometryAssumption
      <3>2. Cur.sector + 1 \in Int
        BY <2>1
      <3> QED BY <3>1, <3>2, ModRange DEF Bad
    <2>3. f \in FileS
      <3> HIDE DEF s
      <3> QED BY <1>1, <2>1, <2>2 DEF FileS
    <2>4. s \in Sectors => [f EXCEPT !.buffer = disk[s]] \in FileS
      <3> HIDE DEF s, f
      <3> QED BY <2>3, DiskType, FileUpdates
    <2>5. file_num' \in [Handles -> FileS] /\ pc' \in Plain /\ faults' \in Nat
      <3>1. \/ SetCur([f EXCEPT !.buffer = disk[s]]) /\ s \in Sectors
            \/ SetCur(f)
        BY <1>4 DEF SectorHop
      <3>2. file_num' \in [Handles -> FileS]
        <4> HIDE DEF s, f
        <4> QED BY <2>3, <2>4, <3>1, CurType
      <3> QED BY <1>4, <3>2, ReturnLabels, FaultType DEF SectorHop
    <2> QED BY <1>1, <1>4, <2>5, QuietType DEF SectorHop
  <1>5. CASE SectorEnd
    <2>1. [call EXCEPT !.next = "sector", !.res = Bad] \in Calls
      BY <1>1 DEF Calls
    <2> QED BY <1>5, <2>1, QuietType, FaultType
            DEF SectorEnd, Plain, Labels, TypeOK
  <1>6. CASE SelectCluster
    <2> DEFINE s == SectorOf(call.res)
               f == [Cur EXCEPT !.file_sector = @ + 1, !.sector = s,
                                !.sectors_left = SectorsPerCluster - 1,
                                !.cluster = call.res, !.cursor = 0]
    <2>1. call.res \in 0 .. Bad /\ call.res \in Nat /\ Cur.file_sector + 1 \in Nat
      BY <1>1 DEF Calls, FileS
    <2>2. s \in 0 .. Bad /\ 0 \in 0 .. SectorSize
      BY <2>1, SectorOfType, GeometryAssumption
    <2>3. f \in FileS
      <3> HIDE DEF s
      <3> QED BY <1>1, <2>1, <2>2 DEF FileS
    <2>4. s \in Sectors => [f EXCEPT !.buffer = disk[s]] \in FileS
      <3> HIDE DEF s, f
      <3> QED BY <2>3, DiskType, FileUpdates
    <2>5. file_num' \in [Handles -> FileS] /\ pc' \in Plain /\ faults' \in Nat
      <3>1. \/ SetCur([f EXCEPT !.buffer = disk[s]]) /\ s \in Sectors
            \/ SetCur(f)
        BY <1>6 DEF SelectCluster
      <3>2. file_num' \in [Handles -> FileS]
        <4> HIDE DEF s, f
        <4> QED BY <2>3, <2>4, <3>1, CurType
      <3> QED BY <1>6, <3>2, ReturnLabels, FaultType DEF SelectCluster
    <2> QED BY <1>1, <1>6, <2>5, QuietType DEF SelectCluster
  <1>7. CASE NextLink
    <2>1. (IF fat[Cur.cluster] < 2 THEN Bad ELSE fat[Cur.cluster]) \in 0 .. Bad
      BY <1>1, <1>7, GeometryAssumption
         DEF NextLink, TypeOK, EndMarker, Bad, FatIndex
    <2> QED BY <1>2, <1>3, <1>7, <2>1, QuietType, FaultType DEF NextLink
  <1>8. CASE NextEnd
    BY <1>1, <1>2, <1>3, <1>8, QuietType, FaultType DEF NextEnd
  <1>9. CASE NextUnreadable
    BY <1>1, <1>2, <1>9, QuietType, FaultType DEF NextUnreadable, TypeOK
  <1>10. CASE NextChain
    <2>1. fat' \in [FatIndex -> 0 .. EndMarker]
      BY <1>10, GeometryAssumption
         DEF NextChain, TypeOK, FatIndex, EndMarker
    <2>2. call' \in Calls /\ pc' \in Plain
      BY <1>1, <1>10, CallUpdates DEF NextChain, Plain, Labels
    <2> QED BY <1>10, <2>1, <2>2
            DEF NextChain, TypeOK, Quiet, Works, Plain, Live
  <1>11. CASE NextChainFails
    BY <1>1, <1>2, <1>11, QuietType, FaultType DEF NextChainFails, TypeOK
  <1>12. ASSUME NEW k \in FatIndex, NextAllocate(k) PROVE TypeInv'
    <2>1. Cur.first \in FatIndex /\ 0 \in FatIndex /\ k \in 0 .. Bad
      BY <1>1, GeometryAssumption DEF FileS, FatIndex, Bad
    <2>2. fat' \in [FatIndex -> 0 .. EndMarker] /\ owner' \in [FatIndex -> FatIndex]
      BY <1>12, <2>1, GeometryAssumption
         DEF NextAllocate, Claim, TypeOK, EndMarker, FatIndex
    <2>3. file_num' \in [Handles -> FileS]
      BY <1>3, <1>12 DEF NextAllocate
    <2>4. Cur'.cluster = Cur.cluster
      <3>1. SetCur([Cur EXCEPT !.buffer = MetaBlock]) /\ call'.fd = call.fd
        BY <1>1, <1>12 DEF NextAllocate, NextReturn, Calls
      <3> QED BY <1>1, <3>1, CurType DEF SetCur, Cur, TypeOK, FileS
    <2>5. /\ call' \in Calls /\ pc' \in Plain \cup {"chain"}
          /\ pc' = "chain" => call'.res = k
      <3>1. CASE k = 0
        BY <1>1, <1>2, <1>12, <3>1 DEF NextAllocate, Plain
      <3>2. CASE k # 0
        <4>1. call' = [call EXCEPT !.res = k] /\ pc' = "chain"
          BY <1>12, <3>2 DEF NextAllocate
        <4>2. [call EXCEPT !.res = k].res = k
          BY <1>1 DEF Calls
        <4> QED BY <1>1, <2>1, <4>1, <4>2, CallUpdates
      <3> QED BY <3>1, <3>2
    <2>6. pc' = "chain" => call'.res \in FatIndex /\ Cur'.cluster \in FatIndex
      BY <1>12, <2>4, <2>5 DEF NextAllocate
    <2> QED BY <1>12, <2>2, <2>3, <2>5, <2>6
            DEF NextAllocate, TypeOK, Quiet, Works, Plain, Live, Labels
  <1> QED BY <1>4, <1>5, <1>6, <1>7, <1>8, <1>9, <1>10, <1>11, <1>12 DEF NextStep

\* The fields that fat_lseek moves.
LEMMA SeekFileType ==
  ASSUME NEW f \in FileS, NEW n \in Nat, NEW p \in 0 .. SectorSize, NEW l \in 0 .. 255,
         NEW s \in 0 .. Bad
  PROVE  LET g == [f EXCEPT !.file_sector = n, !.cursor = p, !.sectors_left = l]
         IN [g EXCEPT !.sector = s] \in FileS
  <1> DEFINE g == [f EXCEPT !.file_sector = n, !.cursor = p, !.sectors_left = l]
  <1>1. g \in FileS
    BY DEF FileS
  <1> HIDE DEF g
  <1>2. [g EXCEPT !.sector = s] \in FileS
    BY <1>1 DEF FileS
  <1> QED BY <1>2 DEF g

\* The two branches of fat_lseek that load a sector.
LEMMA SeekLoadType ==
  ASSUME TypeInv, NEW n \in Nat, NEW p \in 0 .. SectorSize, NEW l \in 0 .. 255,
         NEW s \in 0 .. Bad, Quiet, NoWrite,
         SeekLoad([Cur EXCEPT !.file_sector = n, !.cursor = p, !.sectors_left = l], s)
  PROVE  TypeInv'
  <1> DEFINE f == [Cur EXCEPT !.file_sector = n, !.cursor = p, !.sectors_left = l]
  <1>1. Cur \in FileS /\ call \in Calls /\ TypeOK
    BY CurType DEF TypeInv, TypeOK
  <1>2. [f EXCEPT !.sector = s] \in FileS
    BY <1>1, SeekFileType
  <1>3. SeekLoad(f, s)
    OBVIOUS
  <1> HIDE DEF f
  <1>4. s \in Sectors => [f EXCEPT !.sector = s, !.buffer = disk[s]] \in FileS
    BY <1>1, <1>2, DiskType, FileUpdates
  <1>5. file_num' \in [Handles -> FileS]
    BY <1>1, <1>2, <1>3, <1>4, CurType DEF SeekLoad
  <1>6. pc' \in Plain /\ call' \in Calls /\ faults' \in Nat
    BY <1>1, <1>3, ReturnLabels, CallUpdates, FaultType DEF SeekLoad, EndSeek
  <1> QED BY <1>5, <1>6, QuietType

\* fat_lseek.
LEMMA SeekType ==
  ASSUME TypeInv, SeekStep
  PROVE  TypeInv'
  <1>1. /\ Cur \in FileS /\ call \in Calls /\ TypeOK /\ file_num \in [Handles -> FileS]
        /\ call.old \in Nat /\ call.new \in Nat
    BY CurType DEF TypeInv, TypeOK, Calls
  <1>2. call.new % SectorSize \in 0 .. SectorSize
    BY <1>1, PositiveSizes, GeometryAssumption
  <1>3. ASSUME NEW ok \in BOOLEAN, EndSeek(ok) PROVE pc' \in Plain /\ call' \in Calls
    BY <1>1, <1>3, ReturnLabels, CallUpdates DEF EndSeek
  <1>4. CASE SeekOutside
    BY <1>1, <1>3, <1>4, QuietType, FaultType DEF SeekOutside
  <1>5. CASE SeekFlushed
    BY <1>1, <1>5, QuietType, FaultType, CallUpdates DEF SeekFlushed, Plain, Labels
  <1>6. CASE SeekSector
    <2>1. [Cur EXCEPT !.cursor = call.new % SectorSize] \in FileS
      BY <1>1, <1>2 DEF FileS
    <2>2. file_num' \in [Handles -> FileS]
      BY <1>1, <1>6, <2>1, CurType DEF SeekSector
    <2> QED BY <1>1, <1>3, <1>6, <2>2, QuietType, FaultType DEF SeekSector
  <1>7. CASE SeekCluster
    <2> DEFINE o == call.old \div SectorSize
               n == call.new \div SectorSize
    <2>1. o \in Nat /\ n \in Nat
      BY <1>1, PositiveSizes
    <2> HIDE DEF o, n
    <2>2. Cur.sectors_left - n + o \in Int /\ Cur.sector + n - o \in Int
      BY <1>1, <2>1 DEF FileS
    <2>3. SectorsLeft(Cur, o, n) \in 0 .. 255
      BY <2>2 DEF SectorsLeft
    <2>4. (Cur.sector + n - o) % Word \in 0 .. Bad
      <3>1. Word \in Nat \ {0}
        BY GeometryAssumption
      <3> QED BY <2>2, <3>1, ModRange DEF Bad
    <2>5. /\ SeekLoad([Cur EXCEPT !.file_sector = n, !.cursor = call.new % SectorSize,
                                  !.sectors_left = SectorsLeft(Cur, o, n)],
                      (Cur.sector + n - o) % Word)
          /\ Quiet /\ NoWrite
      BY <1>7 DEF SeekCluster, o, n
    <2> QED BY <1>2, <2>1, <2>3, <2>4, <2>5, SeekLoadType
  <1>8. CASE SeekRewind
    <2>1. Cur.first \in 0 .. Bad
      BY <1>1, GeometryAssumption DEF FileS, FatIndex, Bad
    <2>2. file_num' \in [Handles -> FileS]
      BY <1>1, <1>8, <2>1, CurType, FileUpdates DEF SeekRewind
    <2> QED BY <1>1, <1>8, <2>2, QuietType, FaultType, CallUpdates
            DEF SeekRewind, Plain, Labels
  <1>9. CASE WalkNext
    <2>1. [call EXCEPT !.flush = "next", !.next = "walk", !.res = Bad] \in Calls
      <3>1. Bad \in 0 .. Bad
        BY GeometryAssumption DEF Bad
      <3> QED BY <1>1, <3>1 DEF Calls
    <2> QED BY <1>1, <1>9, <2>1, QuietType, FaultType DEF WalkNext, Plain, Labels
  <1>10. CASE WalkMove
    <2>1. call.res \in 0 .. Bad
      BY <1>1 DEF Calls
    <2>2. file_num' \in [Handles -> FileS]
      BY <1>1, <1>10, <2>1, CurType, FileUpdates DEF WalkMove
    <2> QED BY <1>1, <1>10, <2>2, QuietType, FaultType, CallUpdates
            DEF WalkMove, Plain, Labels
  <1>11. CASE WalkEnd
    <2> DEFINE sec == (call.new % ClusterBytes) \div SectorSize
    <2>1. sec \in 0 .. SectorsPerCluster - 1
      <3>1. SectorSize \in Nat \ {0} /\ SectorsPerCluster \in Nat \ {0}
        BY GeometryAssumption
      <3> QED BY <1>1, <3>1, SectorInCluster DEF ClusterBytes
    <2> HIDE DEF sec
    <2>2. SectorsPerCluster - sec - 1 \in 0 .. 255
      BY <2>1, GeometryAssumption
    <2>3. (SectorOf(Cur.cluster) + sec) % Word \in 0 .. Bad
      <3>1. Word \in Nat \ {0} /\ Bad \in Nat
        BY GeometryAssumption DEF Bad
      <3>2. Cur.cluster \in Nat
        BY <1>1, <3>1 DEF FileS
      <3>3. SectorOf(Cur.cluster) + sec \in Int
        BY <2>1, <3>1, <3>2, SectorOfType
      <3> QED BY <3>1, <3>3, ModRange DEF Bad
    <2>4. call.new \div SectorSize \in Nat
      BY <1>1, PositiveSizes
    <2>5. /\ SeekLoad([Cur EXCEPT !.file_sector = call.new \div SectorSize,
                                  !.cursor = call.new % SectorSize,
                                  !.sectors_left = SectorsPerCluster - sec - 1],
                      (SectorOf(Cur.cluster) + sec) % Word)
          /\ Quiet /\ NoWrite
      BY <1>11 DEF WalkEnd, sec
    <2> QED BY <1>2, <2>2, <2>3, <2>4, <2>5, SeekLoadType
  <1> QED BY <1>4, <1>5, <1>6, <1>7, <1>8, <1>9, <1>10, <1>11 DEF SeekStep

\* The byte loops of fat_read and fat_write.
LEMMA ByteType ==
  ASSUME TypeInv, ByteStep
  PROVE  TypeInv'
  <1>1. /\ Cur \in FileS /\ call \in Calls /\ TypeOK /\ file_num \in [Handles -> FileS]
        /\ SectorSize \in Nat \ {0}
    BY CurType, GeometryAssumption DEF TypeInv, TypeOK
  <1>2. CASE BytesDone
    BY <1>1, <1>2, QuietType, FaultType DEF BytesDone, Plain, Labels
  <1>3. ASSUME pc = "byte", NeedSector
        PROVE  pc' \in Plain /\ call' \in Calls /\ file_num' \in [Handles -> FileS]
    BY <1>1, <1>3, CallUpdates DEF NeedSector, Plain, Labels
  <1>4. ~SectorUsedUp(Cur) => /\ Cur.cursor \in 0 .. SectorSize - 1
                              /\ Cur.cursor + 1 \in 0 .. SectorSize
    BY <1>1 DEF SectorUsedUp, FileS
  <1>5. CASE WriteByte /\ SectorUsedUp(Cur)
    BY <1>3, <1>5, QuietType, FaultType, <1>1 DEF WriteByte
  <1>6. CASE WriteByte /\ ~SectorUsedUp(Cur)
    <2> DEFINE grows == Pos(Cur) = Cur.size
               b == [Cur.buffer EXCEPT ![Cur.cursor] = Head(call.todo)]
               n == IF grows THEN Cur.size + 1 ELSE Cur.size
               F == Cur.flags \cup {"DIRTY"} \cup (IF grows THEN {"FS_DIRTY"} ELSE {})
    <2>1. Head(call.todo) \in Bytes /\ Tail(call.todo) \in Seq(Bytes)
      BY <1>1, <1>6 DEF WriteByte, Calls
    <2>2. b \in Block
      BY <1>1, <1>4, <1>6, <2>1 DEF FileS, Block, Cells
    <2>3. n \in Nat /\ F \in SUBSET FileFlags
      BY <1>1 DEF FileS, FileFlags
    <2>4. SetCur([Cur EXCEPT !.buffer = b, !.cursor = Cur.cursor + 1, !.size = n,
                             !.flags = F])
      BY <1>6 DEF WriteByte
    <2>5. call' = [call EXCEPT !.todo = Tail(@)] /\ pc' = "byte"
      BY <1>6 DEF WriteByte
    <2> HIDE DEF b, n, F
    <2>6. [Cur EXCEPT !.buffer = b, !.cursor = Cur.cursor + 1, !.size = n,
                      !.flags = F] \in FileS
      BY <1>1, <1>4, <1>6, <2>2, <2>3 DEF FileS
    <2>7. file_num' \in [Handles -> FileS]
      BY <1>1, <2>4, <2>6, CurType
    <2>8. call' \in Calls
      BY <1>1, <2>1, <2>5 DEF Calls
    <2> QED BY <1>1, <1>6, <2>5, <2>7, <2>8, QuietType, FaultType
            DEF WriteByte, Plain, Labels
  <1>7. CASE ReadByte /\ SectorUsedUp(Cur)
    BY <1>3, <1>7, QuietType, FaultType, <1>1 DEF ReadByte
  <1>8. CASE ReadByte /\ ~SectorUsedUp(Cur)
    <2>1. Cur.buffer[Cur.cursor] \in Cells /\ call.n - 1 \in Nat
      <3>1. Cur.buffer \in Block /\ Cur.cursor \in 0 .. SectorSize - 1
        BY <1>1, <1>4, <1>8 DEF FileS
      <3>2. Cur.buffer[Cur.cursor] \in Cells
        BY <3>1 DEF Block
      <3>3. call.n \in Nat /\ call.n > 0
        BY <1>1, <1>8 DEF ReadByte, Calls
      <3> QED BY <3>2, <3>3
    <2>2. [Cur EXCEPT !.cursor = Cur.cursor + 1] \in FileS
      BY <1>1, <1>4, <1>8 DEF FileS
    <2>3. /\ SetCur([Cur EXCEPT !.cursor = Cur.cursor + 1]) /\ pc' = "byte"
          /\ call' = [call EXCEPT !.n = @ - 1,
                                  !.got = Append(@, Cur.buffer[Cur.cursor])]
      BY <1>8 DEF ReadByte
    <2>4. Append(call.got, Cur.buffer[Cur.cursor]) \in Seq(Cells)
      BY <1>1, <2>1 DEF Calls
    <2>5. file_num' \in [Handles -> FileS]
      BY <1>1, <2>2, <2>3, CurType
    <2>6. call' \in Calls
      BY <1>1, <2>1, <2>3, <2>4 DEF Calls
    <2> QED BY <1>1, <1>8, <2>3, <2>5, <2>6, QuietType, FaultType
            DEF ReadByte, Plain, Labels
  <1> QED BY <1>2, <1>5, <1>6, <1>7, <1>8 DEF ByteStep

\* fat_free_clusters and fat_delete.
LEMMA FreeType ==
  ASSUME TypeInv, FreeStep
  PROVE  TypeInv'
  <1>1. /\ call \in Calls /\ TypeOK /\ call.zeroed \in SUBSET FatIndex
        /\ fat \in [FatIndex -> 0 .. EndMarker] /\ owner \in [FatIndex -> FatIndex]
        /\ \A s \in Slots : Live(s) => dir[s].first # 0
    BY DEF TypeInv, TypeOK, Calls
  <1>2. ASSUME WriteZeroes \/ UNCHANGED <<fat, owner>>
        PROVE  fat' \in [FatIndex -> 0 .. EndMarker] /\ owner' \in [FatIndex -> FatIndex]
    <2>1. 0 \in 0 .. EndMarker /\ 0 \in FatIndex
      BY GeometryAssumption DEF FatIndex, EndMarker
    <2>2. /\ Zero(fat, call.zeroed) \in [FatIndex -> 0 .. EndMarker]
          /\ Zero(owner, call.zeroed) \in [FatIndex -> FatIndex]
      BY <1>1, <2>1 DEF Zero
    <2> QED BY <1>1, <1>2, <2>2 DEF WriteZeroes
  <1>3. [call EXCEPT !.zeroed = {}] \in Calls
    BY <1>1 DEF Calls
  <1>4. CASE FreeEntry
    <2> DEFINE here == IF Leaving THEN {} ELSE call.zeroed
               j == IF call.res \in here THEN 0 ELSE fat[call.res]
               r == IF j < EndMarker THEN j ELSE call.res
    <2>1. call.res \in FatIndex
      BY <1>4 DEF FreeEntry, TypeInv
    <2>2. r \in FatIndex /\ here \cup {call.res} \in SUBSET FatIndex
      <3>1. here \in SUBSET FatIndex
        BY <1>1
      <3>2. j \in 0 .. EndMarker
        BY <1>1, <2>1, GeometryAssumption DEF EndMarker
      <3> HIDE DEF here, j
      <3>3. r \in FatIndex
        BY <2>1, <3>2, GeometryAssumption DEF FatIndex, EndMarker
      <3> QED BY <2>1, <3>1, <3>3
    <2>3. r \in 0 .. Bad /\ FatBlock(call.res) \in Int
      <3>1. call.res \in Nat /\ EntriesPerFatBlock \in Nat \ {0}
        BY <2>1, GeometryAssumption DEF FatIndex
      <3>2. FatBlock(call.res) \in Nat
        BY <3>1, DivNat DEF FatBlock
      <3> QED BY <2>2, <3>2, GeometryAssumption DEF FatIndex, Bad
    <2>4. /\ call' = [call EXCEPT !.zeroed = here \cup {call.res},
                                  !.block = FatBlock(call.res), !.res = r]
          /\ pc' \in {"free", "freed"}
      BY <1>4 DEF FreeEntry
    <2>5. /\ fat' \in [FatIndex -> 0 .. EndMarker] /\ owner' \in [FatIndex -> FatIndex]
          /\ faults' \in Nat
      BY <1>1, <1>2, <1>4, FaultType DEF FreeEntry
    <2> HIDE DEF here, r
    <2>6. call' \in Calls /\ call'.res = r
      BY <1>1, <2>2, <2>3, <2>4 DEF Calls
    <2> QED BY <1>1, <1>4, <2>2, <2>4, <2>5, <2>6
            DEF FreeEntry, TypeInv, TypeOK, Quiet, Live, Labels
  <1>5. CASE FreeUnreadable
    <2>1. /\ fat' \in [FatIndex -> 0 .. EndMarker] /\ owner' \in [FatIndex -> FatIndex]
          /\ faults' \in Nat
      BY <1>1, <1>2, <1>5, FaultType DEF FreeUnreadable
    <2> QED BY <1>1, <1>3, <1>5, <2>1
            DEF FreeUnreadable, TypeInv, TypeOK, Quiet, Live, Labels
  <1>6. CASE FreeLast
    <2>1. /\ fat' \in [FatIndex -> 0 .. EndMarker] /\ owner' \in [FatIndex -> FatIndex]
          /\ faults' \in Nat
      BY <1>1, <1>2, <1>6, FaultType DEF FreeLast
    <2> QED BY <1>1, <1>3, <1>6, <2>1
            DEF FreeLast, TypeInv, TypeOK, Quiet, Live, Labels
  <1>7. CASE DeleteEntry
    <2>1. dir' \in [Slots -> DirEntry] /\ \A s \in Slots : Live(s)' => dir'[s].first # 0
      <3>1. CASE dir' = [dir EXCEPT ![call.slot].kind = "deleted"] \/ UNCHANGED dir
        BY <1>1, <3>1 DEF TypeOK, DirEntry, Live
      <3>2. CASE \E Z \in SUBSET Slots :
                   dir' = [Overwritten(DirBlock(call.slot), Z) EXCEPT
                             ![call.slot] = [DataSlot EXCEPT !.kind = "deleted"]]
        <4> DEFINE gone == [DataSlot EXCEPT !.kind = "deleted"]
        <4>1. gone \in DirEntry /\ gone.kind # "file"
          BY OverwrittenType DEF DataSlot, EmptySlot
        <4>2. PICK d \in [Slots -> DirEntry] :
                /\ \A s \in Slots : d[s].kind = "file" => d[s].first # 0
                /\ dir' = [d EXCEPT ![call.slot] = gone]
          BY <3>2, OverwrittenType
        <4> HIDE DEF gone
        <4> QED BY <4>1, <4>2 DEF Live
      <3> QED BY <1>7, <3>1, <3>2 DEF DeleteEntry
    <2>2. faults' \in Nat /\ call' = call /\ call.res \in FatIndex
      BY <1>1, <1>7, FaultType DEF DeleteEntry, TypeInv
    <2> QED BY <1>1, <1>7, <2>1, <2>2 DEF DeleteEntry, TypeInv, TypeOK, Quiet, Labels
  <1> QED BY <1>4, <1>5, <1>6, <1>7 DEF FreeStep

\* What calls begin and end with.
LEMMA StartTypes ==
  /\ Closed \in FileS /\ NoCall \in Calls /\ Names \subseteq Names \cup {NoName}
  /\ \A op \in {"none", "open", "write", "read", "lseek", "close", "unlink"},
        e \in {"OK", "EBADF", "ENFILE", "ENOENT", "EROFS", "EEXIST", "EACCES"} :
       Result(op, e) \in Results
  /\ \A h \in Handles : [Result("open", "OK") EXCEPT !.fd = h] \in Results
  <1>1. 0 \in Handles /\ 0 \in FatIndex /\ 0 \in 0 .. Bad
    BY GeometryAssumption DEF Handles, FatIndex, Bad
  <1>2. Closed \in FileS
    BY <1>1, BlockTypes, GeometryAssumption DEF Closed, FileS
  <1>3. NoCall \in Calls
    BY <1>1, GeometryAssumption DEF NoCall, Calls, NoBlock
  <1>4. ASSUME NEW op \in {"none", "open", "write", "read", "lseek", "close", "unlink"},
               NEW e \in {"OK", "EBADF", "ENFILE", "ENOENT", "EROFS", "EEXIST", "EACCES"},
               NEW h \in Handles
        PROVE  /\ [op |-> op, err |-> e, fd |-> h, got |-> <<>>, new |-> 0] \in Results
    BY <1>4 DEF Results
  <1>5. ASSUME NEW h \in Handles
        PROVE  [Result("open", "OK") EXCEPT !.fd = h] =
                 [op |-> "open", err |-> "OK", fd |-> h, got |-> <<>>, new |-> 0]
    BY DEF Result
  <1>6. ASSUME NEW op \in {"none", "open", "write", "read", "lseek", "close", "unlink"},
               NEW e \in {"OK", "EBADF", "ENFILE", "ENOENT", "EROFS", "EEXIST", "EACCES"}
        PROVE  Result(op, e) \in Results
    <2>1. [op |-> op, err |-> e, fd |-> 0, got |-> <<>>, new |-> 0] \in Results
      BY <1>1, <1>4
    <2> QED BY <2>1 DEF Result
  <1>7. ASSUME NEW h \in Handles PROVE [Result("open", "OK") EXCEPT !.fd = h] \in Results
    <2>1. [op |-> "open", err |-> "OK", fd |-> h, got |-> <<>>, new |-> 0] \in Results
      BY <1>4
    <2> QED BY <1>5, <2>1
  <1> QED BY <1>2, <1>3, <1>6, <1>7

\* The ends of calls.
LEMMA ReturnType ==
  ASSUME TypeInv, CloseInfo \/ Return
  PROVE  TypeInv'
  <1>1. /\ Cur \in FileS /\ call \in Calls /\ TypeOK /\ file_num \in [Handles -> FileS]
    BY CurType DEF TypeInv, TypeOK
  <1>2. CASE CloseInfo
    BY <1>1, <1>2, QuietType, FaultType, CallUpdates DEF CloseInfo, Plain, Labels
  <1>3. CASE Return
    <2>1. Closed \in FileS /\ NoCall \in Calls
      BY StartTypes
    <2>2. Truncated(Cur) \in FileS
      <3>1. /\ 0 \in 0 .. Bad /\ 0 \in FatIndex
            /\ Cur.flags \cup {"FS_DIRTY"} \in SUBSET FileFlags
        BY <1>1, GeometryAssumption DEF Bad, FatIndex, FileS, FileFlags
      <3> DEFINE g == [Cur EXCEPT !.size = 0, !.first = 0, !.sector = 0]
                 h == [g EXCEPT !.cluster = 0, !.sectors_left = 0, !.file_sector = 0]
      <3>2. g \in FileS /\ g.flags = Cur.flags
        BY <1>1, <3>1 DEF FileS
      <3>3. h \in FileS /\ h.flags = Cur.flags
        <4> HIDE DEF g
        <4>1. \A n \in 0 .. 255 :
                [g EXCEPT !.cluster = 0, !.sectors_left = n, !.file_sector = 0] \in FileS
          BY <3>1, <3>2 DEF FileS
        <4>2. h \in FileS
          BY <4>1
        <4> QED BY <3>2, <4>2 DEF FileS
      <3>4. [h EXCEPT !.flags = h.flags \cup {"FS_DIRTY"}] \in FileS
        <4> HIDE DEF h
        <4> QED BY <3>1, <3>3 DEF FileS
      <3> QED BY <3>4 DEF Truncated
    <2>3. [Cur EXCEPT !.flags = @ \cup {"FS_DIRTY"}] \in FileS
      BY <1>1 DEF FileS, FileFlags
    <2>4. file_num' \in [Handles -> FileS]
      BY <1>1, <1>3, <2>1, <2>2, <2>3, CurType DEF Return, Finished
    <2>5. ret' \in Results
      BY <1>1, <1>3 DEF Return, Results, Calls
    <2> QED BY <1>1, <1>3, <2>1, <2>4, <2>5
            DEF Return, TypeInv, TypeOK, NoWrite, Works, Live, Labels
  <1> QED BY <1>2, <1>3

\* A step between calls that keeps the disk.
LEMMA ReadyType ==
  ASSUME TypeInv, Ready, faults' \in Nat, pc' \in Labels \ {"chain"}, call' \in Calls,
         ret' \in Results, file_num' \in [Handles -> FileS],
         pc' \in {"delete", "free", "freed"} => call'.res \in FatIndex,
         pc' = "delete" => call'.slot \in Slots
  PROVE  TypeInv'
  BY DEF TypeInv, TypeOK, Ready, NoWrite, Live

\* The same when no block operation fails.
LEMMA IdleType ==
  ASSUME TypeInv, Idle, pc' \in Labels \ {"chain"}, call' \in Calls, ret' \in Results,
         file_num' \in [Handles -> FileS],
         pc' \in {"delete", "free", "freed"} => call'.res \in FatIndex,
         pc' = "delete" => call'.slot \in Slots
  PROVE  TypeInv'
  <1>1. Ready /\ faults' \in Nat
    BY DEF Idle, Works, TypeInv, TypeOK
  <1> QED BY <1>1, ReadyType

\* The beginnings of calls on a handle.
LEMMA HandleCallType ==
  ASSUME TypeInv, NEW h \in Handles,
         \/ Close(h) \/ BadHandle(h)
         \/ \E bs \in Payloads : Write(h, bs)
         \/ \E n \in 1 .. MaxCount : Read(h, n)
         \/ \E w \in {"SET", "CUR", "END"}, p \in -MaxSize .. MaxSize : Lseek(h, p, w)
  PROVE  TypeInv'
  <1> DEFINE f == file_num[h]
  <1>1. /\ file_num \in [Handles -> FileS] /\ f \in FileS /\ ret \in Results
        /\ call \in Calls /\ NoCall \in Calls /\ pc \in Labels
    BY StartTypes DEF TypeInv, TypeOK
  <1>2. Pos(f) \in Nat /\ f.size \in Nat
    BY <1>1, GeometryAssumption DEF FileS, Pos
  <1>3. CASE BadHandle(h)
    <2>1. ret' \in Results /\ UNCHANGED <<pc, call, file_num>> /\ Idle
      BY <1>3, StartTypes DEF BadHandle, Refuse
    <2> QED BY <1>1, <2>1, IdleType DEF Idle, Ready, Labels
  <1>4. CASE Close(h)
    <2>1. [NoCall EXCEPT !.op = "close", !.fd = h, !.flush = "close"] \in Calls
      BY <1>1 DEF Calls
    <2> QED BY <1>1, <1>4, <2>1, IdleType DEF Close, Start, Labels
  <1>5. ASSUME NEW bs \in Payloads, Write(h, bs) PROVE TypeInv'
    <2> DEFINE c == [NoCall EXCEPT !.op = "write", !.fd = h, !.todo = bs]
    <2>1. bs \in Seq(Bytes)
      BY DEF Payloads
    <2>2. c \in Calls
      BY <1>1, <2>1 DEF Calls
    <2>3. [c EXCEPT !.seeking = TRUE, !.flush = "seek", !.old = Pos(f),
                    !.new = f.size] \in Calls
      <3> HIDE DEF c
      <3> QED BY <1>2, <2>2 DEF Calls
    <2>4. call' \in Calls /\ pc' \in {"flush", "byte"} /\ UNCHANGED <<ret, file_num>>
      BY <1>5, <2>2, <2>3 DEF Write, Start
    <2> QED BY <1>1, <1>5, <2>4, IdleType DEF Write, Labels
  <1>6. ASSUME NEW n \in 1 .. MaxCount, Read(h, n) PROVE TypeInv'
    <2>1. [NoCall EXCEPT !.op = "read", !.fd = h, !.n = n] \in Calls
      <3>1. n \in Nat
        BY BoundsAssumption
      <3> QED BY <1>1, <3>1 DEF Calls
    <2> QED BY <1>1, <1>6, <2>1, IdleType DEF Read, Start, Labels
  <1>7. ASSUME NEW w \in {"SET", "CUR", "END"}, NEW p \in -MaxSize .. MaxSize,
               Lseek(h, p, w)
        PROVE  TypeInv'
    <2> DEFINE new == (SeekBase(f, w) + p) % Word
    <2>1. SeekBase(f, w) \in Nat
      <3> HIDE DEF f
      <3>1. CASE w = "SET"
        BY <3>1 DEF SeekBase
      <3>2. CASE w = "CUR"
        BY <1>2, <3>2 DEF SeekBase
      <3>3. CASE w = "END"
        BY <1>2, <3>3 DEF SeekBase
      <3> QED BY <3>1, <3>2, <3>3
    <2>2. new \in Nat
      <3>1. SeekBase(f, w) + p \in Int /\ Word \in Nat \ {0}
        BY <2>1, BoundsAssumption, GeometryAssumption
      <3> QED BY <3>1, ModRange
    <2>3. [NoCall EXCEPT !.op = "lseek", !.fd = h, !.seeking = TRUE, !.flush = "seek",
                         !.old = Pos(f), !.new = new] \in Calls
      <3> HIDE DEF new
      <3> QED BY <1>1, <1>2, <2>2 DEF Calls
    <2>4. call' \in Calls /\ pc' = "flush" /\ UNCHANGED <<ret, file_num>>
      BY <1>7, <2>3 DEF Lseek, Start
    <2> QED BY <1>1, <1>7, <2>4, IdleType DEF Lseek, Labels
  <1> QED BY <1>3, <1>4, <1>5, <1>6, <1>7

\* The beginnings of calls on a name.
LEMMA NameCallType ==
  ASSUME TypeInv, NEW n \in Names,
         \/ OpenNoHandle(n) \/ Unlink(n) \/ UnlinkRefused(n) \/ UnlinkOverlooked(n)
         \/ \E m \in Modes :
              \/ OpenFound(n, m) \/ OpenUnread(n, m)
              \/ \E ro \in RoModes : OpenMissing(n, m, ro) \/ OpenOverlooked(n, m, ro)
  PROVE  TypeInv'
  <1>1. /\ file_num \in [Handles -> FileS] /\ ret \in Results /\ call \in Calls
        /\ NoCall \in Calls /\ pc \in Labels /\ dir \in [Slots -> DirEntry] /\ TypeOK
        /\ \A s \in Slots : Live(s) => dir[s].first # 0
    BY StartTypes DEF TypeInv, TypeOK
  <1>2. ASSUME NEW m \in Modes PROVE AccessFlags(m) \in SUBSET FileFlags
    BY DEF AccessFlags, FileFlags
  <1>3. ASSUME NEW s \in Slots, Lookup(s, n)
        PROVE  /\ dir[s].first \in 1 .. LastCluster /\ dir[s].first \in FatIndex
               /\ dir[s].first \in 0 .. Bad
    <2>1. dir[s].first \in FatIndex /\ dir[s].first # 0
      BY <1>1, <1>3 DEF Lookup, IsNamed, Live, DirEntry
    <2> QED BY <2>1, GeometryAssumption DEF FatIndex, Bad
  <1>4. CASE OpenNoHandle(n)
    <2>1. ret' \in Results /\ UNCHANGED <<pc, call, file_num>> /\ Idle
      BY <1>4, StartTypes DEF OpenNoHandle, Refuse
    <2> QED BY <1>1, <2>1, IdleType DEF Idle, Ready, Labels
  <1>5. CASE UnlinkRefused(n)
    <2>1. ret' \in Results /\ UNCHANGED <<pc, call, file_num>> /\ Idle
      BY <1>5, StartTypes DEF UnlinkRefused, Refuse
    <2> QED BY <1>1, <2>1, IdleType DEF Idle, Ready, Labels
  <1>6. CASE Unlink(n)
    <2>1. PICK s \in Slots :
            /\ Lookup(s, n)
            /\ Start([NoCall EXCEPT !.op = "unlink", !.slot = s, !.res = dir[s].first],
                     "delete")
      BY <1>6 DEF Unlink
    <2>2. s \in 0 .. DirSlots
      BY GeometryAssumption DEF Slots
    <2>3. \A r \in 0 .. Bad :
            LET c == [NoCall EXCEPT !.op = "unlink", !.slot = s, !.res = r]
            IN c \in Calls /\ c.res = r /\ c.slot = s
      BY <1>1, <2>2 DEF Calls
    <2>4. call' \in Calls /\ call'.res = dir[s].first /\ call'.slot = s
      BY <1>3, <2>1, <2>3 DEF Start
    <2> QED BY <1>1, <1>3, <1>6, <2>1, <2>4, IdleType DEF Unlink, Start, Labels
  <1>7. ASSUME NEW m \in Modes, NEW ro \in RoModes,
               OpenMissing(n, m, ro) \/ OpenOverlooked(n, m, ro)
        PROVE  TypeInv'
    <2>1. PICK h \in Handles : \/ \E e \in {"ENOENT", "EROFS"} : Refuse("open", e)
                               \/ /\ file_num' = [file_num EXCEPT ![h] = NewFile(n, m, ro)]
                                  /\ ret' = [Result("open", "OK") EXCEPT !.fd = h]
                                  /\ UNCHANGED <<pc, call>>
      BY <1>7 DEF OpenMissing, OpenOverlooked, CreateIn
    <2>2. NewFile(n, m, ro) \in FileS
      BY <1>2, StartTypes, BlockTypes, CallersAssumption DEF NewFile, FileS
    <2>3. ret' \in Results /\ UNCHANGED <<pc, call>> /\ file_num' \in [Handles -> FileS]
      BY <1>1, <2>1, <2>2, StartTypes DEF Refuse
    <2>4. Ready /\ faults' \in Nat
      BY <1>1, <1>7, FaultType DEF OpenMissing, OpenOverlooked, Idle
    <2> QED BY <1>1, <2>3, <2>4, ReadyType DEF Ready, Labels
  <1>8. ASSUME NEW m \in Modes, OpenFound(n, m) \/ OpenUnread(n, m) PROVE TypeInv'
    <2>1. PICK h \in Handles, s \in Slots :
            /\ Lookup(s, n)
            /\ \/ \E e \in {"EEXIST", "EROFS", "EACCES"} : Refuse("open", e)
               \/ /\ \E f \in {OldFile(s, m), [OldFile(s, m) EXCEPT !.buffer = MetaBlock]} :
                       file_num' = [file_num EXCEPT ![h] = f]
                  /\ \/ /\ pc' = "free" /\ UNCHANGED ret
                        /\ call' = [NoCall EXCEPT !.op = "open", !.fd = h,
                                                  !.res = dir[s].first]
                     \/ /\ ret' = [Result("open", "OK") EXCEPT !.fd = h]
                        /\ UNCHANGED <<pc, call>>
      BY <1>8 DEF OpenFound, OpenUnread, OpenIn
    <2>2. OldFile(s, m) \in FileS
      <3> DEFINE d == dir[s]
                 g == [Closed EXCEPT !.flags = AccessFlags(m), !.name = d.name,
                                     !.ro = d.ro, !.size = d.size]
      <3>1. d \in DirEntry /\ s \in 0 .. DirSlots /\ SectorsPerCluster - 1 \in 0 .. 255
        BY <1>1, GeometryAssumption DEF Slots
      <3>2. SectorOf(d.first) \in Sectors /\ SectorOf(d.first) \in 0 .. Bad
        BY <1>3, <2>1, SectorOfType
      <3>3. disk[SectorOf(d.first)] \in Block
        BY <1>1, <3>2, DiskType
      <3>4. g \in FileS
        <4> HIDE DEF d
        <4> QED BY <1>2, <3>1, StartTypes DEF FileS, DirEntry
      <3> DEFINE G == [g EXCEPT !.first = d.first, !.entry = s, !.cluster = d.first]
      <3>5. d.first \in FatIndex /\ d.first \in 0 .. Bad
        BY <1>3, <2>1
      <3>6. G \in FileS
        <4> HIDE DEF g
        <4> QED BY <3>1, <3>4, <3>5 DEF FileS
      <3>7. \A x \in 0 .. Bad, b \in Block, l \in 0 .. 255 :
              [G EXCEPT !.sector = x, !.sectors_left = l, !.buffer = b] \in FileS
        <4> HIDE DEF G
        <4> QED BY <3>6 DEF FileS
      <3>8. OldFile(s, m) = [G EXCEPT !.sector = SectorOf(d.first),
              !.sectors_left = SectorsPerCluster - 1, !.buffer = disk[SectorOf(d.first)]]
        BY DEF OldFile
      <3>9. [G EXCEPT !.sector = SectorOf(d.first), !.sectors_left = SectorsPerCluster - 1,
                      !.buffer = disk[SectorOf(d.first)]] \in FileS
        <4> HIDE DEF G, d
        <4> QED BY <3>1, <3>2, <3>3, <3>7
      <3> QED BY <3>8, <3>9, Zenon
    <2>3. \A r \in 0 .. Bad :
            LET c == [NoCall EXCEPT !.op = "open", !.fd = h, !.res = r]
            IN c \in Calls /\ c.res = r
      BY <1>1 DEF Calls
    <2>4. file_num' \in [Handles -> FileS] /\ ret' \in Results
      <3>1. [OldFile(s, m) EXCEPT !.buffer = MetaBlock] \in FileS
        BY <2>2, BlockTypes, FileUpdates
      <3> QED BY <1>1, <2>1, <2>2, <3>1, StartTypes DEF Refuse
    <2>5. \/ UNCHANGED <<pc, call>>
          \/ pc' = "free" /\ call' \in Calls /\ call'.res = dir[s].first
      BY <1>3, <2>1, <2>3 DEF Refuse
    <2>6. Ready /\ faults' \in Nat
      BY <1>1, <1>8, FaultType DEF OpenFound, OpenUnread, Idle
    <2> QED BY <1>1, <1>3, <2>1, <2>4, <2>5, <2>6, ReadyType DEF Ready, Labels
  <1>9. CASE UnlinkOverlooked(n)
    <2>1. ret' \in Results /\ UNCHANGED <<pc, call, file_num>> /\ Ready /\ faults' \in Nat
      BY <1>1, <1>9, StartTypes, FaultType DEF UnlinkOverlooked, Refuse
    <2> QED BY <1>1, <2>1, ReadyType DEF Ready, Labels
  <1> QED BY <1>4, <1>5, <1>6, <1>7, <1>8, <1>9

\* The initial volume: formatted and empty.
LEMMA InitType == Init => TypeInv
  <1> SUFFICES ASSUME Init PROVE TypeInv
    OBVIOUS
  <1>1. fat \in [FatIndex -> 0 .. EndMarker] /\ owner \in [FatIndex -> FatIndex]
    BY GeometryAssumption DEF Init, FatIndex, EndMarker
  <1>2. dir \in [Slots -> DirEntry] /\ \A s \in Slots : ~Live(s)
    BY GeometryAssumption DEF Init, EmptySlot, DirEntry, FatIndex, Live
  <1>3. disk \in [Sectors -> Block] /\ file_num \in [Handles -> FileS]
    BY BlockTypes, StartTypes DEF Init
  <1>4. pc \in Labels /\ call \in Calls /\ ret \in Results
    BY StartTypes DEF Init, Labels
  <1> QED BY <1>1, <1>2, <1>3, <1>4 DEF Init, TypeInv, TypeOK

\* Every step keeps the types.
LEMMA NextKeepsType == TypeInv /\ [Next]_vars => TypeInv'
  <1> SUFFICES ASSUME TypeInv, [Next]_vars PROVE TypeInv'
    OBVIOUS
  <1>1. CASE Step
    BY <1>1, FlushType, InfoType, NextType, SeekType, ByteType, FreeType, ReturnType
       DEF Step
  <1>2. CASE Begin
    BY <1>2, HandleCallType, NameCallType DEF Begin
  <1>3. CASE Crash
    <2>1. /\ file_num' \in [Handles -> FileS] /\ call' \in Calls /\ ret' \in Results
          /\ pc' = "idle" /\ read_only' \in BOOLEAN /\ crashes' \in Nat
      BY <1>3, StartTypes, CallersAssumption DEF Crash, TypeInv, TypeOK
    <2> QED BY <1>3, <2>1 DEF Crash, TypeInv, TypeOK, NoWrite, Works, Live, Labels
  <1>4. CASE UNCHANGED vars
    BY <1>4 DEF vars, TypeInv, TypeOK, Live, Cur
  <1> QED BY <1>1, <1>2, <1>3, <1>4 DEF Next

\* For every geometry, every usage of the API and every pattern of failing
\* block operations and crashes, the cluster numbers in the FAT, the entries of
\* the directory and the fields of the open files stay in range: no step reads
\* or writes outside the FAT, the directory, the device or a file's buffer.
THEOREM TypeCorrect == Spec => []TypeOK
  <1>1. TypeInv => TypeOK
    BY DEF TypeInv
  <1> QED BY <1>1, InitType, NextKeepsType, PTL DEF Spec
=============================================================================
