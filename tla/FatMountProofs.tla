--------------------------- MODULE FatMountProofs ---------------------------
(***************************************************************************)
(* Theorems about FatMount, for every device, partition table and boot     *)
(* sector: the geometry fat_mount derives stays well typed, its areas      *)
(* follow one another, and neither the partition type nor an earlier mount *)
(* decides what a volume is mounted as.                                    *)
(***************************************************************************)
EXTENDS FatMount, WellFoundedInduction, TLAPS

(***************************************************************************)
(* Induction over the natural numbers, for sets.                           *)
(***************************************************************************)
LEMMA SetInduction ==
  ASSUME NEW S, 0 \in S, \A n \in Nat : n \in S => n + 1 \in S
  PROVE  Nat \subseteq S
  <1> DEFINE R == OpToRel(<, Nat)
             T == {n \in Nat : n \notin S}
  <1>1. SUFFICES ASSUME T # {} PROVE FALSE
    OBVIOUS
  <1>2. IsWellFoundedOn(R, Nat)
    BY NatLessThanWellFounded
  <1>3. T \subseteq Nat
    OBVIOUS
  <1>4. \A x, y \in Nat : x < y => <<x, y>> \in R
    BY DEF OpToRel
  <1> HIDE DEF R, T
  <1>5. PICK x \in T : \A y \in T : ~ (<<y, x>> \in R)
    BY <1>1, <1>2, <1>3, WFMin
  <1>6. x \in Nat /\ x \notin S /\ x # 0 /\ x - 1 \in Nat /\ x - 1 < x
    BY <1>5 DEF T
  <1>7. x - 1 \in S
    BY <1>4, <1>5, <1>6 DEF T
  <1> QED BY <1>6, <1>7

(***************************************************************************)
(* Numbers that wrap around.                                               *)
(***************************************************************************)
\* Multiples of the modulus drop out.
LEMMA ModUnique ==
  ASSUME NEW w \in Nat \ {0}, NEW k \in Int, NEW t \in 0 .. w - 1
  PROVE  (w * k + t) % w = t
  <1> DEFINE y == w * k + t
             q == y \div w
             m == y % w
  <1>1. y \in Int /\ q \in Int /\ m \in 0 .. w - 1 /\ y = w * q + m
    OBVIOUS
  <1>2. y = w * k + t
    OBVIOUS
  <1> HIDE DEF y, q, m
  <1>3. w * (k - q) = m - t
    BY <1>1, <1>2, Z3
  <1>4. ASSUME k - q >= 1 PROVE FALSE
    <2>1. w * (k - q) >= w
      BY <1>1, <1>4, Z3
    <2> QED BY <1>1, <1>3, <2>1
  <1>5. ASSUME k - q <= -1 PROVE FALSE
    <2>1. w * (k - q) <= 0 - w
      BY <1>1, <1>5, Z3
    <2> QED BY <1>1, <1>3, <2>1
  <1>6. k = q
    BY <1>1, <1>4, <1>5
  <1> QED BY <1>1, <1>2, <1>3, <1>6 DEF m, y

\* A distance computed modulo w leads to the same place modulo w.
LEMMA ModShift ==
  ASSUME NEW w \in Nat \ {0}, NEW a \in Int, NEW x \in Int
  PROVE  (a + ((x - a) % w)) % w = x % w
  <1> DEFINE q == (x - a) \div w
             r == (x - a) % w
             p == x \div w
             t == x % w
  <1>1. /\ q \in Int /\ r \in 0 .. w - 1 /\ x - a = w * q + r
        /\ p \in Int /\ t \in 0 .. w - 1 /\ x = w * p + t
    OBVIOUS
  <1> HIDE DEF q, r, p, t
  <1>2. a + r = w * (p - q) + t
    BY <1>1, Z3
  <1>3. (w * (p - q) + t) % w = t
    BY <1>1, ModUnique
  <1> QED BY <1>2, <1>3 DEF r, t

(***************************************************************************)
(* The partition table.                                                    *)
(***************************************************************************)
Accepted == {e \in PartitionEntry : Listed(e)}
\* kept is what read_partition_table has copied after its first n entries.
Copies(table, kept, n) ==
  kept = [i \in 0 .. n |->
            IF i = 0 THEN << >>
            ELSE IF Listed(table[i]) THEN Append(kept[i - 1], table[i])
            ELSE kept[i - 1]]

LEMMA CopiesNext ==
  ASSUME NEW table, NEW kept, NEW n \in Nat, Copies(table, kept, n), NEW i \in 1 .. n
  PROVE  kept[i] = IF Listed(table[i]) THEN Append(kept[i - 1], table[i]) ELSE kept[i - 1]
  <1> DEFINE e(j) == IF j = 0 THEN << >>
                     ELSE IF Listed(table[j]) THEN Append(kept[j - 1], table[j])
                     ELSE kept[j - 1]
  <1>1. kept = [j \in 0 .. n |-> e(j)]
    BY Zenon DEF Copies
  <1>2. e(i) = IF Listed(table[i]) THEN Append(kept[i - 1], table[i]) ELSE kept[i - 1]
    OBVIOUS
  <1>3. i \in 0 .. n
    OBVIOUS
  <1> HIDE DEF e
  <1> QED BY <1>1, <1>2, <1>3, Zenon

\* The loop has a result for every number of entries.
LEMMA LoopDefined ==
  ASSUME NEW table
  PROVE  \A n \in Nat : \E kept : Copies(table, kept, n)
  <1> DEFINE S == {n \in Nat : \E kept : Copies(table, kept, n)}
  <1>1. 0 \in S
    <2> DEFINE k == [i \in 0 .. 0 |-> << >>]
    <2>1. Copies(table, k, 0)
      BY DEF Copies
    <2> QED BY <2>1
  <1>2. ASSUME NEW n \in Nat, n \in S PROVE n + 1 \in S
    <2>1. PICK k : Copies(table, k, n)
      BY <1>2
    <2> DEFINE e == IF Listed(table[n + 1]) THEN Append(k[n], table[n + 1]) ELSE k[n]
               kk == [i \in 0 .. n + 1 |-> IF i = n + 1 THEN e ELSE k[i]]
    <2>2. \A i \in 0 .. n : kk[i] = k[i]
      OBVIOUS
    <2>3. ASSUME NEW i \in 0 .. n + 1
          PROVE  kk[i] = IF i = 0 THEN << >>
                         ELSE IF Listed(table[i]) THEN Append(kk[i - 1], table[i])
                         ELSE kk[i - 1]
      <3>1. CASE i = n + 1
        <4>1. kk[n] = k[n] /\ i - 1 = n /\ i # 0
          BY <3>1
        <4> QED BY <3>1, <4>1
      <3>2. CASE i # n + 1 /\ i # 0
        <4>1. i \in 0 .. n /\ i - 1 \in 0 .. n
          BY <3>2
        <4>2. kk[i] = k[i] /\ kk[i - 1] = k[i - 1]
          BY <4>1
        <4>3. k[i] = IF Listed(table[i]) THEN Append(k[i - 1], table[i]) ELSE k[i - 1]
          BY <2>1, <3>2, <4>1 DEF Copies
        <4> QED BY <3>2, <4>2, <4>3
      <3>3. CASE i = 0
        <4>1. kk[0] = k[0] /\ k[0] = << >>
          BY <2>1 DEF Copies
        <4> QED BY <3>3, <4>1
      <3> QED BY <3>1, <3>2, <3>3
    <2>4. Copies(table, kk, n + 1)
      <3>1. kk = [i \in 0 .. n + 1 |-> kk[i]]
        OBVIOUS
      <3> HIDE DEF kk
      <3> QED BY <2>3, <3>1 DEF Copies
    <2> QED BY <2>4
  <1> HIDE DEF S
  <1>3. Nat \subseteq S
    BY <1>1, <1>2, SetInduction
  <1> QED BY <1>3 DEF S

\* read_partition_table keeps valid entries only.
LEMMA KeepsValid ==
  ASSUME NEW table \in Seq(PartitionEntry)
  PROVE  Validated(table) \in Seq(Accepted)
  <1> DEFINE kept == CHOOSE k : Copies(table, k, Len(table))
             S == {n \in Nat : n <= Len(table) => kept[n] \in Seq(Accepted)}
  <1>1. Len(table) \in Nat
    OBVIOUS
  <1>2. Validated(table) = kept[Len(table)]
    BY DEF Validated, Copies
  <1>3. Copies(table, kept, Len(table))
    BY <1>1, LoopDefined
  <1> HIDE DEF kept
  <1>4. 0 \in S
    BY <1>1, <1>3 DEF Copies
  <1>5. ASSUME NEW n \in Nat, n \in S PROVE n + 1 \in S
    <2>1. SUFFICES ASSUME n + 1 <= Len(table) PROVE kept[n + 1] \in Seq(Accepted)
      OBVIOUS
    <2>2. kept[n] \in Seq(Accepted) /\ n + 1 \in 0 .. Len(table)
      BY <1>1, <1>5, <2>1
    <2>3. kept[n + 1] = IF Listed(table[n + 1]) THEN Append(kept[n], table[n + 1]) ELSE kept[n]
      <3>1. n + 1 \in 1 .. Len(table) /\ n + 1 - 1 = n
        BY <1>1, <2>2
      <3> QED BY <1>1, <1>3, <3>1, CopiesNext
    <2>4. table[n + 1] \in PartitionEntry
      BY <2>2
    <2>5. CASE Listed(table[n + 1])
      <3>1. table[n + 1] \in Accepted
        BY <2>4, <2>5 DEF Accepted
      <3> QED BY <2>2, <2>3, <2>5, <3>1
    <2> QED BY <2>2, <2>3, <2>5
  <1>6. Nat \subseteq S
    <2> HIDE DEF S
    <2> QED BY <1>4, <1>5, SetInduction
  <1> QED BY <1>1, <1>2, <1>6

(***************************************************************************)
(* Types.                                                                  *)
(***************************************************************************)
Tries == {<< >>, <<FAT16>>, <<FAT32>>, <<FAT16, FAT32>>, <<FAT32, FAT16>>}
Geometries ==
  [type: {"none", FAT16, FAT32}, part_start: Starts, sectors_per_cluster: Nat,
   cluster0: 0 .. Word - 1, active_fat_start: 0 .. Word - 1, sectors_per_fat: Nat,
   root_len: Nat, root_start: 0 .. Word - 1, root_cluster: Nat, total_sectors: Nat]
TypeInv ==
  /\ \E d \in Devices : mbr = d.mbr /\ boot = d.boot
  /\ used \in [Starts -> SUBSET Nat] /\ last \in Nat /\ faults \in 0 .. MaxReadFaults
  /\ list \in Seq(Accepted) /\ sysbuf \in BootSector \cup {NoBoot}
  /\ fatfs \in Geometries /\ volume \in [start: Starts, size: 0 .. Word - 1]
  /\ try \in Tries /\ result \in {"none", "mounted", "failed"}
  /\ try # << >> => result = "none"

\* The lists of attempts have nothing in common.
LEMMA TriesApart ==
  /\ FAT16 # FAT32 /\ <<FAT16>> # <<FAT32>> /\ << >> # <<FAT16>> /\ << >> # <<FAT32>>
  /\ << >> # <<FAT16, FAT32>> /\ << >> # <<FAT32, FAT16>>
  /\ \A t \in Tries : t # << >> =>
       /\ Tail(t) \in Tries
       /\ Tail(t) = << >> <=> Len(t) = 1
       /\ Head(t) \in {FAT16, FAT32}
  BY DEF Tries, FAT16, FAT32

\* The device.
LEMMA DeviceTypes ==
  ASSUME TypeInv
  PROVE  /\ mbr \in Seq(PartitionEntry) /\ boot \in [Starts -> BootSector \cup {NoBoot}]
         /\ volume.start \in Starts /\ volume.size \in 0 .. Word - 1
         /\ volume.start \in 0 .. Word - 1 /\ boot[volume.start] \in BootSector \cup {NoBoot}
  BY DevicesAssumption, DeviceAssumption DEF TypeInv

\* Block numbers stay below Word.
LEMMA WordRange ==
  ASSUME NEW a \in Int
  PROVE  a % Word \in 0 .. Word - 1
  BY DeviceAssumption

\* What is computed from a boot sector.
LEMMA BootNumbers ==
  ASSUME NEW b \in BootSector
  PROVE  /\ Total(b) \in Nat /\ RootBlocks(b) \in Nat
         /\ Fats(b, b.short_sectors_per_fat) \in Nat /\ Fats(b, b.sectors_per_fat) \in Nat
         /\ b.short_sectors_per_fat * b.num_fats \in Nat
         /\ b.cluster_size \in Nat /\ b.reserved_sectors \in Nat /\ b.num_fats \in Nat
         /\ b.short_sectors_per_fat \in Nat /\ b.sectors_per_fat \in Nat
         /\ b.root_entries \in Nat /\ b.root_start \in Nat
         /\ 2 * b.cluster_size \in Nat
  <1>1. /\ b.cluster_size \in Nat /\ b.reserved_sectors \in Nat /\ b.num_fats \in Nat
        /\ b.short_sectors_per_fat \in Nat /\ b.sectors_per_fat \in Nat
        /\ b.root_entries \in Nat /\ b.root_start \in Nat
        /\ b.total_sectors \in Nat /\ b.big_total_sectors \in Nat
    BY DEF BootSector
  <1>2. Total(b) \in Nat
    BY <1>1 DEF Total
  <1>3. b.root_entries * DirentSize \in Nat /\ BlockSize \in Nat \ {0}
    BY <1>1, DeviceAssumption
  <1>4. RootBlocks(b) \in Nat
    BY <1>3 DEF RootBlocks
  <1>5. /\ b.short_sectors_per_fat * b.num_fats \in Nat
        /\ b.sectors_per_fat * b.num_fats \in Nat /\ 2 * b.cluster_size \in Nat
    BY <1>1
  <1> QED BY <1>1, <1>2, <1>4, <1>5 DEF Fats

\* The fields the two attempts set.
LEMMA GeometryTypes ==
  ASSUME TypeInv, NEW b \in BootSector
  PROVE  LET s == volume.start
             fat == (s + b.reserved_sectors) % Word
             g == Geometry16(s, b)
             m == [g EXCEPT !.total_sectors = Total(b), !.type = FAT16,
                            !.part_start = s, !.root_cluster = 1]
             h == Geometry32(s, b)
         IN /\ g \in Geometries /\ m \in Geometries /\ h \in Geometries
            /\ g.root_start = (fat + Fats(b, b.short_sectors_per_fat)) % Word
            /\ m.root_start = g.root_start /\ m.type = FAT16 /\ m.part_start = s
            /\ m.total_sectors = Total(b) /\ m.sectors_per_cluster = b.cluster_size
            /\ m.active_fat_start = fat /\ m.sectors_per_fat = b.short_sectors_per_fat
            /\ m.root_len = RootBlocks(b)
            /\ m.cluster0 = (g.root_start + RootBlocks(b) - 2 * b.cluster_size) % Word
            /\ h.type = FAT32 /\ h.part_start = s /\ h.total_sectors = Total(b)
            /\ h.sectors_per_cluster = b.cluster_size /\ h.active_fat_start = fat
            /\ h.sectors_per_fat = b.sectors_per_fat
            /\ h.cluster0 = (fat + Fats(b, b.sectors_per_fat) - 2 * b.cluster_size) % Word
  <1> DEFINE s == volume.start
             fat == (s + b.reserved_sectors) % Word
             root == (fat + Fats(b, b.short_sectors_per_fat)) % Word
             c16 == (root + RootBlocks(b) - 2 * b.cluster_size) % Word
             c32 == (fat + Fats(b, b.sectors_per_fat) - 2 * b.cluster_size) % Word
             g == Geometry16(s, b)
             m == [g EXCEPT !.total_sectors = Total(b), !.type = FAT16,
                            !.part_start = s, !.root_cluster = 1]
             h == Geometry32(s, b)
  <1>1. s \in Starts /\ s \in Nat /\ fatfs \in Geometries
    BY DeviceTypes, DeviceAssumption DEF TypeInv
  <1>2. fat \in 0 .. Word - 1
    BY <1>1, BootNumbers, WordRange
  <1>3. root \in 0 .. Word - 1
    <2> HIDE DEF fat
    <2> QED BY <1>2, BootNumbers, WordRange
  <1>4. c16 \in 0 .. Word - 1 /\ c32 \in 0 .. Word - 1
    <2> HIDE DEF fat, root
    <2>1. /\ root + RootBlocks(b) - 2 * b.cluster_size \in Int
          /\ fat + Fats(b, b.sectors_per_fat) - 2 * b.cluster_size \in Int
      BY <1>2, <1>3, BootNumbers
    <2> QED BY <2>1, WordRange
  <1>5. g = [fatfs EXCEPT
               !.sectors_per_cluster = b.cluster_size, !.root_len = RootBlocks(b),
               !.active_fat_start = fat, !.sectors_per_fat = b.short_sectors_per_fat,
               !.root_start = root, !.cluster0 = c16]
    BY DEF Geometry16
  <1>6. h = [fatfs EXCEPT
               !.sectors_per_cluster = b.cluster_size, !.active_fat_start = fat,
               !.sectors_per_fat = b.sectors_per_fat, !.cluster0 = c32,
               !.root_cluster = b.root_start, !.total_sectors = Total(b),
               !.type = FAT32, !.part_start = s]
    BY DEF Geometry32
  <1> HIDE DEF s, fat, root, c16, c32
  <1>7. /\ g \in Geometries /\ g.root_start = root /\ g.sectors_per_cluster = b.cluster_size
        /\ g.active_fat_start = fat /\ g.sectors_per_fat = b.short_sectors_per_fat
        /\ g.root_len = RootBlocks(b) /\ g.cluster0 = c16
    <2> HIDE DEF g
    <2> QED BY <1>1, <1>2, <1>3, <1>4, <1>5, BootNumbers DEF Geometries
  <1>8. /\ h \in Geometries /\ h.type = FAT32 /\ h.part_start = s
        /\ h.total_sectors = Total(b) /\ h.sectors_per_cluster = b.cluster_size
        /\ h.active_fat_start = fat /\ h.sectors_per_fat = b.sectors_per_fat
        /\ h.cluster0 = c32
    <2> HIDE DEF h
    <2> QED BY <1>1, <1>2, <1>4, <1>6, BootNumbers DEF Geometries
  <1>9. /\ m \in Geometries /\ m.root_start = g.root_start /\ m.type = FAT16
        /\ m.part_start = s /\ m.total_sectors = Total(b)
        /\ m.sectors_per_cluster = g.sectors_per_cluster
        /\ m.active_fat_start = g.active_fat_start
        /\ m.sectors_per_fat = g.sectors_per_fat /\ m.root_len = g.root_len
        /\ m.cluster0 = g.cluster0
    <2> HIDE DEF g
    <2> QED BY <1>1, <1>7, BootNumbers DEF Geometries
  <1> HIDE DEF g, h, m
  <1> QED BY <1>7, <1>8, <1>9 DEF g, h, m, s, fat, root, c16, c32

\* The formatted device before the first mount.
LEMMA InitTypes == Init => TypeInv
  <1> SUFFICES ASSUME Init PROVE TypeInv
    OBVIOUS
  <1>1. \E d \in Devices : mbr = d.mbr /\ boot = d.boot
    BY DEF Init
  <1>2. used \in [Starts -> SUBSET Nat] /\ last \in Nat /\ faults \in 0 .. MaxReadFaults
    BY DeviceAssumption DEF Init
  <1>3. fatfs \in Geometries /\ volume \in [start: Starts, size: 0 .. Word - 1]
    BY DeviceAssumption DEF Init, Unmounted, Geometries
  <1>4. list \in Seq(Accepted)
    BY DEF Init
  <1> QED BY <1>1, <1>2, <1>3, <1>4 DEF Init, TypeInv, Tries

\* The attempt reads the boot sector, or keeps the buffer when that fails.
LEMMA ReadTypes ==
  ASSUME TypeInv, ReadBoot
  PROVE  /\ sysbuf' \in BootSector \cup {NoBoot} /\ faults' \in 0 .. MaxReadFaults
         /\ faults' = 0 => faults = 0 /\ sysbuf' = boot[volume.start]
  BY DeviceTypes, DeviceAssumption DEF ReadBoot, TypeInv

\* How an attempt ends: with or without the volume mounted.
LEMMA TriedTypes ==
  ASSUME TypeInv, try # << >>, Mounted \/ Rejected
  PROVE  /\ try' \in Tries /\ result' \in {"none", "mounted", "failed"}
         /\ try' # << >> => result' = "none"
  BY TriesApart DEF Mounted, Rejected, TypeInv, Tries

\* The attempts of fat_mount.
LEMMA TryTypes ==
  ASSUME TypeInv, TryFat16 \/ TryFat32
  PROVE  TypeInv'
  <1>1. /\ ReadBoot /\ try # << >> /\ (Mounted \/ Rejected)
        /\ UNCHANGED <<mbr, boot, used, list, volume, last>>
    BY DEF TryFat16, TryFat32, Trying
  <1>2. fatfs' \in Geometries
    <2>1. CASE fatfs' = fatfs
      BY <2>1 DEF TypeInv
    <2>2. CASE fatfs' # fatfs
      <3>1. sysbuf' \in BootSector
        BY <1>1, <2>2, ReadTypes DEF TryFat16, TryFat32
      <3> QED BY <2>2, <3>1, GeometryTypes DEF TryFat16, TryFat32
    <2> QED BY <2>1, <2>2
  <1> QED BY <1>1, <1>2, ReadTypes, TriedTypes DEF TypeInv

\* The other steps.
LEMMA NextTypes == TypeInv /\ [Next]_vars => TypeInv'
  <1> SUFFICES ASSUME TypeInv, [Next]_vars PROVE TypeInv'
    OBVIOUS
  <1>1. CASE ReadTable
    <2>1. Validated(mbr) \in Seq(Accepted)
      BY DeviceTypes, KeepsValid
    <2> QED BY <1>1, <2>1 DEF ReadTable, TypeInv
  <1>2. ASSUME NEW s \in Starts, NEW n \in 0 .. Word - 1, NEW hint, Mount(s, n, hint)
        PROVE  TypeInv'
    <2>1. try' \in Tries /\ volume' \in [start: Starts, size: 0 .. Word - 1]
      BY <1>2 DEF Mount, Tries
    <2> QED BY <1>2, <2>1 DEF Mount, TypeInv
  <1>3. CASE MountDevice
    <2>1. 0 \in Starts /\ DeviceSize \in 0 .. Word - 1
      BY DeviceAssumption
    <2> QED BY <1>2, <1>3, <2>1 DEF MountDevice
  <1>4. CASE MountListed
    <2>1. PICK i \in DOMAIN list :
            list[i].start \in Starts /\ Mount(list[i].start, list[i].length, list[i].type)
      BY <1>4 DEF MountListed
    <2>2. list[i] \in PartitionEntry
      BY <2>1 DEF TypeInv, Accepted
    <2>3. list[i].length \in 0 .. Word - 1
      BY <2>2 DEF PartitionEntry
    <2> QED BY <1>2, <2>1, <2>3
  <1>5. CASE TryFat16 \/ TryFat32
    BY <1>5, TryTypes
  <1>6. CASE Allocate
    <2>1. PICK k \in FatEntries :
            used' = [used EXCEPT ![fatfs.part_start] = @ \cup {k}] /\ last' = k
      BY <1>6 DEF Allocate
    <2>2. k \in Nat
      BY <2>1 DEF FatEntries
    <2>3. used' \in [Starts -> SUBSET Nat] /\ last' \in Nat
      BY <2>1, <2>2 DEF TypeInv
    <2>4. sysbuf' = NoBoot
          /\ UNCHANGED <<mbr, boot, list, fatfs, volume, try, result, faults>>
      BY <1>6 DEF Allocate
    <2> QED BY <2>3, <2>4 DEF TypeInv
  <1>7. CASE UNCHANGED vars
    BY <1>7 DEF vars, TypeInv
  <1> QED BY <1>1, <1>3, <1>4, <1>5, <1>6, <1>7 DEF Next

\* Whatever is on the device and whichever boot sector cannot be read, the
\* geometry stays well typed: the block numbers of the FAT, of the root
\* directory and of cluster 0 fit in 32 bits.
THEOREM MountTypes == Spec => []TypeOK
  <1>1. TypeInv => TypeOK
    BY DeviceTypes DEF TypeInv, TypeOK, Geometries
  <1> QED BY <1>1, InitTypes, NextTypes, PTL DEF Spec

(***************************************************************************)
(* The attempts to mount.                                                  *)
(***************************************************************************)

\* What makes fat_mount_fat16 and fat_mount_fat32 accept a boot sector.
FatStart(start, b) == (start + b.reserved_sectors) % Word
RootStart(start, b) == (FatStart(start, b) + Fats(b, b.short_sectors_per_fat)) % Word
Accepts16(start, size, b) ==
  /\ b # NoBoot /\ ValidBoot(b, size) /\ RootEntries16(b)
  /\ RootStart(start, b) <= (start + size) % Word
Accepts32(size, b) == b # NoBoot /\ ValidBoot(b, size) /\ b.root_entries = 0

\* The geometry of a volume mounted as FAT16 or as FAT32.
Is16(start, b) ==
  /\ fatfs.type = FAT16 /\ fatfs.sectors_per_fat = b.short_sectors_per_fat
  /\ fatfs.root_len = RootBlocks(b) /\ fatfs.root_start = RootStart(start, b)
  /\ fatfs.cluster0 =
       (RootStart(start, b) + RootBlocks(b) - 2 * b.cluster_size) % Word
Is32(start, b) ==
  /\ fatfs.type = FAT32 /\ fatfs.sectors_per_fat = b.sectors_per_fat
  /\ fatfs.cluster0 =
       (FatStart(start, b) + Fats(b, b.sectors_per_fat) - 2 * b.cluster_size) % Word
IsMounted(start, size, b) ==
  /\ fatfs.part_start = start /\ fatfs.active_fat_start = FatStart(start, b)
  /\ fatfs.sectors_per_cluster = b.cluster_size /\ fatfs.total_sectors = Total(b)
  /\ \/ Accepts16(start, size, b) /\ Is16(start, b)
     \/ Accepts32(size, b) /\ Is32(start, b)

\* As long as every boot sector could be read, the attempts made so far have
\* decided on the boot sector of the volume and on nothing else.
MountInv ==
  faults = 0 =>
    LET s == volume.start
        n == volume.size
        b == boot[s]
    IN /\ try = <<FAT32>> => ~Accepts16(s, n, b)
       /\ try = <<FAT16>> => ~Accepts32(n, b)
       /\ result = "failed" => ~Accepts16(s, n, b) /\ ~Accepts32(n, b)
       /\ result = "mounted" => IsMounted(s, n, b)

\* fat_mount_fat16.
LEMMA Try16Decides ==
  ASSUME TypeInv, MountInv, TryFat16, faults' = 0
  PROVE  MountInv'
  <1> DEFINE s == volume.start
             n == volume.size
             b == boot[s]
             g == Geometry16(s, b)
             m == [g EXCEPT !.total_sectors = Total(b), !.type = FAT16,
                            !.part_start = s, !.root_cluster = 1]
  <1>1. /\ try # << >> /\ Head(try) = FAT16 /\ sysbuf' = b /\ faults = 0
        /\ UNCHANGED <<boot, volume>>
    BY ReadTypes DEF TryFat16, Trying
  <1>2. /\ b \in BootSector \cup {NoBoot} /\ result = "none"
    BY <1>1, DeviceTypes DEF TypeInv
  <1>3. try \in {<<FAT16>>, <<FAT16, FAT32>>}
    BY <1>1, TriesApart DEF TypeInv, Tries
  <1>4. CASE Accepts16(s, n, b)
    <2>1. b \in BootSector
      BY <1>2, <1>4 DEF Accepts16
    <2>2. g.root_start = RootStart(s, b)
      BY <2>1, GeometryTypes DEF RootStart, FatStart
    <2>3. g.root_start \in 0 .. Word - 1 /\ (s + n) % Word \in Int
      <3>1. g \in Geometries
        BY <2>1, GeometryTypes
      <3>2. s + n \in Int
        BY DeviceTypes
      <3> HIDE DEF g, s, n
      <3> QED BY <3>1, <3>2, WordRange DEF Geometries
    <2>4. ~(g.root_start > (s + n) % Word)
      <3> HIDE DEF g, s, n, b
      <3> QED BY <1>4, <2>2, <2>3 DEF Accepts16
    <2>5. Mounted /\ fatfs' = m
      <3>1. b # NoBoot /\ ValidBoot(b, n) /\ RootEntries16(b)
        BY <1>4 DEF Accepts16
      <3> QED BY <1>1, <2>4, <3>1 DEF TryFat16
    <2>6. /\ m.type = FAT16 /\ m.part_start = s /\ m.total_sectors = Total(b)
          /\ m.sectors_per_cluster = b.cluster_size /\ m.active_fat_start = FatStart(s, b)
          /\ m.sectors_per_fat = b.short_sectors_per_fat /\ m.root_len = RootBlocks(b)
          /\ m.root_start = RootStart(s, b)
          /\ m.cluster0 = (RootStart(s, b) + RootBlocks(b) - 2 * b.cluster_size) % Word
      BY <2>1, <2>2, GeometryTypes DEF FatStart
    <2> HIDE DEF m, g
    <2>7. IsMounted(s, n, b)'
      BY <1>1, <1>4, <2>5, <2>6 DEF IsMounted, Is16, Accepts16, FatStart, RootStart
    <2>8. try' = << >> /\ result' = "mounted"
      BY <2>5 DEF Mounted
    <2> QED BY <1>1, <2>7, <2>8, TriesApart DEF MountInv
  <1>5. CASE ~Accepts16(s, n, b)
    <2>1. Rejected
      <3>1. CASE ~(b # NoBoot /\ ValidBoot(b, n) /\ RootEntries16(b))
        BY <1>1, <3>1 DEF TryFat16
      <3>2. CASE b # NoBoot /\ ValidBoot(b, n) /\ RootEntries16(b)
        <4>1. b \in BootSector
          BY <1>2, <3>2
        <4>2. g.root_start = RootStart(s, b)
          BY <4>1, GeometryTypes DEF RootStart, FatStart
        <4>3. ~(g.root_start <= (s + n) % Word)
          BY <1>5, <3>2, <4>2 DEF Accepts16
        <4>4. g.root_start \in Int /\ (s + n) % Word \in Int
          <5>1. g \in Geometries
            BY <4>1, GeometryTypes
          <5>2. s + n \in Int
            BY DeviceTypes
          <5> HIDE DEF g, s, n
          <5> QED BY <5>1, <5>2, WordRange DEF Geometries
        <4>5. g.root_start > (s + n) % Word
          <5> HIDE DEF g, s, n
          <5> QED BY <4>3, <4>4
        <4> QED BY <1>1, <3>2, <4>5 DEF TryFat16
      <3> QED BY <3>1, <3>2
    <2>2. CASE try = <<FAT16>>
      <3>1. try' = << >> /\ result' = "failed"
        BY <2>1, <2>2 DEF Rejected
      <3>2. ~Accepts32(n, b)
        BY <1>1, <2>2 DEF MountInv
      <3> QED BY <1>1, <1>5, <3>1, <3>2, TriesApart
          DEF MountInv, Accepts16, Accepts32, FatStart, RootStart
    <2>3. CASE try = <<FAT16, FAT32>>
      <3>1. try' = <<FAT32>>
        BY <2>1, <2>3 DEF Rejected
      <3>2. result' = "none"
        BY <1>2, <2>1, <3>1, TriesApart DEF Rejected
      <3> QED BY <1>1, <1>5, <3>1, <3>2, TriesApart
          DEF MountInv, Accepts16, FatStart, RootStart
    <2> QED BY <1>3, <2>2, <2>3
  <1> QED BY <1>4, <1>5

\* fat_mount_fat32.
LEMMA Try32Decides ==
  ASSUME TypeInv, MountInv, TryFat32, faults' = 0
  PROVE  MountInv'
  <1> DEFINE s == volume.start
             n == volume.size
             b == boot[s]
             h == Geometry32(s, b)
  <1>1. /\ try # << >> /\ Head(try) = FAT32 /\ sysbuf' = b /\ faults = 0
        /\ UNCHANGED <<boot, volume>>
    BY ReadTypes DEF TryFat32, Trying
  <1>2. /\ b \in BootSector \cup {NoBoot} /\ result = "none"
    BY <1>1, DeviceTypes DEF TypeInv
  <1>3. try \in {<<FAT32>>, <<FAT32, FAT16>>}
    BY <1>1, TriesApart DEF TypeInv, Tries
  <1>4. CASE Accepts32(n, b)
    <2>1. b \in BootSector
      BY <1>2, <1>4 DEF Accepts32
    <2>2. Mounted /\ fatfs' = h
      BY <1>1, <1>4 DEF TryFat32, Accepts32
    <2>3. /\ h.type = FAT32 /\ h.part_start = s /\ h.total_sectors = Total(b)
          /\ h.sectors_per_cluster = b.cluster_size /\ h.active_fat_start = FatStart(s, b)
          /\ h.sectors_per_fat = b.sectors_per_fat
          /\ h.cluster0 = (FatStart(s, b) + Fats(b, b.sectors_per_fat) - 2 * b.cluster_size) % Word
      BY <2>1, GeometryTypes DEF FatStart
    <2> HIDE DEF h
    <2>4. IsMounted(s, n, b)'
      BY <1>1, <1>4, <2>2, <2>3 DEF IsMounted, Is32, Accepts32, FatStart
    <2>5. try' = << >> /\ result' = "mounted"
      BY <2>2 DEF Mounted
    <2> QED BY <1>1, <2>4, <2>5, TriesApart DEF MountInv
  <1>5. CASE ~Accepts32(n, b)
    <2>1. Rejected
      BY <1>1, <1>5 DEF TryFat32, Accepts32
    <2>2. CASE try = <<FAT32>>
      <3>1. try' = << >> /\ result' = "failed"
        BY <2>1, <2>2 DEF Rejected
      <3>2. ~Accepts16(s, n, b)
        BY <1>1, <2>2 DEF MountInv
      <3> QED BY <1>1, <1>5, <3>1, <3>2, TriesApart
          DEF MountInv, Accepts16, Accepts32, FatStart, RootStart
    <2>3. CASE try = <<FAT32, FAT16>>
      <3>1. try' = <<FAT16>>
        BY <2>1, <2>3 DEF Rejected
      <3>2. result' = "none"
        BY <1>2, <2>1, <3>1, TriesApart DEF Rejected
      <3> QED BY <1>1, <1>5, <3>1, <3>2, TriesApart DEF MountInv, Accepts32
    <2> QED BY <1>3, <2>2, <2>3
  <1> QED BY <1>4, <1>5

\* Nothing is decided before the first attempt.
LEMMA InitDecides == Init => MountInv
  <1> SUFFICES ASSUME Init PROVE MountInv
    OBVIOUS
  <1> QED BY TriesApart DEF Init, MountInv

\* No step changes what the attempts have found out.
LEMMA NextDecides == TypeInv /\ MountInv /\ [Next]_vars => MountInv'
  <1> SUFFICES ASSUME TypeInv, MountInv, [Next]_vars PROVE MountInv'
    OBVIOUS
  <1>1. CASE UNCHANGED <<boot, volume, fatfs, try, result, faults>>
    BY <1>1 DEF MountInv, IsMounted, Is16, Is32, Accepts16, Accepts32, FatStart, RootStart
  <1>2. CASE ReadTable \/ Allocate \/ UNCHANGED vars
    BY <1>1, <1>2 DEF ReadTable, Allocate, vars
  <1>3. CASE MountDevice \/ MountListed
    <2>1. result' = "none" /\ try' \in {<<FAT16, FAT32>>, <<FAT32, FAT16>>}
      BY <1>3 DEF MountDevice, MountListed, Mount
    <2>2. try' # <<FAT16>> /\ try' # <<FAT32>>
      BY <2>1
    <2> QED BY <2>1, <2>2 DEF MountInv
  <1>4. CASE (TryFat16 \/ TryFat32) /\ faults' = 0
    BY <1>4, Try16Decides, Try32Decides
  <1>5. CASE (TryFat16 \/ TryFat32) /\ faults' # 0
    BY <1>5 DEF MountInv
  <1> QED BY <1>2, <1>3, <1>4, <1>5 DEF Next

\* The boot sector of a volume leaves room below the last block number.
LEMMA FatsBelowWord ==
  ASSUME FatsFit, TypeInv, NEW s \in Starts, boot[s] # NoBoot
  PROVE  LET b == boot[s]
         IN /\ b \in BootSector /\ s \in Nat
            /\ s + b.reserved_sectors + b.short_sectors_per_fat * b.num_fats < Word
            /\ FatStart(s, b) = s + b.reserved_sectors
            /\ RootStart(s, b) = s + b.reserved_sectors + b.short_sectors_per_fat * b.num_fats
  <1> DEFINE b == boot[s]
             m == b.short_sectors_per_fat * b.num_fats
             r == b.reserved_sectors
  <1>1. b \in BootSector /\ s \in Nat /\ Word \in Nat \ {0}
    BY DeviceTypes, DeviceAssumption
  <1>2. s + r + m < Word
    <2>1. PICK d \in Devices : boot = d.boot
      BY DEF TypeInv
    <2> QED BY <2>1 DEF FatsFit
  <1>3. m \in Nat /\ r \in Nat /\ Fats(b, b.short_sectors_per_fat) = m
    BY <1>1, BootNumbers DEF Fats
  <1> HIDE DEF m, r
  <1>4. (s + r) % Word = s + r /\ (s + r + m) % Word = s + r + m
    BY <1>1, <1>2, <1>3
  <1> QED BY <1>1, <1>2, <1>3, <1>4 DEF FatStart, RootStart, m, r

\* On a device whose FATs end below the last block number the boot sector, the
\* FATs, the root directory and cluster 2 of a mounted volume follow one
\* another, even where cluster 0 lies below block 0 and its number wraps.
THEOREM AreasFollow == ASSUME FatsFit PROVE Spec => []LayoutOK
  <1>1. ASSUME TypeInv, MountInv PROVE LayoutOK
    <2>1. SUFFICES ASSUME result = "mounted", faults = 0
          PROVE  LET b       == boot[fatfs.part_start]
                     fatEnd  == fatfs.active_fat_start + fatfs.sectors_per_fat * b.num_fats
                     rootEnd == IF fatfs.type = FAT16 THEN fatfs.root_start + fatfs.root_len
                                ELSE fatEnd
                 IN /\ fatfs.active_fat_start > fatfs.part_start
                    /\ fatfs.type = FAT16 => fatfs.root_start = fatEnd
                    /\ SectorOf(2) = rootEnd % Word
      BY DEF LayoutOK
    <2> DEFINE s == volume.start
               b == boot[s]
               r == b.reserved_sectors
               m == b.short_sectors_per_fat * b.num_fats
               l == b.sectors_per_fat * b.num_fats
               n == RootBlocks(b)
               c == 2 * b.cluster_size
    <2>2. IsMounted(s, volume.size, b) /\ s \in Starts
      BY <1>1, <2>1, DeviceTypes DEF MountInv
    <2>3. b # NoBoot /\ r >= 1
      BY <2>2 DEF IsMounted, Accepts16, Accepts32, ValidBoot
    <2>4. /\ b \in BootSector /\ s \in Nat /\ FatStart(s, b) = s + r
          /\ RootStart(s, b) = s + r + m
      BY <1>1, <2>2, <2>3, FatsBelowWord
    <2>5. /\ r \in Nat /\ m \in Nat /\ l \in Nat /\ n \in Nat /\ c \in Nat
          /\ Fats(b, b.sectors_per_fat) = l
      BY <2>4, BootNumbers DEF Fats
    <2>6. /\ fatfs.part_start = s /\ fatfs.active_fat_start = s + r
          /\ SectorOf(2) = (c + fatfs.cluster0) % Word
      BY <2>2, <2>4 DEF IsMounted, SectorOf
    <2>7. CASE Is16(s, b)
      <3>1. /\ fatfs.type = FAT16 /\ fatfs.sectors_per_fat * b.num_fats = m
            /\ fatfs.root_start = s + r + m /\ fatfs.root_len = n
            /\ fatfs.cluster0 = (s + r + m + n - c) % Word
        BY <2>4, <2>7 DEF Is16
      <3> HIDE DEF s, r, m, n, c
      <3>2. (c + ((s + r + m + n - c) % Word)) % Word = (s + r + m + n) % Word
        <4> DEFINE x == s + r + m + n
        <4>0. s + r + m + n - c = x - c
          BY <2>4, <2>5
        <4>1. x \in Int /\ c \in Int /\ Word \in Nat \ {0}
          BY <2>4, <2>5, DeviceAssumption
        <4> HIDE DEF x
        <4>2. (c + ((x - c) % Word)) % Word = x % Word
          BY <4>1, ModShift
        <4> QED BY <4>0, <4>2 DEF x
      <3> QED BY <2>3, <2>4, <2>5, <2>6, <3>1, <3>2
    <2>8. CASE Is32(s, b)
      <3>1. /\ fatfs.type # FAT16 /\ fatfs.sectors_per_fat * b.num_fats = l
            /\ fatfs.cluster0 = (s + r + l - c) % Word
        BY <2>4, <2>5, <2>8, TriesApart DEF Is32
      <3> HIDE DEF s, r, l, c
      <3>2. (c + ((s + r + l - c) % Word)) % Word = (s + r + l) % Word
        <4> DEFINE x == s + r + l
        <4>0. s + r + l - c = x - c
          BY <2>4, <2>5
        <4>1. x \in Int /\ c \in Int /\ Word \in Nat \ {0}
          BY <2>4, <2>5, DeviceAssumption
        <4> HIDE DEF x
        <4>2. (c + ((x - c) % Word)) % Word = x % Word
          BY <4>1, ModShift
        <4> QED BY <4>0, <4>2 DEF x
      <3> QED BY <2>3, <2>4, <2>5, <2>6, <3>1, <3>2
    <2> QED BY <2>2, <2>7, <2>8 DEF IsMounted
  <1> QED BY <1>1, InitTypes, NextTypes, InitDecides, NextDecides, PTL DEF Spec

\* On such a device, and for a volume whose end does not wrap around, fat_mount
\* decides by the boot sector alone: not by the partition type, nor by what was
\* mounted or tried before.
THEOREM BootSectorDecides == ASSUME FatsFit PROVE Spec => []HintIrrelevant
  <1>1. ASSUME TypeInv, MountInv PROVE HintIrrelevant
    <2> DEFINE s == volume.start
               n == volume.size
               b == boot[s]
    <2>1. SUFFICES ASSUME faults = 0, ~EndWraps(s, n)
          PROVE  /\ result = "failed" => ~Mountable16(b) /\ ~Mountable32(b)
                 /\ result = "mounted" =>
                      /\ fatfs.type = FAT16 => Mountable16(b) /\ ~Mountable32(b)
                      /\ fatfs.type = FAT32 => Mountable32(b) /\ ~Mountable16(b)
                      /\ OwnGeometry
      BY DEF HintIrrelevant
    <2>2. /\ s \in Starts /\ s \in Nat /\ n \in Nat /\ b \in BootSector \cup {NoBoot}
          /\ s + n < Word
      BY <1>1, <2>1, DeviceTypes, DeviceAssumption DEF EndWraps
    <2>3. (s + n) % Word = s + n
      <3> HIDE DEF s, n
      <3> QED BY <2>2, DeviceAssumption
    <2>4. Accepts32(n, b) <=> Mountable32(b)
      BY DEF Accepts32, Mountable32
    <2>5. Accepts16(s, n, b) <=> Mountable16(b)
      <3>1. ASSUME b # NoBoot
            PROVE  RootStart(s, b) <= (s + n) % Word <=>
                     b.reserved_sectors + b.short_sectors_per_fat * b.num_fats <= n
        <4>1. RootStart(s, b) = s + b.reserved_sectors + b.short_sectors_per_fat * b.num_fats
          BY <1>1, <2>2, <3>1, FatsBelowWord
        <4>2. b.reserved_sectors \in Nat /\ b.short_sectors_per_fat * b.num_fats \in Nat
          BY <2>2, <3>1, BootNumbers
        <4> HIDE DEF s, n
        <4> QED BY <2>2, <2>3, <4>1, <4>2
      <3> QED BY <3>1 DEF Accepts16, Mountable16
    <2>6. ~(Mountable16(b) /\ Mountable32(b))
      BY DEF Mountable16, Mountable32, RootEntries16
    <2>7. result = "failed" => ~Mountable16(b) /\ ~Mountable32(b)
      BY <1>1, <2>1, <2>4, <2>5 DEF MountInv
    <2>8. ASSUME result = "mounted"
          PROVE  /\ fatfs.type = FAT16 => Mountable16(b)
                 /\ fatfs.type = FAT32 => Mountable32(b)
                 /\ OwnGeometry
      <3>1. IsMounted(s, n, b)
        BY <1>1, <2>1, <2>8 DEF MountInv
      <3>2. /\ fatfs.type = FAT16 => Mountable16(b)
            /\ fatfs.type = FAT32 => Mountable32(b)
        BY <2>4, <2>5, <3>1, TriesApart DEF IsMounted, Is16, Is32
      <3>3. OwnGeometry
        BY <3>1 DEF OwnGeometry, IsMounted, Accepts16, Accepts32
      <3> QED BY <3>2, <3>3
    <2> QED BY <2>6, <2>7, <2>8
  <1> QED BY <1>1, InitTypes, NextTypes, InitDecides, NextDecides, PTL DEF Spec

(***************************************************************************)
(* The volume and the device.                                              *)
(***************************************************************************)
\* What fat_mount is given, and what it makes of it, wrapping ends included.
PlaceInv ==
  /\ \/ volume.start + volume.size <= DeviceSize
     \/ /\ (volume.start + volume.size) % Word <= DeviceSize
        /\ EndWraps(volume.start, volume.size)
  /\ result = "mounted" =>
       fatfs.part_start = volume.start /\ fatfs.total_sectors <= volume.size

\* What read_partition_table lists, as fat_mount is given it.
LEMMA ListedEnds ==
  ASSUME NEW e \in PartitionEntry, Listed(e)
  PROVE  \/ e.start + e.length <= DeviceSize
         \/ (e.start + e.length) % Word <= DeviceSize /\ EndWraps(e.start, e.length)
  <1>1. e.start \in Nat /\ e.length \in Nat
    BY DeviceAssumption DEF PartitionEntry
  <1> DEFINE n == e.start + e.length
  <1>2. n % Word <= DeviceSize /\ n \in Nat
    BY <1>1 DEF Listed
  <1> HIDE DEF n
  <1>3. CASE n < Word
    BY <1>2, <1>3, DeviceAssumption DEF n
  <1>4. CASE n >= Word
    BY <1>2, <1>4 DEF EndWraps, n
  <1> QED BY <1>2, <1>3, <1>4, DeviceAssumption

LEMMA InitPlace == Init => PlaceInv
  BY DeviceAssumption DEF Init, PlaceInv

\* An attempt that mounts has compared the sectors of the boot sector with the
\* size it was given, whatever boot sector is in sysbuf.
LEMMA TryPlace ==
  ASSUME TypeInv, PlaceInv, TryFat16 \/ TryFat32
  PROVE  PlaceInv'
  <1>1. volume' = volume
    BY DEF TryFat16, TryFat32
  <1>2. CASE result' # "mounted"
    BY <1>1, <1>2 DEF PlaceInv, EndWraps
  <1>3. CASE result' = "mounted"
    <2>1. try # << >> /\ result = "none"
      BY DEF TypeInv, TryFat16, TryFat32, Trying
    <2>2. ~Rejected
      BY <1>3, <2>1 DEF Rejected
    <2>3. sysbuf' # NoBoot /\ ValidBoot(sysbuf', volume.size)
      BY <2>2 DEF TryFat16, TryFat32
    <2>4. sysbuf' \in BootSector
      BY <2>3, ReadTypes DEF TryFat16, TryFat32
    <2>5. fatfs'.part_start = volume.start /\ fatfs'.total_sectors = Total(sysbuf')
      BY <2>2, <2>4, GeometryTypes DEF TryFat16, TryFat32
    <2> QED BY <1>1, <2>3, <2>5 DEF PlaceInv, ValidBoot, EndWraps
  <1> QED BY <1>2, <1>3

LEMMA NextPlace == TypeInv /\ PlaceInv /\ [Next]_vars => PlaceInv'
  <1> SUFFICES ASSUME TypeInv, PlaceInv, [Next]_vars PROVE PlaceInv'
    OBVIOUS
  <1>1. CASE ReadTable \/ Allocate \/ UNCHANGED vars
    BY <1>1 DEF ReadTable, Allocate, vars, PlaceInv, EndWraps
  <1>2. CASE MountDevice
    BY <1>2, DeviceAssumption DEF MountDevice, Mount, PlaceInv
  <1>3. CASE MountListed
    <2>1. PICK i \in DOMAIN list : Mount(list[i].start, list[i].length, list[i].type)
      BY <1>3 DEF MountListed
    <2>2. list[i] \in PartitionEntry /\ Listed(list[i])
      BY <2>1 DEF TypeInv, Accepted
    <2>3. volume' = [start |-> list[i].start, size |-> list[i].length] /\ result' = "none"
      BY <2>1 DEF Mount
    <2> QED BY <2>2, <2>3, ListedEnds DEF PlaceInv, EndWraps
  <1>4. CASE TryFat16 \/ TryFat32
    BY <1>4, TryPlace
  <1> QED BY <1>1, <1>2, <1>3, <1>4 DEF Next

\* A volume whose end wraps around is not mounted as FAT16: its root directory
\* would have to start before the volume does.
LEMMA WrappingRefused ==
  ASSUME FatsFit, TypeInv, NEW s \in Starts, NEW n \in 0 .. Word - 1,
         EndWraps(s, n), boot[s] # NoBoot
  PROVE  ~Accepts16(s, n, boot[s])
  <1> DEFINE b == boot[s]
             m == b.short_sectors_per_fat * b.num_fats
             r == b.reserved_sectors
  <1>1. b \in BootSector /\ s \in Nat /\ RootStart(s, b) = s + r + m
    BY FatsBelowWord
  <1>2. m \in Nat /\ r \in Nat
    BY <1>1, BootNumbers
  <1>3. s + n >= Word /\ s + n < 2 * Word /\ s + n - Word < s
    BY <1>1, DeviceAssumption DEF EndWraps
  <1>4. (s + n) % Word = s + n - Word
    <2>1. s + n - Word \in 0 .. Word - 1 /\ Word \in Nat \ {0} /\ s + n = Word * 1 + (s + n - Word)
      BY <1>1, <1>3, DeviceAssumption
    <2> QED BY <2>1, ModUnique
  <1> HIDE DEF m, r, b
  <1>5. RootStart(s, b) > (s + n) % Word
    BY <1>1, <1>2, <1>3, <1>4, DeviceAssumption
  <1> QED BY <1>1, <1>2, <1>3, <1>4, <1>5, DeviceAssumption DEF Accepts16, b

\* From the entries of the table to the sectors the boot sector counts: what is
\* mounted lies within the device, for every table, device and boot sector, and
\* after failing reads, but for a partition whose end wraps around, and even
\* that is mounted only as FAT32 when every boot sector could be read.
THEOREM MountedInDevice == ASSUME FatsFit PROVE Spec => []VolumeInDevice
  <1>1. ASSUME TypeInv, MountInv, PlaceInv PROVE VolumeInDevice
    <2> DEFINE s == volume.start
               n == volume.size
               b == boot[s]
    <2>1. SUFFICES ASSUME result = "mounted",
                          ~(EndWraps(s, n) /\ (fatfs.type = FAT32 \/ faults > 0))
                   PROVE  fatfs.part_start + fatfs.total_sectors <= DeviceSize
      BY DEF VolumeInDevice
    <2>2. s \in Starts /\ s \in Nat /\ n \in 0 .. Word - 1 /\ fatfs.total_sectors \in Nat
      BY <1>1, DeviceTypes, DeviceAssumption DEF TypeInv, Geometries
    <2>3. ~EndWraps(s, n)
      <3>1. SUFFICES ASSUME EndWraps(s, n) PROVE FALSE
        OBVIOUS
      <3>2. faults = 0 /\ fatfs.type # FAT32
        BY <1>1, <2>1, <3>1 DEF TypeInv
      <3>3. IsMounted(s, n, b)
        BY <1>1, <2>1, <3>2 DEF MountInv
      <3>4. Accepts16(s, n, b)
        BY <3>2, <3>3 DEF IsMounted, Is32
      <3>5. b # NoBoot
        BY <3>4 DEF Accepts16
      <3> QED BY <1>1, <2>2, <3>1, <3>4, <3>5, WrappingRefused
    <2>4. s + n <= DeviceSize
      BY <1>1, <2>3 DEF PlaceInv
    <2>5. fatfs.part_start = s /\ fatfs.total_sectors <= n
      BY <1>1, <2>1 DEF PlaceInv
    <2> HIDE DEF s, n
    <2> QED BY <2>2, <2>4, <2>5, DeviceAssumption
  <1> QED BY <1>1, InitTypes, NextTypes, InitDecides, NextDecides, InitPlace, NextPlace,
             PTL DEF Spec
=============================================================================
