------------------------------ MODULE MCMount ------------------------------
(* Instances of FatMount: a small device with two partition entries. *)
EXTENDS FatMount, TLC

Good16 == [sector_size |-> 4, cluster_size |-> 1, reserved_sectors |-> 1, num_fats |-> 2,
           root_entries |-> 2, total_sectors |-> 9, big_total_sectors |-> 0,
           short_sectors_per_fat |-> 2, sectors_per_fat |-> 0, root_start |-> 0]
Good32 == [Good16 EXCEPT !.root_entries = 0, !.total_sectors = 0, !.big_total_sectors = 9,
                         !.short_sectors_per_fat = 0, !.sectors_per_fat = 2,
                         !.root_start = 2]
\* Values that are wrong, at a limit, or unusual.
Odd == [sector_size |-> {8}, cluster_size |-> {0, 3, 4, 8}, reserved_sectors |-> {0, 2, 9},
        num_fats |-> {0, 1, 14, 15}, root_entries |-> {0, 1, 4},
        total_sectors |-> {0, 8, 10}, big_total_sectors |-> {9, 10},
        short_sectors_per_fat |-> {1, 4, 5}, sectors_per_fat |-> {1, 4},
        root_start |-> {3}]
OddBoots(b) ==
  UNION {{[b EXCEPT ![f] = v, ![g] = w] : v \in Odd[f], w \in Odd[g]} :
           f \in DOMAIN Odd, g \in DOMAIN Odd}
GoodBoots == {Good16, Good32}

BootSectors == OddBoots(Good16) \cup OddBoots(Good32)

\* Block 0 is the device's first, 3 and 14 start partitions.
OddPartition == {(0 :> NoBoot @@ 3 :> b @@ 14 :> g) : b \in BootSectors, g \in GoodBoots}
GoodPartitions == {(0 :> NoBoot @@ 3 :> b @@ 14 :> g) : b, g \in GoodBoots}

Entry(s, l, t) == [start |-> s, length |-> l, type |-> t]
OneTable == {<<Entry(3, 9, FAT16), Entry(14, 9, FAT32)>>}
\* A length of 254 wraps around block 256.
AnyTables == {<<Entry(s, l, FAT16), Entry(14, m, FAT32)>> :
                s \in {0, 3, 23, 24}, l \in {0, 9, 21, 22, 254}, m \in {0, 9, 10, 11}}
\* Volumes that count as many sectors as a partition has up to the end of the
\* device, and one more.
LongBoots == {[Good16 EXCEPT !.total_sectors = n] : n \in {10, 11, 21, 22}}
        \cup {[Good32 EXCEPT !.big_total_sectors = n] : n \in {10, 11, 21, 22}}
LongPartitions == {(0 :> NoBoot @@ 3 :> b @@ 14 :> b) : b \in LongBoots}
Volumes(tables, partitions) == {[mbr |-> t, boot |-> d] : t \in tables, d \in partitions}

GoodDevices == Volumes(OneTable, GoodPartitions)
OddDevices == Volumes(OneTable, OddPartition)
        \cup Volumes(AnyTables, GoodPartitions \cup LongPartitions)

\* No FAT of these volumes reaches the last block number.
ASSUME FatsFitHere == FatsFit
=============================================================================
