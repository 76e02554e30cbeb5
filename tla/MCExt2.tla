------------------------------- MODULE MCExt2 -------------------------------
(* Instances of Ext2: a root directory of two blocks with a file and a       *)
(* directory of one file that fills its blocks, inodes in two groups.    *)
EXTENDS Ext2, TLC

MCVolumes ==
  {[log |-> 0, blocks |-> 71, per_group |-> 8, sparse |-> TRUE,  read_only |-> FALSE],
   [log |-> 1, blocks |-> 19, per_group |-> 8, sparse |-> FALSE, read_only |-> FALSE],
   [log |-> 0, blocks |-> 81, per_group |-> 8, sparse |-> TRUE,  read_only |-> TRUE],
   [log |-> 0, blocks |-> 19, per_group |-> 8, sparse |-> FALSE, read_only |-> TRUE]}

MCTree == (<<"f">> :> 3) @@ (<<"s", "g">> :> 5)
MCPaths == <<{<<>>, <<"f">>, <<"s">>, <<"s", "g">>, <<"s", "no">>}, {<<"f">>}>>
MCModes == {{}, {"WRONLY"}, {"RDWR", "APPEND"}, {"RDWR", "CREAT"}, {"RDWR", "TRUNC"}}
MCNewData == {<<91>>, <<92, 93>>}

\* Group g: superblock, descriptors, inode table, data.
Base(v, g) == (IF v.log = 0 THEN 1 ELSE 0) + g * v.per_group
Size(v) == 2 ^ (v.log + 1) * PerSector
FirstOf(v, b) == b * 2 ^ (v.log + 1) + part_start

HomesOf(v) ==
  [ino \in 1..6 |->
     LET index == (ino - 1) % s_inodes_per_group
     IN  <<FirstOf(v, Base(v, (ino - 1) \div s_inodes_per_group) + 2)
             + index \div InodesPerSector, (index % InodesPerSector) + 1>>]

FileInode(size, dir, blocks) ==
  [size |-> size, dir |-> dir,
   block |-> [i \in 0..Direct |-> IF i + 1 \in DOMAIN blocks THEN blocks[i + 1] ELSE 0]]
Inodes(v) ==
  [ino \in 1..6 |->
     CASE ino = 2 -> FileInode(2 * Size(v), TRUE, <<Base(v, 0) + 3, Base(v, 0) + 5>>)
       [] ino = 3 -> FileInode(5, FALSE, <<Base(v, 0) + 4>>)
       [] ino = 4 -> FileInode(Size(v), TRUE, <<Base(v, 1) + 3>>)
       [] ino = 5 -> FileInode(3 * Size(v), FALSE, <<Base(v, 1) + 6, Base(v, 1) + 4, Base(v, 1) + 5>>)
       [] OTHER   -> FileInode(0, FALSE, <<>>)]

\* A record; its name and its padding, read as a header, are an unused record.
Record(ino, name, name_len, rec_len) ==
  <<[inode |-> ino, rec_len |-> rec_len, name_len |-> name_len, name |-> name]>>
    \o [i \in 1..(rec_len - 1) |-> NoRecord]
DirData(v) ==
  (Base(v, 0) + 3 :> Record(2, ".", 1, 2)
       \o (IF v.log = 0 THEN Record(2, "..", 1, 3) \o Record(3, "f", 1, 3)
           ELSE Record(2, "..", 1, 6) \o Record(3, "f", 2, 8)))
  @@ (Base(v, 0) + 5 :> Record(4, "s", 1, Size(v)))
  @@ (Base(v, 1) + 3 :> Record(4, ".", 1, 3) \o Record(2, "..", 2, 3)
                          \o Record(5, "g", 1, Size(v) - 6))
FileData(v) ==
  [b \in {Base(v, 0) + 4, Base(v, 1) + 4, Base(v, 1) + 5, Base(v, 1) + 6} |->
     [i \in 1..Size(v) |-> 100 * b + i]]

\* The blocks' cells cut into sectors.
Cut(v, data) ==
  [s \in UNION {FirstOf(v, b)..(FirstOf(v, b + 1) - 1) : b \in DOMAIN data} |->
     LET b == (s - part_start) \div 2 ^ (v.log + 1)
         k == (s - part_start) % 2 ^ (v.log + 1)
     IN  [i \in 1..PerSector |-> data[b][k * PerSector + i]]]

ImageOf(v) ==
  LET desc  == FirstOf(v, (IF v.log = 0 THEN 1 ELSE 0) + 1)
      homes == {HomesOf(v)[ino][1] : ino \in 1..6}
      at(s, i) == {ino \in 1..6 : HomesOf(v)[ino] = <<s, i>>}
  IN  Cut(v, DirData(v) @@ FileData(v))
      @@ [s \in desc..(desc + 1) |-> [i \in 1..DescPerSector |->
            LET g == (s - desc) * DescPerSector + i - 1 IN Base(v, g) + 2]]
      @@ [s \in homes |-> [i \in 1..InodesPerSector |->
            IF at(s, i) = {} THEN FileInode(0, FALSE, <<>>)
            ELSE Inodes(v)[CHOOSE ino \in at(s, i) : TRUE]]]

MCHome == [v \in MCVolumes |-> HomesOf(v)]
MCImage == [v \in MCVolumes |-> ImageOf(v)]

\* No call reads the result of an earlier one.
WithoutResult == <<volume, disk, supers, context, fe>>
=============================================================================
