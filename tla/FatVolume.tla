------------------------------ MODULE FatVolume ------------------------------
(***************************************************************************)
(* Properties of the volume as a whole, over the chains of its files,      *)
(* found by walking the FAT.  FatFsChains proves SizeCovered, FatFsFiles   *)
(* NoLeak and OthersUntouched; CallsReturn stays with TLC.                 *)
(***************************************************************************)
EXTENDS FatFs

\* The i-th cluster of the chain that starts at first.
ChainFrom(first) ==
  LET nth[i \in 0 .. LastCluster] ==
        IF i = 0 THEN first
        ELSE IF nth[i - 1] \in Clusters THEN fat[nth[i - 1]] ELSE Bad
  IN nth
Chain(first) == {ChainFrom(first)[i] : i \in 0 .. LastCluster} \cap Clusters

StoredByte(first, p) ==
  LET c == ChainFrom(first)[p \div ClusterBytes]
  IN IF c \in Clusters
     THEN disk[SectorOf(c) + (p % ClusterBytes) \div SectorSize][p % SectorSize]
     ELSE Meta
Stored(s) == [p \in 0 .. dir[s].size - 1 |-> StoredByte(dir[s].first, p)]

\* Every directory entry's size is covered by the clusters of its chain, also
\* after a power loss between any two of the writes of fat_flush,
\* fat_next_cluster and fat_flush_fileinfo.
SizeCovered ==
  \A s \in Slots : Live(s) =>
    dir[s].size <= Cardinality(Chain(dir[s].first)) * ClusterBytes

\* Between calls, as long as no power was lost and no block operation failed,
\* every allocated cluster is in the chain of a file: open, write, seek,
\* close and unlink lose no space.
NoLeak ==
  pc = "idle" /\ crashes = 0 /\ faults = 0 =>
    \A c \in Clusters : fat[c] # 0 =>
      \/ \E s \in Slots : Live(s) /\ c \in Chain(dir[s].first)
      \/ \E h \in Handles : IsOpen(h) /\ c \in Chain(file_num[h].first)

\* No step of a call on one file changes what is stored of another file.
OthersUntouched ==
  [][\A s \in Slots :
       Live(s) /\ (pc # "idle" => dir[s].name # Cur.name) /\ Live(s)'
         => Stored(s)' = Stored(s)]_vars

\* Under fairness of the running call every call returns: no loop of
\* fat_read, fat_write, fat_lseek or fat_free_clusters runs forever.
CallsReturn == pc # "idle" ~> pc = "idle"
=============================================================================
