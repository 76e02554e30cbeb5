----------------------------- MODULE FatFsSafety -----------------------------
(***************************************************************************)
(* Under SafeUse no cluster is ever shared and no name is ever doubled,    *)
(* whatever the number of files, handles, calls and crashes (VolumeInv);   *)
(* and under any use without seeking writers file data is never written    *)
(* over the boot sector, the FAT or the directory (MetaInv).               *)
(***************************************************************************)
EXTENDS FatFsProofs

(***************************************************************************)
(* The FAT.                                                                *)
(***************************************************************************)

\* Entries 0 and 1, clusters, the end marker and (uint32_t)-1 are told apart.
LEMMA Markers ==
  /\ Clusters \subseteq FatIndex /\ 0 \notin Clusters /\ 1 \notin Clusters
  /\ FatIndex = Clusters \cup {0, 1}
  /\ EndMarker \notin FatIndex /\ EndMarker # 0 /\ Bad \notin FatIndex /\ Bad \in 0 .. Bad
  /\ \A c \in FatIndex : c < EndMarker
  /\ \A c \in Clusters : c >= 2
  BY GeometryAssumption DEF Clusters, FatIndex, EndMarker, Bad

\* Entries 0 and 1 are never free, so a free entry is a cluster of nobody.
LEMMA FreeIsCluster ==
  ASSUME FatInv, NEW k \in FatIndex, FreeCluster(k)
  PROVE  k \in Clusters /\ fat[k] = 0 /\ owner[k] = 0
  BY Markers DEF FatInv, FreeCluster

\* fat_get_free_cluster gives a cluster of nobody to a chain: no link leads to
\* it, and all other clusters stay where they are.
LEMMA ClaimKeeps ==
  ASSUME TypeOK, FatInv, NEW k \in Clusters, fat[k] = 0, NEW o \in Clusters, Claim(k, o)
  PROVE  /\ FatInv'
         /\ owner'[k] = o /\ fat'[k] = EndMarker
         /\ \A c \in Clusters : fat'[c] # k
         /\ \A c \in Clusters : owner[c] # 0 => owner'[c] = owner[c] /\ fat'[c] = fat[c]
  <1>1. /\ fat' = [fat EXCEPT ![k] = EndMarker] /\ owner' = [owner EXCEPT ![k] = o]
        /\ fat \in [FatIndex -> 0 .. EndMarker] /\ owner \in [FatIndex -> FatIndex]
    BY DEF Claim, TypeOK
  <1>2. \A c \in FatIndex : /\ fat'[c] = IF c = k THEN EndMarker ELSE fat[c]
                            /\ owner'[c] = IF c = k THEN o ELSE owner[c]
    BY <1>1
  <1>3. owner[k] = 0 /\ \A c \in Clusters : fat[c] # k
    BY Markers DEF FatInv
  <1>4. \A c \in Clusters : fat'[c] # k
    BY <1>2, <1>3, Markers
  <1>5. FatInv'
    BY <1>2, <1>3, Markers DEF FatInv
  <1> QED BY <1>2, <1>3, <1>4, <1>5, Markers

\* A step that writes neither the FAT nor the directory.
LEMMA Unwritten ==
  ASSUME FatInv, DirInv, UNCHANGED <<fat, dir, owner>>
  PROVE  FatInv' /\ DirInv'
  BY DEF FatInv, DirInv, Live

\* Chains keep their owners when only owners that were 0 change.
LEMMA DirKept ==
  ASSUME DirInv, dir' = dir,
         \A c \in Clusters : owner[c] # 0 => owner'[c] = owner[c]
  PROVE  DirInv'
  BY Markers DEF DirInv, Live

(***************************************************************************)
(* The open files.                                                         *)
(***************************************************************************)

\* The file of the running call after SetCur; all others stay.
LEMMA CurAfter ==
  ASSUME TypeOK, NEW f, SetCur(f), call'.fd = call.fd
  PROVE  Cur' = f /\ \A h \in Handles : h # call.fd => file_num'[h] = file_num[h]
  BY DEF TypeOK, SetCur, Cur, Calls

\* The file of the running call changes without changing its name, its entry
\* and its first cluster, and no owner is lost.
LEMMA FileKept ==
  ASSUME TypeOK, HandleInv, IsOpen(call.fd), NEW f, SetCur(f), dir' = dir,
         \A c \in Clusters : owner[c] # 0 => owner'[c] = owner[c],
         "OPEN" \in f.flags, f.name = Cur.name, f.first = Cur.first, f.entry = Cur.entry,
         f.first = 0 => Unstored(f),
         f.first # 0 => f.cluster = Bad \/ (f.cluster \in Clusters /\ owner'[f.cluster] = f.first)
  PROVE  HandleInv'
  <1>1. call.fd \in Handles /\ file_num' = [file_num EXCEPT ![call.fd] = f]
        /\ file_num \in [Handles -> FileS]
    BY DEF TypeOK, SetCur, Calls
  <1>2. file_num'[call.fd] = f /\ \A h \in Handles : h # call.fd => file_num'[h] = file_num[h]
    BY <1>1
  <1>3. \A s \in Slots : Live(s)' = Live(s)
    BY DEF Live
  <1>4. \A h \in Handles :
          /\ IsOpen(h)' = IsOpen(h)
          /\ file_num'[h].name = file_num[h].name /\ file_num'[h].first = file_num[h].first
          /\ file_num'[h].entry = file_num[h].entry
    BY <1>2 DEF IsOpen, Cur
  <1>5. ASSUME NEW h \in Handles, IsOpen(h)', file_num'[h].first # 0
        PROVE  StoredFile(file_num[h])'
    <2>1. StoredFile(file_num[h])
      BY <1>4, <1>5 DEF HandleInv, ClosedInv, FilesInv, EntryInv, ApartInv
    <2> QED BY <1>2, <1>4, <1>5, <2>1, Markers DEF StoredFile, Cur
  <1>6. ASSUME NEW h \in Handles, IsOpen(h)', file_num'[h].first = 0
        PROVE  Unstored(file_num[h])'
    BY <1>2, <1>4, <1>6 DEF HandleInv, ClosedInv, FilesInv, EntryInv, ApartInv, Unstored, Cur
  <1>7. ASSUME NEW h \in Handles, ~IsOpen(h)' PROVE file_num'[h] = Closed
    BY <1>2, <1>4, <1>7 DEF HandleInv, ClosedInv, FilesInv, EntryInv, ApartInv
  <1> QED BY <1>4, <1>5, <1>6, <1>7 DEF HandleInv, ClosedInv, FilesInv, EntryInv, ApartInv, Live

(***************************************************************************)
(* The steps of a running call.                                            *)
(***************************************************************************)

\* The failing block operations that SafeUse leaves out.
LEMMA DirectoryWorks ==
  ASSUME SafeUse
  PROVE  /\ \A s : ~InfoWriteFails(s) /\ ~InfoAstray(s)
         /\ \A n : ~UnlinkOverlooked(n) /\ \A m, ro : ~OpenOverlooked(n, m, ro)
         /\ DeleteEntry => dir' = [dir EXCEPT ![call.slot].kind = "deleted"]
  <1>1. \A op \in {"entry", "delete", "lookup", "parent", "search", "reread"} : ~Fault(op)
    BY DEF SafeUse, Fault
  <1>2. \A b : ~Unread(b)
    BY <1>1 DEF Unread
  <1> QED BY <1>1, <1>2 DEF InfoWriteFails, InfoAstray, UnlinkOverlooked, OpenOverlooked,
                            DeleteEntry

\* What is left to show of a step of a call other than fat_unlink that writes
\* neither the FAT nor the directory.
LEMMA QuietSafe ==
  ASSUME VolumeInv, UNCHANGED <<fat, dir, owner>>, pc' \notin FreeLabels, HandleInv', CallInv', SeekInv'
  PROVE  VolumeInv'
  BY Unwritten DEF VolumeInv, FreeInv, FreeLabels

\* What a label knows that follows from nothing but the label: the running
\* call is one on an open file, and it is not at a label with a claim of its own.
LEMMA PlainLabel ==
  ASSUME pc' \in {"done", "fail", "closing", "lost"} \cup
                 (IF call'.seeking THEN {} ELSE {"byte"}) \cup
                 (IF Cur'.first # 0 THEN {"sector", "next", "case", "seek"} ELSE {}),
         call'.op \notin {"none", "open", "unlink"}, IsOpen(call.fd)', 
         call'.op = "write" => "WRITE" \in Cur'.flags
  PROVE  CallInv' /\ SeekInv'
  <1>1. CallInv'
    BY DEF CallInv, FreeLabels, NeedsStored
  <1>2. SeekInv'
    BY DEF SeekInv
  <1> QED BY <1>1, <1>2

\* The labels fat_next_sector returns to when it has failed.
LEMMA SectorFailed ==
  AfterSector(FALSE) \in {"done", "fail"} \cup (IF call.seeking THEN {"case"} ELSE {})
  BY DEF AfterSector

\* The call in the same record goes on, on the same open file.
StillRunning ==
  /\ call'.op = call.op /\ call.op \notin {"none", "open", "unlink"}
  /\ call'.fd = call.fd /\ IsOpen(call.fd)'
  /\ call.op = "write" => "WRITE" \in Cur'.flags

\* Where fat_next_cluster returns to, with a cluster of the file or with -1.
LEMMA AfterNextSafe ==
  ASSUME StillRunning, NEW c, pc' = AfterNext(c), call'.res = c, Cur'.first # 0,
         c = Bad \/ (c \in Clusters /\ owner'[c] = Cur'.first)
  PROVE  CallInv' /\ SeekInv' /\ pc' \notin FreeLabels
  <1>1. CASE call.next = "walk"
    <2>1. pc' = "walked"
      BY <1>1 DEF AfterNext
    <2> QED BY <2>1 DEF CallInv, SeekInv, StillRunning, FreeLabels, NeedsStored, OwnCluster
  <1>2. CASE call.next # "walk" /\ c # Bad
    <2>1. pc' = "select"
      BY <1>2 DEF AfterNext
    <2> QED BY <1>2, <2>1 DEF CallInv, SeekInv, StillRunning, FreeLabels, NeedsStored, OwnCluster
  <1>3. CASE call.next # "walk" /\ c = Bad
    <2>1. pc' \in {"done", "fail", "case"}
      BY <1>3, SectorFailed DEF AfterNext
    <2> QED BY <2>1, PlainLabel DEF StillRunning, FreeLabels
  <1> QED BY <1>1, <1>2, <1>3

\* Where fat_flush returns to.
LEMMA AfterFlushSafe ==
  ASSUME StillRunning, NEW ok \in BOOLEAN, pc' = AfterFlush(ok),
         call.flush = "seek" /\ Cur'.first = 0 => Cur'.size = 0 /\ call'.old = 0,
         call.flush = "sector" /\ (ok \/ call.seeking) => Cur'.first # 0,
         call.flush = "next" => Cur'.first # 0 /\ (~ok => call'.res = Bad)
  PROVE  CallInv' /\ SeekInv' /\ pc' \notin FreeLabels
  <1>1. CASE call.flush = "seek"
    <2>1. pc' = "seek"
      BY <1>1 DEF AfterFlush
    <2> QED BY <1>1, <2>1 DEF CallInv, SeekInv, StillRunning, FreeLabels, NeedsStored
  <1>2. CASE call.flush = "sector"
    <2>1. pc' \in {"done", "fail"} \cup (IF Cur'.first # 0 THEN {"sector", "case"} ELSE {})
      BY <1>2, SectorFailed DEF AfterFlush
    <2> QED BY <2>1, PlainLabel DEF StillRunning, FreeLabels
  <1>3. CASE call.flush = "next" /\ ok
    <2>1. pc' = "next"
      BY <1>3 DEF AfterFlush
    <2> QED BY <1>3, <2>1, PlainLabel DEF StillRunning, FreeLabels
  <1>4. CASE call.flush = "next" /\ ~ok
    <2>1. pc' = AfterNext(Bad)
      BY <1>4 DEF AfterFlush
    <2> QED BY <1>4, <2>1, AfterNextSafe
  <1>5. CASE call.flush \notin {"seek", "sector", "next"}
    <2>1. pc' \in {"closing", "fail"}
      BY <1>5 DEF AfterFlush
    <2> QED BY <2>1, PlainLabel DEF StillRunning, FreeLabels
  <1> QED BY <1>1, <1>2, <1>3, <1>4, <1>5

\* At a label outside fat_unlink an open file is in hand.
LEMMA Running ==
  ASSUME CallInv, pc \notin FreeLabels \cup {"idle", "done"}
  PROVE  call.op \notin {"none", "open", "unlink"} /\ IsOpen(call.fd)
  BY DEF CallInv, FreeLabels

\* fat_flush of a clean buffer.
LEMMA FlushCleanSafe ==
  ASSUME TypeOK, VolumeInv, FlushClean
  PROVE  VolumeInv'
  <1>1. /\ pc = "flush" /\ "DIRTY" \notin Cur.flags /\ pc' = AfterFlush(TRUE) /\ NoWrite
        /\ UNCHANGED <<fat, dir, disk, owner, file_num, call>> /\ Cur' = Cur
    BY DEF FlushClean, NoWrite, Cur
  <1>2. HandleInv'
    BY <1>1 DEF VolumeInv, HandleInv, ClosedInv, FilesInv, EntryInv, ApartInv, IsOpen, Unstored, StoredFile, Live
  <1>3. StillRunning /\ IsOpen(call.fd)
    BY <1>1, Running DEF VolumeInv, StillRunning, FreeLabels, IsOpen, CallInv
  <1>4. Cur.first = 0 => Cur.size = 0 /\ Cur.cursor = 0
    <2>1. Cur.size \in Nat /\ Cur.cursor \in Nat
      BY CurType, GeometryAssumption DEF FileS
    <2> QED BY <1>1, <1>3, <2>1, CurType DEF VolumeInv, HandleInv, ClosedInv, FilesInv, EntryInv, ApartInv, Unstored, Cur
  <1>5. call.flush = "seek" /\ Cur.first = 0 => call.old = 0
    BY <1>1, <1>4 DEF VolumeInv, SeekInv, TypeOK, Calls
  <1>6. call.flush = "sector" => Cur.first # 0
    BY <1>1, <1>4, GeometryAssumption DEF VolumeInv, CallInv
  <1>7. call.flush = "next" => Cur.first # 0
    BY <1>1 DEF VolumeInv, CallInv, NeedsStored
  <1>8. CallInv' /\ SeekInv' /\ pc' \notin FreeLabels
    BY <1>1, <1>3, <1>4, <1>5, <1>6, <1>7, AfterFlushSafe
  <1> QED BY <1>1, <1>2, <1>8, QuietSafe

\* The open file of the running call lives in its buffer alone, or in clusters
\* of its own.
LEMMA CurStored ==
  ASSUME VolumeInv, IsOpen(call.fd), call.fd \in Handles
  PROVE  /\ Cur.first = 0 => Unstored(Cur)
         /\ Cur.first # 0 => StoredFile(Cur)
         /\ "OPEN" \in Cur.flags
  BY DEF VolumeInv, HandleInv, ClosedInv, FilesInv, EntryInv, ApartInv, Cur, IsOpen

\* A step that moves nothing but the label, and perhaps fields of the call.
LEMMA FilesSame ==
  ASSUME HandleInv, UNCHANGED <<dir, owner, file_num>>
  PROVE  HandleInv'
  BY DEF HandleInv, ClosedInv, FilesInv, EntryInv, ApartInv, IsOpen, Unstored, StoredFile, Live

\* fat_flush finds no cluster for a file.  The seek that got here has been
\* refused when none is free.
LEMMA FlushNoSpaceSafe ==
  ASSUME SafeUse, TypeOK, VolumeInv, FlushNoSpace
  PROVE  VolumeInv'
  <1>1. /\ pc = "flush" /\ "DIRTY" \in Cur.flags /\ VolumeFull /\ pc' = AfterFlush(FALSE)
        /\ UNCHANGED <<fat, dir, owner, file_num, call>> /\ Cur' = Cur
    BY DEF FlushNoSpace, Cur, SafeUse, Fault, NoWrite
  <1>2. HandleInv'
    BY <1>1, FilesSame DEF VolumeInv
  <1>3. StillRunning
    BY <1>1, Running DEF VolumeInv, StillRunning, FreeLabels, IsOpen, CallInv
  <1>4. ~(call.flush = "seek" /\ Cur.first = 0)
    BY <1>1 DEF VolumeInv, SeekInv, VolumeFull
  <1>5. call.flush = "sector" /\ call.seeking => Cur.first # 0
    BY <1>1 DEF VolumeInv, CallInv, NeedsStored
  <1>6. call.flush = "next" => Cur.first # 0 /\ call.res = Bad
    BY <1>1 DEF VolumeInv, CallInv, NeedsStored
  <1>7. CallInv' /\ SeekInv' /\ pc' \notin FreeLabels
    BY <1>1, <1>3, <1>4, <1>5, <1>6, AfterFlushSafe
  <1> QED BY <1>1, <1>2, <1>7, QuietSafe

\* fat_flush gives a file its first cluster.
LEMMA FlushAllocateSafe ==
  ASSUME TypeOK, VolumeInv, NEW k \in FatIndex, FlushAllocate(k)
  PROVE  VolumeInv'
  <1>1. k \in Clusters /\ fat[k] = 0 /\ owner[k] = 0
    BY FreeIsCluster DEF FlushAllocate, VolumeInv
  <1> DEFINE f == [Cur EXCEPT !.first = k, !.cluster = k, !.sector = SectorOf(k),
                              !.sectors_left = SectorsPerCluster - 1,
                              !.flags = @ \cup {"FS_DIRTY"}]
  <1>2. /\ pc = "flush" /\ Claim(k, k) /\ pc' = "data" /\ SetCur(f)
        /\ dir' = dir /\ call' = call
    BY <1>1, Markers DEF FlushAllocate
  <1>3. IsOpen(call.fd) /\ call.fd \in Handles /\ Cur \in FileS /\ call.op \notin {"none", "open", "unlink"}
    BY <1>2, Running, CurType DEF VolumeInv, FreeLabels
  <1>4. /\ f.first = k /\ f.cluster = k /\ f.name = Cur.name /\ f.entry = Cur.entry
        /\ f.flags = Cur.flags \cup {"FS_DIRTY"}
    BY <1>3 DEF FileS
  <1> HIDE DEF f
  <1>5. Cur' = f /\ file_num'[call.fd] = f /\ \A h \in Handles : h # call.fd => file_num'[h] = file_num[h]
    BY <1>2, CurAfter DEF Cur
  <1>6. /\ FatInv' /\ owner'[k] = k /\ \A c \in Clusters : owner[c] # 0 => owner'[c] = owner[c]
    BY <1>1, <1>2, ClaimKeeps DEF VolumeInv
  <1>7. DirInv'
    BY <1>2, <1>6, DirKept DEF VolumeInv
  <1>8. HandleInv'
    <2>1. \A s \in Slots : Live(s)' = Live(s) /\ (Live(s) => dir[s].first # k)
      BY <1>1, <1>2, Markers DEF VolumeInv, DirInv, Live
    <2>0. ClosedInv /\ FilesInv /\ EntryInv /\ ApartInv /\ 0 \notin Clusters
      BY Markers DEF VolumeInv, HandleInv
    <2>2. \A h \in Handles : IsOpen(h) => file_num[h].first # k
      BY <1>1, <2>0 DEF FilesInv, StoredFile
    <2>3. \A h \in Handles : /\ IsOpen(h)' = IsOpen(h)
                             /\ file_num'[h].name = file_num[h].name
                             /\ file_num'[h].entry = file_num[h].entry
                             /\ file_num'[h].first = IF h = call.fd THEN k ELSE file_num[h].first
      BY <1>3, <1>4, <1>5 DEF IsOpen, Cur
    <2>4. ClosedInv'
      BY <1>3, <1>5, <2>3 DEF VolumeInv, HandleInv, ClosedInv
    <2>5. FilesInv'
      <3>1. ASSUME NEW h \in Handles, IsOpen(h)', h # call.fd
            PROVE  IF file_num'[h].first = 0 THEN Unstored(file_num[h])' ELSE StoredFile(file_num[h])'
        BY <1>5, <1>6, <2>0, <2>3, <3>1 DEF FilesInv, StoredFile, Unstored
      <3>2. ASSUME NEW h \in Handles, h = call.fd
            PROVE  StoredFile(file_num[h])' /\ file_num'[h].first # 0
        BY <1>1, <1>4, <1>5, <1>6, <2>0, <3>2 DEF StoredFile
      <3>3. ASSUME NEW h \in Handles, IsOpen(h)'
            PROVE  /\ file_num'[h].name \in Names
                   /\ IF file_num'[h].first = 0 THEN Unstored(file_num[h])' ELSE StoredFile(file_num[h])'
        BY <1>1, <2>0, <2>3, <3>1, <3>2, <3>3 DEF FilesInv
      <3> QED BY <3>3 DEF FilesInv
    <2>6. EntryInv'
      BY <1>2, <2>1, <2>3 DEF VolumeInv, HandleInv, EntryInv, Live
    <2>7. ApartInv'
      BY <2>2, <2>3 DEF VolumeInv, HandleInv, ApartInv
    <2> QED BY <2>4, <2>5, <2>6, <2>7 DEF HandleInv
  <1>9. CallInv'
    <2>1. IsOpen(call.fd)' /\ Cur'.first # 0 /\ (call.op = "write" => "WRITE" \in Cur'.flags)
      BY <1>1, <1>2, <1>3, <1>4, <1>5, Markers DEF VolumeInv, CallInv, IsOpen, Cur
    <2> QED BY <1>2, <1>3, <2>1 DEF VolumeInv, CallInv, FreeLabels, NeedsStored
  <1> QED BY <1>2, <1>6, <1>7, <1>8, <1>9 DEF VolumeInv, SeekInv, FreeInv

\* fat_flush writes the buffer.
LEMMA FlushWriteSafe ==
  ASSUME TypeOK, VolumeInv, FlushWrite
  PROVE  VolumeInv'
  <1> DEFINE f == [Cur EXCEPT !.flags = @ \ {"DIRTY"}]
  <1>1. /\ SetCur(f) /\ UNCHANGED <<fat, dir, owner>> /\ pc \in {"data", "flush"}
        /\ pc = "flush" => Cur.sector # 0 /\ pc' = AfterFlush(TRUE) /\ call' = call
        /\ pc = "data" => pc' = "info" /\ call' = [call EXCEPT !.info = "flush"]
    BY DEF FlushWrite
  <1>2. /\ IsOpen(call.fd) /\ call.fd \in Handles /\ Cur \in FileS /\ call \in Calls
        /\ call.op \notin {"none", "open", "unlink"}
    BY <1>1, Running, CurType DEF VolumeInv, FreeLabels, TypeOK
  <1>3. Cur.first # 0 /\ StoredFile(Cur) /\ "OPEN" \in Cur.flags
    <2>1. CASE pc = "data"
      BY <1>2, <2>1, CurStored DEF VolumeInv, CallInv, NeedsStored
    <2>2. CASE pc = "flush"
      BY <1>1, <1>2, <2>2, CurStored DEF Unstored
    <2> QED BY <1>1, <2>1, <2>2
  <1>4. /\ f.first = Cur.first /\ f.cluster = Cur.cluster /\ f.name = Cur.name
        /\ f.entry = Cur.entry /\ f.flags = Cur.flags \ {"DIRTY"}
    BY <1>2 DEF FileS
  <1> HIDE DEF f
  <1>5. HandleInv'
    BY <1>1, <1>2, <1>3, <1>4, FileKept DEF VolumeInv, StoredFile
  <1>6. call'.fd = call.fd /\ call'.op = call.op
    BY <1>1, <1>2 DEF Calls
  <1>7. Cur' = f
    BY <1>1, <1>6, CurAfter
  <1>8. StillRunning /\ Cur'.first # 0
    <2>1. IsOpen(call.fd)'
      BY <1>3, <1>4, <1>6, <1>7 DEF IsOpen, Cur
    <2>2. call.op = "write" => "WRITE" \in Cur.flags
      BY <1>1 DEF VolumeInv, CallInv
    <2> QED BY <1>2, <1>3, <1>4, <1>6, <1>7, <2>1, <2>2 DEF StillRunning
  <1>9. CallInv' /\ SeekInv' /\ pc' \notin FreeLabels
    <2>1. CASE pc = "data"
      <3>1. pc' = "info" /\ call'.info = "flush"
        BY <1>1, <1>2, <2>1 DEF Calls
      <3> QED BY <1>8, <3>1 DEF CallInv, SeekInv, StillRunning, FreeLabels, NeedsStored
    <2>2. CASE pc = "flush"
      BY <1>1, <1>8, <2>2, AfterFlushSafe
    <2> QED BY <1>1, <2>1, <2>2
  <1> QED BY <1>1, <1>5, <1>9, QuietSafe

\* fat_flush fails to write the buffer.
LEMMA FlushWriteFailsSafe ==
  ASSUME TypeOK, VolumeInv, FlushWriteFails
  PROVE  VolumeInv'
  <1>1. /\ UNCHANGED <<fat, dir, owner, file_num, call>> /\ Cur' = Cur
        /\ pc \in {"data", "flush"} /\ pc' = AfterFlush(FALSE)
        /\ pc = "flush" => Cur.sector # 0
    BY DEF FlushWriteFails, NoWrite, Cur
  <1>2. IsOpen(call.fd) /\ call.fd \in Handles /\ call.op \notin {"none", "open", "unlink"}
    BY <1>1, Running, CurType DEF VolumeInv, FreeLabels
  <1>3. Cur.first # 0
    <2>1. CASE pc = "data"
      BY <2>1 DEF VolumeInv, CallInv, NeedsStored
    <2>2. CASE pc = "flush"
      BY <1>1, <1>2, <2>2, CurStored DEF Unstored
    <2> QED BY <1>1, <2>1, <2>2
  <1>4. StillRunning
    BY <1>1, <1>2 DEF VolumeInv, StillRunning, IsOpen, CallInv
  <1>5. call.flush = "next" => call.res = Bad
    BY <1>1 DEF VolumeInv, CallInv
  <1>6. CallInv' /\ SeekInv' /\ pc' \notin FreeLabels
    BY <1>1, <1>3, <1>4, <1>5, AfterFlushSafe
  <1>7. HandleInv'
    BY <1>1, FilesSame DEF VolumeInv
  <1> QED BY <1>1, <1>6, <1>7, QuietSafe

\* Where fat_flush_fileinfo returns to.
LEMMA AfterInfoSafe ==
  ASSUME StillRunning, NEW ok \in BOOLEAN, pc' = AfterInfo(ok), call' = call,
         call.info # "close" => Cur'.first # 0,
         call.info = "next" => call.res \in Clusters /\ owner'[call.res] = Cur'.first
  PROVE  CallInv' /\ SeekInv' /\ pc' \notin FreeLabels
  <1>1. CASE call.info = "flush"
    <2>1. pc' = AfterFlush(TRUE)
      BY <1>1 DEF AfterInfo
    <2> QED BY <1>1, <2>1, AfterFlushSafe
  <1>2. CASE call.info = "next"
    <2>1. pc' = AfterNext(call.res)
      BY <1>2 DEF AfterInfo
    <2> QED BY <1>2, <2>1, AfterNextSafe
  <1>3. CASE call.info \notin {"flush", "next"}
    <2>1. pc' \in {"done", "fail"}
      BY <1>3 DEF AfterInfo
    <2> QED BY <2>1, PlainLabel DEF StillRunning, FreeLabels
  <1> QED BY <1>1, <1>2, <1>3

\* What fat_flush_fileinfo knows of the running call.
LEMMA AtInfo ==
  ASSUME TypeOK, VolumeInv, pc = "info"
  PROVE  /\ IsOpen(call.fd) /\ call.fd \in Handles /\ Cur \in FileS /\ call \in Calls
         /\ call.op \notin {"none", "open", "unlink"}
         /\ call.op = "write" => "WRITE" \in Cur.flags
         /\ call.info # "close" => Cur.first # 0
         /\ call.info = "next" => call.res \in Clusters /\ owner[call.res] = Cur.first
  <1>1. IsOpen(call.fd) /\ call.op \notin {"none", "open", "unlink"}
    BY Running DEF VolumeInv, FreeLabels
  <1>2. call.fd \in Handles /\ Cur \in FileS /\ call \in Calls
    BY CurType DEF TypeOK
  <1> QED BY <1>1, <1>2 DEF VolumeInv, CallInv, NeedsStored, OwnCluster

\* fat_flush_fileinfo has nothing to do, cannot read the entry's block, or finds
\* no place for the entry.
LEMMA InfoSkipSafe ==
  ASSUME TypeOK, VolumeInv, InfoSkip \/ InfoUnreadable \/ InfoLost
  PROVE  VolumeInv'
  <1>1. /\ UNCHANGED <<fat, dir, owner, file_num, call>> /\ Cur' = Cur
        /\ pc = "info" /\ pc' \in {AfterInfo(TRUE), AfterInfo(FALSE), "lost"}
    BY DEF InfoSkip, InfoUnreadable, InfoLost, NoWrite, Cur
  <1>2. StillRunning
    BY <1>1, AtInfo DEF StillRunning, IsOpen
  <1>3. CallInv' /\ SeekInv' /\ pc' \notin FreeLabels
    <2>1. CASE pc' = "lost"
      BY <1>2, <2>1, PlainLabel DEF StillRunning, FreeLabels
    <2>2. CASE pc' \in {AfterInfo(TRUE), AfterInfo(FALSE)}
      BY <1>1, <1>2, <2>2, AtInfo, AfterInfoSafe
    <2> QED BY <1>1, <2>1, <2>2
  <1>4. HandleInv'
    BY <1>1, FilesSame DEF VolumeInv
  <1> QED BY <1>1, <1>3, <1>4, QuietSafe

\* fat_flush_fileinfo writes the entry of the file: its own, or the first empty
\* one, and no other live entry has the file's name or its first cluster.
LEMMA InfoWriteSafe ==
  ASSUME TypeOK, VolumeInv, NEW s \in Slots, InfoWrite(s)
  PROVE  VolumeInv'
  <1>1. PICK f : /\ SetCur(f)
                 /\ f \in {Saved(Cur, s), [Cur EXCEPT !.entry = s, !.buffer = MetaBlock]}
                 /\ \E ok \in BOOLEAN : pc' = AfterInfo(ok)
    BY DEF InfoWrite
  <1>2. /\ pc = "info" /\ call' = call /\ fat' = fat /\ owner' = owner
        /\ dir' = [dir EXCEPT ![s] = EntryOf(Cur)]
        /\ Cur.first # 0 /\ EntrySlot(s)
    BY DEF InfoWrite, NothingToSave
  <1>3. IsOpen(call.fd) /\ call.fd \in Handles /\ Cur \in FileS
    BY <1>2, AtInfo
  <1>4. /\ f.entry = s /\ f.name = Cur.name /\ f.first = Cur.first /\ f.cluster = Cur.cluster
        /\ \A x \in {"OPEN", "WRITE"} : x \in f.flags <=> x \in Cur.flags
    <2>1. CASE f = Saved(Cur, s)
      BY <1>3, <2>1 DEF Saved, FileS
    <2>2. CASE f = [Cur EXCEPT !.entry = s, !.buffer = MetaBlock]
      BY <1>3, <2>2 DEF FileS
    <2> QED BY <1>1, <2>1, <2>2
  <1>5. Cur' = f /\ \A h \in Handles : h # call.fd => file_num'[h] = file_num[h]
    BY <1>1, <1>2, CurAfter
  <1>6. \A h \in Handles : /\ IsOpen(h)' <=> IsOpen(h)
                           /\ file_num'[h].name = file_num[h].name
                           /\ file_num'[h].first = file_num[h].first
                           /\ file_num'[h].entry = IF h = call.fd THEN s ELSE file_num[h].entry
    BY <1>2, <1>3, <1>4, <1>5 DEF IsOpen, Cur
  <1>7. ClosedInv /\ FilesInv /\ EntryInv /\ ApartInv /\ 0 \notin Slots
    BY GeometryAssumption DEF VolumeInv, HandleInv, Slots
  <1>8. StoredFile(Cur)
    BY <1>2, <1>3, CurStored
  <1>9. \A t \in Slots : Live(t) /\ t # s => dir[t].name # Cur.name /\ dir[t].first # Cur.first
    BY <1>2, <1>3, <1>7 DEF EntryInv, EntrySlot, Cur
  <1>10. /\ dir'[s] = EntryOf(Cur) /\ Live(s)'
         /\ \A t \in Slots : t # s => dir'[t] = dir[t] /\ (Live(t)' <=> Live(t))
    BY <1>2 DEF TypeOK, Live, EntryOf
  <1>11. DirInv'
    <2>1. \A t \in Slots : Live(t)' => dir'[t].first \in Clusters /\ owner'[dir'[t].first] = dir'[t].first
      BY <1>2, <1>8, <1>10 DEF VolumeInv, DirInv, StoredFile, EntryOf
    <2>2. \A t, u \in Slots : Live(t)' /\ Live(u)' /\ t # u =>
            dir'[t].first # dir'[u].first /\ dir'[t].name # dir'[u].name
      BY <1>9, <1>10 DEF VolumeInv, DirInv, EntryOf
    <2>3. \A t \in Slots : dir[t].kind = "end" => ~(t < s)
      <3>1. CASE Cur.entry = 0
        BY <1>2, <3>1 DEF EntrySlot, FirstEmptySlot, Slots
      <3>2. CASE Cur.entry # 0
        BY <1>2, <1>3, <1>7, <3>2 DEF EntrySlot, EntryInv, Live, VolumeInv, DirInv, Cur
      <3> QED BY <3>1, <3>2
    <2>4. \A t, u \in Slots : dir'[t].kind = "end" /\ t < u => dir'[u].kind = "end"
      BY <1>10, <2>3 DEF VolumeInv, DirInv, EntryOf
    <2> QED BY <2>1, <2>2, <2>4 DEF DirInv
  <1>12. HandleInv'
    <2>1. ClosedInv'
      BY <1>3, <1>5, <1>6, <1>7 DEF ClosedInv
    <2>2. FilesInv'
      <3>1. ASSUME NEW h \in Handles, IsOpen(h)'
            PROVE  IF file_num'[h].first = 0 THEN Unstored(file_num[h])' ELSE StoredFile(file_num[h])'
        BY <1>2, <1>4, <1>5, <1>6, <1>7, <3>1 DEF FilesInv, Unstored, StoredFile, Cur
      <3> QED BY <1>6, <1>7, <3>1 DEF FilesInv
    <2>3. EntryInv'
      <3>1. \A h \in Handles : IsOpen(h) /\ h # call.fd => file_num[h].entry # s
        BY <1>2, <1>3, <1>7 DEF EntryInv, ApartInv, EntrySlot, FirstEmptySlot, Live, Cur
      <3>2. \A h \in Handles : IsOpen(h) /\ h # call.fd =>
              file_num[h].name # Cur.name /\ file_num[h].first # Cur.first
        BY <1>2, <1>3, <1>7 DEF ApartInv, Cur
      <3>3. ASSUME NEW h \in Handles, IsOpen(h), h # call.fd, file_num[h].entry # 0
            PROVE  /\ dir'[file_num[h].entry].kind = "file"
                   /\ dir'[file_num[h].entry].name = file_num[h].name
        <4>1. file_num[h].entry \in Slots
          <5>1. file_num[h] \in FileS
            BY DEF TypeOK
          <5>2. file_num[h].entry \in 0 .. DirSlots
            BY <5>1 DEF FileS
          <5> QED BY <3>3, <5>2, GeometryAssumption DEF Slots
        <4>2. file_num[h].entry # s
          BY <3>1, <3>3
        <4>3. Live(file_num[h].entry) /\ dir[file_num[h].entry].name = file_num[h].name
          BY <1>7, <3>3 DEF EntryInv
        <4> QED BY <1>10, <4>1, <4>2, <4>3 DEF Live
      <3>4. ASSUME NEW h \in Handles, IsOpen(h), h # call.fd, NEW t \in Slots, Live(t)', t # file_num[h].entry
            PROVE  dir'[t].name # file_num[h].name /\ dir'[t].first # file_num[h].first
        BY <1>7, <1>10, <3>2, <3>4 DEF EntryInv, EntryOf
      <3>5. ASSUME NEW h \in Handles, h = call.fd
            PROVE  /\ file_num'[h].entry = s /\ dir'[s].name = file_num'[h].name
                   /\ \A t \in Slots : Live(t)' /\ t # s =>
                        dir'[t].name # file_num'[h].name /\ dir'[t].first # file_num'[h].first
        BY <1>6, <1>9, <1>10, <3>5 DEF EntryOf, Cur
      <3> QED BY <1>6, <1>10, <3>3, <3>4, <3>5 DEF EntryInv, Live
    <2>4. ApartInv'
      BY <1>6, <1>7 DEF ApartInv
    <2> QED BY <2>1, <2>2, <2>3, <2>4 DEF HandleInv
  <1>13. CallInv' /\ SeekInv' /\ pc' \notin FreeLabels
    <2>1. StillRunning
      BY <1>2, <1>3, <1>4, <1>5, <1>6, AtInfo DEF StillRunning
    <2>2. PICK ok \in BOOLEAN : pc' = AfterInfo(ok)
      BY <1>1
    <2> QED BY <1>2, <1>4, <1>5, <2>1, <2>2, AtInfo, AfterInfoSafe
  <1>14. FatInv'
    BY <1>2 DEF VolumeInv, FatInv
  <1> QED BY <1>11, <1>12, <1>13, <1>14 DEF VolumeInv, FreeInv, FreeLabels

\* A step of a call on a file that has clusters, which moves the file to a
\* cluster of its own, or to none, and writes neither FAT nor directory.
LEMMA StoredMoves ==
  ASSUME TypeOK, VolumeInv, UNCHANGED <<fat, dir, owner>>,
         pc \notin FreeLabels \cup {"idle", "done"},
         call'.op = call.op, call'.fd = call.fd, Cur.first # 0,
         NEW f, SetCur(f), f.name = Cur.name, f.first = Cur.first, f.entry = Cur.entry,
         f.flags = Cur.flags,
         f.cluster \in {Cur.cluster, Bad} \/ OwnCluster(f.cluster)
  PROVE  HandleInv' /\ StillRunning /\ Cur'.first = Cur.first /\ Cur'.cluster = f.cluster
  <1>1. IsOpen(call.fd) /\ call.fd \in Handles /\ call.op \notin {"none", "open", "unlink"}
    BY Running, CurType DEF VolumeInv
  <1>2. StoredFile(Cur) /\ "OPEN" \in Cur.flags
    BY <1>1, CurStored
  <1>3. HandleInv'
    BY <1>1, <1>2, FileKept DEF VolumeInv, StoredFile, OwnCluster
  <1>4. Cur' = f
    BY CurAfter
  <1>5. call.op = "write" => "WRITE" \in Cur.flags
    BY DEF VolumeInv, CallInv, FreeLabels
  <1>6. IsOpen(call.fd)'
    BY <1>2, <1>4 DEF IsOpen, Cur
  <1> QED BY <1>1, <1>3, <1>4, <1>5, <1>6 DEF StillRunning

\* A step that leaves the open files alone sets the file in hand to itself.
LEMMA SameCur ==
  ASSUME TypeOK, UNCHANGED file_num
  PROVE  SetCur(Cur)
  BY CurType DEF TypeOK, SetCur, Cur

\* The file in hand at a label of fat_next_sector and fat_next_cluster.
LEMMA AtStored ==
  ASSUME TypeOK, VolumeInv, pc \in {"sector", "next", "chain", "select", "walk", "walked"}
  PROVE  /\ pc \notin FreeLabels \cup {"idle", "done"}
         /\ Cur.first # 0 /\ StoredFile(Cur) /\ Cur \in FileS /\ call \in Calls
         /\ IsOpen(call.fd)
  <1>1. IsOpen(call.fd) /\ Cur.first # 0
    BY Running DEF VolumeInv, FreeLabels, CallInv, NeedsStored
  <1>2. call.fd \in Handles /\ Cur \in FileS /\ call \in Calls
    BY CurType DEF TypeOK
  <1> QED BY <1>1, <1>2, CurStored DEF FreeLabels

\* fat_next_sector goes on to the next sector of the cluster.
LEMMA SectorHopSafe ==
  ASSUME TypeOK, VolumeInv, SectorHop
  PROVE  VolumeInv'
  <1>1. pc = "sector" /\ UNCHANGED <<fat, dir, owner, call>> /\ \E ok \in BOOLEAN : pc' = AfterSector(ok)
    BY DEF SectorHop, NoWrite
  <1>2. Cur \in FileS /\ Cur.first # 0 /\ pc \notin FreeLabels \cup {"idle", "done"}
    BY <1>1, AtStored
  <1>3. PICK f : SetCur(f) /\ f.name = Cur.name /\ f.first = Cur.first /\ f.entry = Cur.entry
                 /\ f.flags = Cur.flags /\ f.cluster = Cur.cluster
    <2> DEFINE s == (Cur.sector + 1) % Word
               g == [Cur EXCEPT !.sectors_left = @ - 1, !.file_sector = @ + 1,
                                !.cursor = 0, !.sector = s]
    <2>1. SetCur(g) \/ SetCur([g EXCEPT !.buffer = disk[s]])
      BY DEF SectorHop
    <2>2. g.name = Cur.name /\ g.first = Cur.first /\ g.entry = Cur.entry
          /\ g.flags = Cur.flags /\ g.cluster = Cur.cluster
      BY <1>2 DEF FileS
    <2>3. \A b : [g EXCEPT !.buffer = b].name = Cur.name /\ [g EXCEPT !.buffer = b].first = Cur.first
                 /\ [g EXCEPT !.buffer = b].entry = Cur.entry
                 /\ [g EXCEPT !.buffer = b].flags = Cur.flags /\ [g EXCEPT !.buffer = b].cluster = Cur.cluster
      BY <1>2 DEF FileS
    <2> QED BY <2>1, <2>2, <2>3
  <1>4. HandleInv' /\ StillRunning /\ Cur'.first = Cur.first
    BY <1>1, <1>2, <1>3, StoredMoves
  <1>5. pc' \in {"done", "fail", "case"} \cup (IF call.seeking THEN {} ELSE {"byte"})
    BY <1>1 DEF AfterSector
  <1>6. CallInv' /\ SeekInv' /\ pc' \notin FreeLabels
    BY <1>1, <1>2, <1>4, <1>5, PlainLabel DEF StillRunning, FreeLabels
  <1> QED BY <1>1, <1>4, <1>6, QuietSafe

\* Updates of a file's position and buffer leave its identity alone.
SameFile(f) == /\ f.name = Cur.name /\ f.first = Cur.first /\ f.entry = Cur.entry
               /\ f.flags = Cur.flags

\* fat_next_sector leaves the cluster.
LEMMA SectorEndSafe ==
  ASSUME TypeOK, VolumeInv, SectorEnd
  PROVE  VolumeInv'
  <1>1. /\ pc = "sector" /\ UNCHANGED <<fat, dir, owner, file_num>> /\ pc' = "next"
        /\ call' = [call EXCEPT !.next = "sector", !.res = Bad]
    BY DEF SectorEnd, NoWrite
  <1>2. call'.fd = call.fd /\ call'.op = call.op /\ call'.seeking = call.seeking
    BY <1>1, AtStored DEF Calls
  <1>3. HandleInv' /\ StillRunning /\ Cur'.first = Cur.first
    BY <1>1, <1>2, AtStored, SameCur, StoredMoves
  <1>4. CallInv' /\ SeekInv' /\ pc' \notin FreeLabels
    BY <1>1, <1>3, AtStored, PlainLabel DEF StillRunning, FreeLabels
  <1> QED BY <1>1, <1>3, <1>4, QuietSafe

\* fat_select_cluster moves the file to the cluster fat_next_cluster returned.
LEMMA SelectClusterSafe ==
  ASSUME TypeOK, VolumeInv, SelectCluster
  PROVE  VolumeInv'
  <1>1. /\ pc = "select" /\ UNCHANGED <<fat, dir, owner, call>>
        /\ \E ok \in BOOLEAN : pc' = AfterSector(ok)
    BY DEF SelectCluster, NoWrite
  <1>2. /\ Cur \in FileS /\ Cur.first # 0 /\ pc \notin FreeLabels \cup {"idle", "done"}
        /\ OwnCluster(call.res)
    BY <1>1, AtStored DEF VolumeInv, CallInv
  <1>3. PICK f : SetCur(f) /\ SameFile(f) /\ f.cluster = call.res
    <2> DEFINE g == [Cur EXCEPT !.file_sector = @ + 1, !.sector = SectorOf(call.res),
                                !.sectors_left = SectorsPerCluster - 1,
                                !.cluster = call.res, !.cursor = 0]
               gb == [g EXCEPT !.buffer = disk[SectorOf(call.res)]]
    <2>1. SetCur(g) \/ SetCur(gb)
      BY DEF SelectCluster
    <2>2. SameFile(g) /\ g.cluster = call.res
      BY <1>2 DEF FileS, SameFile
    <2>3. SameFile(gb) /\ gb.cluster = call.res
      BY <1>2 DEF FileS, SameFile
    <2> HIDE DEF g, gb
    <2> QED BY <2>1, <2>2, <2>3
  <1>4. HandleInv' /\ StillRunning /\ Cur'.first = Cur.first
    BY <1>1, <1>2, <1>3, StoredMoves DEF SameFile
  <1>5. pc' \in {"done", "fail", "case"} \cup (IF call.seeking THEN {} ELSE {"byte"})
    BY <1>1 DEF AfterSector
  <1>6. CallInv' /\ SeekInv' /\ pc' \notin FreeLabels
    BY <1>1, <1>2, <1>4, <1>5, PlainLabel DEF StillRunning, FreeLabels
  <1> QED BY <1>1, <1>4, <1>6, QuietSafe

\* fat_next_cluster returns -1, or a cluster of the file, with or without the
\* FAT block in the file's buffer.
LEMMA NextReturnSafe ==
  ASSUME TypeOK, VolumeInv, NEW c, NextReturn(c), c = Bad \/ OwnCluster(c),
         UNCHANGED <<fat, dir, owner>>, pc \in {"next", "chain"},
         UNCHANGED file_num \/ SetCur([Cur EXCEPT !.buffer = MetaBlock])
  PROVE  VolumeInv'
  <1>1. Cur \in FileS /\ Cur.first # 0 /\ pc \notin FreeLabels \cup {"idle", "done"}
        /\ call \in Calls
    BY AtStored
  <1>2. PICK f : SetCur(f) /\ SameFile(f) /\ f.cluster = Cur.cluster
    <2>1. SameFile(Cur)
      BY DEF SameFile
    <2>2. /\ SameFile([Cur EXCEPT !.buffer = MetaBlock])
          /\ [Cur EXCEPT !.buffer = MetaBlock].cluster = Cur.cluster
      BY <1>1 DEF SameFile, FileS
    <2> QED BY <2>1, <2>2, SameCur
  <1>3. call'.fd = call.fd /\ call'.op = call.op /\ call'.res = c /\ pc' = AfterNext(c)
    BY <1>1 DEF NextReturn, Calls
  <1>4. HandleInv' /\ StillRunning /\ Cur'.first = Cur.first
    BY <1>1, <1>2, <1>3, StoredMoves DEF SameFile
  <1>5. CallInv' /\ SeekInv' /\ pc' \notin FreeLabels
    BY <1>1, <1>3, <1>4, AfterNextSafe DEF OwnCluster
  <1> QED BY <1>4, <1>5, QuietSafe

\* fat_next_cluster follows a link, fails, or finds the volume full.
LEMMA NextReturnsSafe ==
  ASSUME TypeOK, VolumeInv, NextLink \/ NextEnd \/ NextUnreadable \/ NextChainFails
  PROVE  VolumeInv'
  <1>1. CASE NextLink
    <2>1. pc = "next" /\ Cur.cluster \in FatIndex /\ fat[Cur.cluster] < EndMarker
      BY <1>1 DEF NextLink
    <2>2. Cur.cluster \in Clusters /\ owner[Cur.cluster] = Cur.first /\ Cur.first # 0
      BY <2>1, AtStored, Markers DEF StoredFile
    <2>3. fat[Cur.cluster] \in Clusters /\ OwnCluster(fat[Cur.cluster])
      <3>1. fat[Cur.cluster] # EndMarker
        BY <2>1, GeometryAssumption DEF EndMarker
      <3> QED BY <2>1, <2>2, <3>1, Markers DEF VolumeInv, FatInv, OwnCluster
    <2>4. ~(fat[Cur.cluster] < 2)
      BY <2>3, GeometryAssumption DEF Clusters
    <2>5. NextReturn(fat[Cur.cluster])
      BY <1>1, <2>4 DEF NextLink
    <2> QED BY <1>1, <2>3, <2>5, NextReturnSafe DEF NextLink, NoWrite
  <1>2. CASE NextEnd
    BY <1>2, NextReturnSafe DEF NextEnd, NoWrite
  <1>3. CASE NextUnreadable
    BY <1>3, NextReturnSafe DEF NextUnreadable, NoWrite
  <1>4. CASE NextChainFails
    BY <1>4, NextReturnSafe DEF NextChainFails, NoWrite
  <1> QED BY <1>1, <1>2, <1>3, <1>4

\* fat_next_cluster takes a free cluster, which no chain leads to yet.
LEMMA NextAllocateSafe ==
  ASSUME TypeOK, VolumeInv, NEW k \in FatIndex, NextAllocate(k)
  PROVE  VolumeInv'
  <1>1. k \in Clusters /\ fat[k] = 0 /\ owner[k] = 0
    BY FreeIsCluster DEF NextAllocate, VolumeInv
  <1> DEFINE f == [Cur EXCEPT !.buffer = MetaBlock]
  <1>2. /\ pc = "next" /\ Cur.cluster \in FatIndex /\ fat[Cur.cluster] = EndMarker
        /\ Claim(k, Cur.first) /\ SetCur(f) /\ dir' = dir
        /\ pc' = "chain" /\ call' = [call EXCEPT !.res = k]
    BY <1>1, Markers DEF NextAllocate
  <1>3. /\ Cur.first # 0 /\ StoredFile(Cur) /\ Cur \in FileS /\ call \in Calls
        /\ IsOpen(call.fd) /\ call.op \notin {"none", "open", "unlink"}
    BY <1>2, AtStored, Running DEF VolumeInv, FreeLabels
  <1>4. SameFile(f) /\ f.cluster = Cur.cluster
    BY <1>3 DEF SameFile, FileS
  <1> HIDE DEF f
  <1>5. Cur.cluster \in Clusters /\ owner[Cur.cluster] = Cur.first /\ Cur.first \in Clusters
    BY <1>2, <1>3, Markers DEF StoredFile
  <1>6. /\ FatInv' /\ owner'[k] = Cur.first /\ fat'[k] = EndMarker
        /\ \A c \in Clusters : fat'[c] # k
        /\ \A c \in Clusters : owner[c] # 0 => owner'[c] = owner[c] /\ fat'[c] = fat[c]
    BY <1>1, <1>2, <1>5, ClaimKeeps DEF VolumeInv
  <1>7. DirInv'
    BY <1>2, <1>6, DirKept DEF VolumeInv
  <1>8. call'.fd = call.fd /\ call'.op = call.op /\ call'.res = k
    BY <1>2, <1>3 DEF Calls
  <1>9. Cur' = f
    BY <1>2, <1>8, CurAfter
  <1>10. IsOpen(call.fd) /\ call.fd \in Handles /\ "OPEN" \in Cur.flags
    BY <1>3, CurType, CurStored
  <1>11. HandleInv'
    BY <1>2, <1>3, <1>4, <1>5, <1>6, <1>10, FileKept DEF VolumeInv, SameFile
  <1>12. StillRunning
    <2>1. IsOpen(call.fd)'
      BY <1>4, <1>8, <1>9, <1>10 DEF SameFile, IsOpen, Cur
    <2>2. call.op = "write" => "WRITE" \in Cur.flags
      BY <1>2 DEF VolumeInv, CallInv
    <2> QED BY <1>3, <1>4, <1>8, <1>9, <2>1, <2>2 DEF StillRunning, SameFile
  <1>13. /\ k # Cur.first /\ k # Cur.cluster
         /\ fat'[Cur.cluster] = EndMarker
    BY <1>1, <1>2, <1>3, <1>5, <1>6 DEF StoredFile
  <1>14. CallInv'
    BY <1>1, <1>2, <1>3, <1>4, <1>5, <1>6, <1>8, <1>9, <1>12, <1>13
       DEF CallInv, StillRunning, FreeLabels, NeedsStored, OwnCluster, SameFile
  <1> QED BY <1>2, <1>6, <1>7, <1>11, <1>14 DEF VolumeInv, SeekInv, FreeInv

\* fat_next_cluster points the old end of the chain at the new cluster.
LEMMA NextChainSafe ==
  ASSUME TypeOK, VolumeInv, NextChain
  PROVE  VolumeInv'
  <1>1. /\ pc = "chain" /\ fat' = [fat EXCEPT ![Cur.cluster] = call.res]
        /\ UNCHANGED <<dir, owner, file_num>> /\ pc' = "info"
        /\ call' = [call EXCEPT !.info = "next"]
    BY DEF NextChain
  <1>2. /\ OwnCluster(call.res) /\ call.res # Cur.first
        /\ \A c \in Clusters : fat[c] # call.res
        /\ Cur.cluster \in Clusters /\ fat[Cur.cluster] = EndMarker
    BY <1>1 DEF VolumeInv, CallInv
  <1>3. /\ Cur.first # 0 /\ StoredFile(Cur) /\ call \in Calls /\ IsOpen(call.fd)
        /\ call.op \notin {"none", "open", "unlink"}
    BY <1>1, AtStored, Running DEF VolumeInv, FreeLabels
  <1>4. owner[Cur.cluster] = Cur.first
    BY <1>2, <1>3, Markers DEF StoredFile
  <1>5. \A c \in FatIndex : fat'[c] = IF c = Cur.cluster THEN call.res ELSE fat[c]
    BY <1>1 DEF TypeOK
  <1>6. FatInv'
    <2>1. call.res \in Clusters /\ owner[call.res] = Cur.first
      BY <1>2 DEF OwnCluster
    <2> QED BY <1>1, <1>2, <1>3, <1>4, <1>5, <2>1, Markers DEF VolumeInv, FatInv
  <1>7. DirInv' /\ HandleInv'
    BY <1>1, DirKept, FilesSame DEF VolumeInv
  <1>8. call'.fd = call.fd /\ call'.op = call.op /\ call'.res = call.res /\ call'.info = "next"
    BY <1>1, <1>3 DEF Calls
  <1>9. Cur' = Cur /\ IsOpen(call.fd)'
    BY <1>1, <1>3, <1>8 DEF Cur, IsOpen
  <1>10. call.op = "write" => "WRITE" \in Cur.flags
    BY <1>1 DEF VolumeInv, CallInv
  <1>11. CallInv'
    BY <1>1, <1>2, <1>3, <1>8, <1>9, <1>10 DEF CallInv, FreeLabels, NeedsStored, OwnCluster
  <1> QED BY <1>1, <1>6, <1>7, <1>11 DEF VolumeInv, SeekInv, FreeInv

\* A call that has been inside fat_lseek.
LEMMA AtSeek ==
  ASSUME TypeOK, VolumeInv, pc \in {"seek", "case", "walk"}
  PROVE  /\ pc \notin FreeLabels \cup {"idle", "done"}
         /\ IsOpen(call.fd) /\ call.fd \in Handles /\ Cur \in FileS /\ call \in Calls
         /\ call.op \notin {"none", "open", "unlink"}
         /\ call.op = "write" => "WRITE" \in Cur.flags
         /\ call.old \in Nat /\ call.new \in Nat
         /\ "OPEN" \in Cur.flags
  <1>1. pc \notin FreeLabels \cup {"idle", "done"}
    BY DEF FreeLabels
  <1>2. call.fd \in Handles /\ Cur \in FileS /\ call \in Calls
    BY CurType DEF TypeOK
  <1>3. IsOpen(call.fd) /\ call.op \notin {"none", "open", "unlink"}
    BY <1>1, Running DEF VolumeInv
  <1>4. call.op = "write" => "WRITE" \in Cur.flags
    BY <1>1 DEF VolumeInv, CallInv
  <1>5. call.old \in Nat /\ call.new \in Nat
    BY <1>2 DEF Calls
  <1> QED BY <1>1, <1>2, <1>3, <1>4, <1>5 DEF IsOpen, Cur

\* fat_lseek returns, to fat_write's byte loop or to its caller.
LEMMA EndSeekSafe ==
  ASSUME TypeOK, VolumeInv, pc \in {"seek", "case", "walk"}, NEW ok \in BOOLEAN, EndSeek(ok),
         "OPEN" \in Cur'.flags, Cur'.flags = Cur.flags
  PROVE  CallInv' /\ SeekInv' /\ pc' \notin FreeLabels
  <1>1. pc' \in {"byte", "done", "fail"}
    BY DEF EndSeek, AfterSeek
  <1>2. call'.fd = call.fd /\ call'.op = call.op /\ call'.seeking = FALSE
    BY AtSeek DEF EndSeek, Calls
  <1> QED BY <1>1, <1>2, AtSeek, PlainLabel DEF FreeLabels, IsOpen, Cur

\* fat_lseek loads a sector of a file that has clusters.
LEMMA SeekLoadSafe ==
  ASSUME TypeOK, VolumeInv, pc \in {"case", "walk"}, Cur.first # 0,
         NEW n, NEW p, NEW l, NEW s, NoWrite,
         SeekLoad([Cur EXCEPT !.file_sector = n, !.cursor = p, !.sectors_left = l], s)
  PROVE  VolumeInv'
  <1> DEFINE f == [Cur EXCEPT !.file_sector = n, !.cursor = p, !.sectors_left = l]
             fs == [f EXCEPT !.sector = s]
             fb == [f EXCEPT !.sector = s, !.buffer = disk[s]]
  <1>1. /\ SetCur(fs) \/ SetCur(fb)
        /\ \E ok \in BOOLEAN : EndSeek(ok)
    BY DEF SeekLoad
  <1>2. SameFile(f) /\ f.cluster = Cur.cluster
    BY AtSeek DEF FileS, SameFile
  <1>3. SameFile(fs) /\ fs.cluster = Cur.cluster
    BY AtSeek DEF FileS, SameFile
  <1>4. SameFile(fb) /\ fb.cluster = Cur.cluster
    BY AtSeek DEF FileS, SameFile
  <1> HIDE DEF f, fs, fb
  <1>5. PICK g : SetCur(g) /\ SameFile(g) /\ g.cluster = Cur.cluster
    BY <1>1, <1>3, <1>4
  <1>6. call'.fd = call.fd /\ call'.op = call.op
    BY <1>1, AtSeek DEF EndSeek, Calls
  <1>7. HandleInv' /\ Cur' = g
    BY <1>5, <1>6, AtSeek, StoredMoves, CurAfter DEF NoWrite, SameFile
  <1>8. CallInv' /\ SeekInv' /\ pc' \notin FreeLabels
    BY <1>1, <1>5, <1>7, AtSeek, EndSeekSafe DEF SameFile
  <1> QED BY <1>7, <1>8, QuietSafe DEF NoWrite

\* fat_lseek before it moves.
LEMMA SeekFlushedSafe ==
  ASSUME TypeOK, VolumeInv, SeekOutside \/ SeekFlushed
  PROVE  VolumeInv'
  <1>1. pc = "seek" /\ UNCHANGED <<fat, dir, owner, file_num>>
    BY DEF SeekOutside, SeekFlushed, NoWrite
  <1>2. HandleInv'
    BY <1>1, FilesSame DEF VolumeInv
  <1>3. CASE SeekOutside
    <2>1. Cur' = Cur /\ EndSeek(FALSE)
      BY <1>1, <1>3, AtSeek DEF SeekOutside, EndSeek, Cur, Calls
    <2> QED BY <1>1, <1>2, <2>1, AtSeek, EndSeekSafe, QuietSafe
  <1>4. CASE SeekFlushed
    <2>1. call'.fd = call.fd /\ call'.op = call.op /\ call'.new = call.new /\ call'.old = call.old
          /\ call'.seeking = call.seeking
      BY <1>1, <1>4, AtSeek DEF SeekFlushed, Calls
    <2>2. Cur' = Cur /\ StillRunning
      BY <1>1, <2>1, AtSeek DEF StillRunning, Cur, IsOpen
    <2>3. Cur.first = 0 => Cur.size = 0 /\ call.old = 0 /\ Unstored(Cur)
      BY <1>1, AtSeek, CurStored DEF VolumeInv, SeekInv
    <2>4. call.new <= Cur.size
      BY <1>4 DEF SeekFlushed, InFile
    <2>5. CASE Cur.cursor = SectorSize
      <3>1. pc' = "flush" /\ call'.flush = "sector"
        BY <1>1, <1>4, <2>5, AtSeek DEF SeekFlushed, SectorUsedUp, Calls
      <3>2. Cur.first # 0
        BY <2>3, <2>5, GeometryAssumption DEF Unstored
      <3> QED BY <1>1, <1>2, <2>1, <2>2, <2>5, <3>1, <3>2, QuietSafe
              DEF CallInv, SeekInv, StillRunning, FreeLabels, NeedsStored
    <2>6. CASE Cur.cursor # SectorSize
      <3>1. pc' = "case"
        BY <1>4, <2>6 DEF SeekFlushed, SectorUsedUp
      <3>2. Cur.first = 0 => call.new = 0
        BY <1>1, <2>3, <2>4, AtSeek
      <3> QED BY <1>1, <1>2, <2>1, <2>2, <2>3, <3>1, <3>2, QuietSafe
              DEF CallInv, SeekInv, StillRunning, FreeLabels, NeedsStored
    <2> QED BY <2>5, <2>6
  <1> QED BY <1>3, <1>4

\* fat_lseek within the sector: a file without clusters has only position 0.
LEMMA SeekSectorSafe ==
  ASSUME TypeOK, VolumeInv, SeekSector
  PROVE  VolumeInv'
  <1> DEFINE f == [Cur EXCEPT !.cursor = call.new % SectorSize]
  <1>1. /\ pc = "case" /\ UNCHANGED <<fat, dir, owner>> /\ SetCur(f) /\ EndSeek(TRUE)
    BY DEF SeekSector, NoWrite
  <1>2. /\ SameFile(f) /\ f.cluster = Cur.cluster /\ f.sector = Cur.sector /\ f.size = Cur.size
        /\ f.sectors_left = Cur.sectors_left /\ f.file_sector = Cur.file_sector
        /\ f.cursor = call.new % SectorSize
    BY <1>1, AtSeek DEF FileS, SameFile
  <1> HIDE DEF f
  <1>3. Cur.first = 0 => Unstored(f)
    <2>1. Cur.first = 0 => call.new = 0 /\ Unstored(Cur)
      BY <1>1, AtSeek, CurStored DEF VolumeInv, SeekInv
    <2>2. 0 % SectorSize = 0 /\ Cur.size \in Nat
      BY <1>1, AtSeek, GeometryAssumption DEF FileS
    <2> QED BY <1>2, <2>1, <2>2 DEF Unstored, SameFile
  <1>4. HandleInv'
    BY <1>1, <1>2, <1>3, AtSeek, CurStored, FileKept DEF VolumeInv, SameFile, StoredFile
  <1>5. call'.fd = call.fd
    BY <1>1, AtSeek DEF EndSeek, Calls
  <1>6. CallInv' /\ SeekInv' /\ pc' \notin FreeLabels
    BY <1>1, <1>2, <1>5, AtSeek, CurAfter, EndSeekSafe DEF SameFile
  <1> QED BY <1>1, <1>4, <1>6, QuietSafe

\* fat_lseek to another sector: the file has clusters.
LEMMA SeekMovesSafe ==
  ASSUME TypeOK, VolumeInv, SeekCluster \/ SeekRewind \/ WalkNext \/ WalkMove \/ WalkEnd
  PROVE  VolumeInv'
  <1>1. pc \in {"case", "walk", "walked"} /\ NoWrite /\ UNCHANGED <<fat, dir, owner>>
    BY DEF SeekCluster, SeekRewind, WalkNext, WalkMove, WalkEnd, NoWrite
  <1>2. Cur.first # 0
    <2>1. CASE pc = "case"
      <3>1. call.old # call.new
        BY <2>1 DEF SeekCluster, SeekRewind, WalkNext, WalkMove, WalkEnd
      <3> QED BY <2>1, <3>1 DEF VolumeInv, SeekInv
    <2>2. CASE pc # "case"
      BY <1>1, <2>2, AtStored
    <2> QED BY <2>1, <2>2
  <1>3. /\ pc \notin FreeLabels \cup {"idle", "done"} /\ IsOpen(call.fd) /\ call.fd \in Handles
        /\ Cur \in FileS /\ call \in Calls
    BY <1>1, AtStored, AtSeek, CurType
  <1>4. StoredFile(Cur)
    BY <1>2, <1>3, CurStored
  <1>5. CASE SeekCluster
    <2> DEFINE o == call.old \div SectorSize
               n == call.new \div SectorSize
    <2>1. pc = "case" /\ SeekLoad([Cur EXCEPT !.file_sector = n, !.cursor = call.new % SectorSize,
                                  !.sectors_left = SectorsLeft(Cur, o, n)],
                      (Cur.sector + n - o) % Word)
      BY <1>5 DEF SeekCluster
    <2> HIDE DEF o, n
    <2> QED BY <1>1, <1>2, <2>1, SeekLoadSafe
  <1>6. CASE WalkEnd
    <2> DEFINE sec == (call.new % ClusterBytes) \div SectorSize
    <2>1. pc = "walk" /\ SeekLoad([Cur EXCEPT !.file_sector = call.new \div SectorSize,
                                  !.cursor = call.new % SectorSize,
                                  !.sectors_left = SectorsPerCluster - sec - 1],
                      (SectorOf(Cur.cluster) + sec) % Word)
      BY <1>6 DEF WalkEnd
    <2> HIDE DEF sec
    <2> QED BY <1>1, <1>2, <2>1, SeekLoadSafe
  <1>7. CASE SeekRewind \/ WalkMove
    <2>1. PICK c : /\ SetCur([Cur EXCEPT !.cluster = c])
                   /\ c = Bad \/ OwnCluster(c)
                   /\ \E i : call' = [call EXCEPT !.i = i]
                   /\ pc' = "walk"
      <3>1. CASE SeekRewind
        BY <1>4, <3>1 DEF SeekRewind, StoredFile, OwnCluster
      <3>2. CASE WalkMove
        BY <3>2 DEF WalkMove, VolumeInv, CallInv
      <3> QED BY <1>7, <3>1, <3>2
    <2> DEFINE f == [Cur EXCEPT !.cluster = c]
    <2>2. SameFile(f) /\ f.cluster = c
      BY <1>3 DEF SameFile, FileS
    <2>3. call'.fd = call.fd /\ call'.op = call.op
      BY <1>3, <2>1 DEF Calls
    <2>4. SetCur(f)
      BY <2>1
    <2> HIDE DEF f
    <2>5. HandleInv' /\ StillRunning /\ Cur'.first = Cur.first
      BY <1>1, <1>2, <1>3, <2>1, <2>2, <2>3, <2>4, StoredMoves DEF SameFile
    <2>6. CallInv' /\ SeekInv' /\ pc' \notin FreeLabels
      BY <1>2, <2>1, <2>5 DEF CallInv, SeekInv, StillRunning, FreeLabels, NeedsStored
    <2> QED BY <1>1, <2>5, <2>6, QuietSafe
  <1>8. CASE WalkNext
    <2>1. /\ UNCHANGED file_num /\ pc' = "flush"
          /\ call' = [call EXCEPT !.flush = "next", !.next = "walk", !.res = Bad]
      BY <1>8 DEF WalkNext
    <2>2. call'.fd = call.fd /\ call'.op = call.op /\ call'.flush = "next" /\ call'.res = Bad
      BY <1>3, <2>1 DEF Calls
    <2>3. HandleInv' /\ StillRunning /\ Cur'.first = Cur.first
      BY <1>1, <1>2, <1>3, <2>1, <2>2, SameCur, StoredMoves
    <2>4. CallInv' /\ SeekInv' /\ pc' \notin FreeLabels
      BY <1>2, <2>1, <2>2, <2>3 DEF CallInv, SeekInv, StillRunning, FreeLabels, NeedsStored
    <2> QED BY <1>1, <2>3, <2>4, QuietSafe
  <1> QED BY <1>5, <1>6, <1>7, <1>8

\* What fat_read and fat_write know in their byte loops.
LEMMA AtByte ==
  ASSUME TypeOK, VolumeInv, pc = "byte"
  PROVE  /\ pc \notin FreeLabels \cup {"idle", "done"}
         /\ IsOpen(call.fd) /\ call.fd \in Handles /\ Cur \in FileS /\ call \in Calls
         /\ call.op \notin {"none", "open", "unlink"} /\ ~call.seeking
         /\ call.op = "write" => "WRITE" \in Cur.flags
         /\ "OPEN" \in Cur.flags
         /\ Cur.first = 0 => Unstored(Cur) /\ Pos(Cur) = Cur.cursor
  <1>1. pc \notin FreeLabels \cup {"idle", "done"}
    BY DEF FreeLabels
  <1>2. call.fd \in Handles /\ Cur \in FileS /\ call \in Calls
    BY CurType DEF TypeOK
  <1>3. IsOpen(call.fd) /\ call.op \notin {"none", "open", "unlink"}
    BY <1>1, Running DEF VolumeInv
  <1>4. (call.op = "write" => "WRITE" \in Cur.flags) /\ ~call.seeking
    BY <1>1 DEF VolumeInv, CallInv
  <1>5. Cur.first = 0 => Unstored(Cur)
    BY <1>2, <1>3, CurStored
  <1>6. Cur.file_sector = 0 => Pos(Cur) = Cur.cursor
    <2>1. 0 * SectorSize = 0 /\ Cur.cursor \in Nat
      BY <1>2, GeometryAssumption DEF FileS
    <2> QED BY <2>1 DEF Pos
  <1> QED BY <1>1, <1>2, <1>3, <1>4, <1>5, <1>6 DEF IsOpen, Cur, Unstored

\* One byte moves between the buffer and the caller: a step of the byte loops
\* that stays in them.
LEMMA ByteMovedSafe ==
  ASSUME TypeOK, VolumeInv, pc = "byte", pc' = "byte", UNCHANGED <<fat, dir, owner>>,
         call'.fd = call.fd, call'.op = call.op, ~call'.seeking,
         NEW f, SetCur(f), f.name = Cur.name, f.first = Cur.first, f.entry = Cur.entry,
         f.cluster = Cur.cluster, Cur.flags \subseteq f.flags,
         f.first = 0 => Unstored(f)
  PROVE  VolumeInv'
  <1>1. HandleInv'
    BY AtByte, CurStored, FileKept DEF VolumeInv, StoredFile
  <1>2. Cur' = f /\ IsOpen(call.fd)'
    BY AtByte, CurAfter DEF IsOpen, Cur
  <1>3. CallInv' /\ SeekInv' /\ pc' \notin FreeLabels
    BY <1>2, AtByte, PlainLabel DEF FreeLabels
  <1> QED BY <1>1, <1>3, QuietSafe

\* The byte loops of fat_read and fat_write.
LEMMA BytesSafe ==
  ASSUME TypeOK, VolumeInv, ByteStep
  PROVE  VolumeInv'
  <1>1. pc = "byte" /\ UNCHANGED <<fat, dir, owner>>
    BY DEF ByteStep, WriteByte, ReadByte, BytesDone, NoWrite
  <1>2. ASSUME NeedSector, Cur.cursor = SectorSize PROVE VolumeInv'
    <2>1. UNCHANGED file_num /\ pc' = "flush" /\ call' = [call EXCEPT !.flush = "sector"]
      BY <1>2 DEF NeedSector
    <2>2. call'.fd = call.fd /\ call'.op = call.op /\ call'.flush = "sector" /\ ~call'.seeking
      BY <1>1, <2>1, AtByte DEF Calls
    <2>3. Cur' = Cur /\ IsOpen(call.fd)'
      BY <1>1, <2>1, <2>2, AtByte DEF Cur, IsOpen
    <2>4. CallInv' /\ SeekInv' /\ pc' \notin FreeLabels
      BY <1>1, <1>2, <2>1, <2>2, <2>3, AtByte DEF CallInv, SeekInv, FreeLabels, NeedsStored
    <2>5. HandleInv'
      BY <1>1, <2>1, FilesSame DEF VolumeInv
    <2> QED BY <1>1, <2>4, <2>5, QuietSafe
  <1>3. ASSUME BytesDone PROVE VolumeInv'
    <2>1. UNCHANGED <<file_num, call>> /\ pc' = "done" /\ Cur' = Cur
      BY <1>3 DEF BytesDone, Cur
    <2>2. CallInv' /\ SeekInv' /\ pc' \notin FreeLabels
      BY <1>1, <2>1, AtByte, PlainLabel DEF FreeLabels, IsOpen
    <2>3. HandleInv'
      BY <1>1, <2>1, FilesSame DEF VolumeInv
    <2> QED BY <1>1, <2>2, <2>3, QuietSafe
  <1>4. Cur.size \in Nat /\ Cur.cursor \in Nat
    BY <1>1, AtByte DEF FileS
  <1>5. ASSUME WriteByte, Cur.cursor # SectorSize PROVE VolumeInv'
    <2> DEFINE grows == Pos(Cur) = Cur.size
               b == [Cur.buffer EXCEPT ![Cur.cursor] = Head(call.todo)]
               g == [Cur EXCEPT !.buffer = b, !.cursor = @ + 1]
               z == IF grows THEN Cur.size + 1 ELSE Cur.size
               x == Cur.flags \cup {"DIRTY"} \cup (IF grows THEN {"FS_DIRTY"} ELSE {})
               f == [g EXCEPT !.size = z, !.flags = x]
    <2>1. call.op = "write" /\ pc' = pc /\ call' = [call EXCEPT !.todo = Tail(@)]
      BY <1>5 DEF WriteByte, SectorUsedUp
    <2>2. SetCur(f)
      <3>1. SetCur([Cur EXCEPT !.buffer = b, !.cursor = Cur.cursor + 1, !.size = z,
                               !.flags = x])
        BY <1>1, <1>5, AtByte DEF WriteByte, SectorUsedUp, FileS
      <3> QED BY <3>1
    <2> HIDE DEF b, z, x
    <2>3. /\ f.name = Cur.name /\ f.first = Cur.first /\ f.entry = Cur.entry
          /\ f.cluster = Cur.cluster
      BY <1>1, AtByte DEF FileS
    <2>4. /\ f.sector = Cur.sector /\ f.sectors_left = Cur.sectors_left
          /\ f.file_sector = Cur.file_sector
      BY <1>1, AtByte DEF FileS
    <2>5. f.cursor = Cur.cursor + 1 /\ f.size = z /\ f.flags = x
      BY <1>1, AtByte DEF FileS
    <2> HIDE DEF f
    <2>6. f.first = 0 => Unstored(f)
      <3>1. Cur.first = 0 => Cur.cursor + 1 <= z
        BY <1>1, <1>4, AtByte DEF z, Unstored
      <3>2. "DIRTY" \in x /\ (call.op = "write" => "WRITE" \in x)
        BY <1>1, AtByte DEF x
      <3> QED BY <1>1, <2>1, <2>3, <2>4, <2>5, <3>1, <3>2, AtByte DEF Unstored
    <2>7. call'.fd = call.fd /\ call'.op = call.op /\ ~call'.seeking
      BY <1>1, <2>1, AtByte DEF Calls
    <2>8. Cur.flags \subseteq f.flags
      BY <2>5 DEF x
    <2> QED BY <1>1, <2>1, <2>2, <2>3, <2>6, <2>7, <2>8, ByteMovedSafe
  <1>6. ASSUME ReadByte, Cur.cursor # SectorSize PROVE VolumeInv'
    <2> DEFINE f == [Cur EXCEPT !.cursor = @ + 1]
    <2>1. /\ SetCur(f) /\ pc' = pc /\ Pos(Cur) < Cur.size
          /\ call' = [call EXCEPT !.n = @ - 1, !.got = Append(@, Cur.buffer[Cur.cursor])]
      BY <1>6 DEF ReadByte, SectorUsedUp
    <2>2. /\ f.name = Cur.name /\ f.first = Cur.first /\ f.entry = Cur.entry
          /\ f.cluster = Cur.cluster /\ f.flags = Cur.flags /\ f.size = Cur.size
      BY <1>1, AtByte DEF FileS
    <2>3. /\ f.sector = Cur.sector /\ f.sectors_left = Cur.sectors_left
          /\ f.file_sector = Cur.file_sector /\ f.cursor = Cur.cursor + 1
      BY <1>1, AtByte DEF FileS
    <2> HIDE DEF f
    <2>4. f.first = 0 => Unstored(f)
      BY <1>1, <1>4, <2>1, <2>2, <2>3, AtByte DEF Unstored
    <2>5. call'.fd = call.fd /\ call'.op = call.op /\ ~call'.seeking
      BY <1>1, <2>1, AtByte DEF Calls
    <2> QED BY <1>1, <2>1, <2>2, <2>4, <2>5, ByteMovedSafe
  <1> QED BY <1>2, <1>3, <1>5, <1>6 DEF ByteStep, WriteByte, ReadByte, SectorUsedUp

(***************************************************************************)
(* fat_unlink.                                                             *)
(***************************************************************************)

\* Zeroing some clusters of one chain of which no file and no entry knows the
\* head, and which no other link leads into, leaves everybody else's alone.
LEMMA ZeroesSafe ==
  ASSUME TypeOK, VolumeInv, UNCHANGED <<dir, file_num>>, NEW o, NobodyHas(o), o # 0,
         NEW Z, Z = call.zeroed, WriteZeroes,
         \A z \in Z : z \in Clusters /\ owner[z] = o,
         \A c \in Clusters : fat[c] \in Z => c \in Z
  PROVE  /\ FatInv' /\ DirInv' /\ HandleInv'
         /\ \A c \in FatIndex : /\ fat'[c] = IF c \in Z THEN 0 ELSE fat[c]
                                /\ owner'[c] = IF c \in Z THEN 0 ELSE owner[c]
  <1>1. \A c \in FatIndex : /\ fat'[c] = IF c \in Z THEN 0 ELSE fat[c]
                            /\ owner'[c] = IF c \in Z THEN 0 ELSE owner[c]
    BY DEF WriteZeroes, Zero
  <1>2. FatInv'
    BY <1>1, Markers DEF VolumeInv, FatInv
  <1>3. \A c \in Clusters : owner[c] # o => c \notin Z /\ owner'[c] = owner[c]
    BY <1>1, Markers
  <1>4. DirInv'
    <2>1. \A s \in Slots : Live(s) => owner'[dir[s].first] = dir[s].first
      BY <1>3 DEF VolumeInv, DirInv, NobodyHas
    <2> QED BY <2>1 DEF VolumeInv, DirInv, Live
  <1>5. HandleInv'
    <2>0. ClosedInv /\ FilesInv /\ EntryInv /\ ApartInv
      BY DEF VolumeInv, HandleInv
    <2>1. ASSUME NEW h \in Handles, IsOpen(h), StoredFile(file_num[h])
          PROVE  StoredFile(file_num[h])'
      BY <1>3, <2>1 DEF StoredFile, NobodyHas
    <2>2. FilesInv'
      BY <2>0, <2>1 DEF FilesInv, IsOpen, Unstored
    <2>3. ClosedInv' /\ EntryInv' /\ ApartInv'
      BY <2>0 DEF ClosedInv, EntryInv, ApartInv, IsOpen, Live
    <2> QED BY <2>2, <2>3 DEF HandleInv
  <1> QED BY <1>1, <1>2, <1>4, <1>5

\* At the end of fat_free_clusters, or of a walk that a failing read has ended.
LEMMA FreedSafe ==
  ASSUME TypeOK, VolumeInv, FreeUnreadable \/ FreeLast, SafeUse
  PROVE  VolumeInv'
  <1>1. /\ pc \in {"free", "freed"} /\ pc' = "done" /\ UNCHANGED <<dir, file_num>>
        /\ WriteZeroes \/ UNCHANGED <<fat, owner>>
        /\ call' = [call EXCEPT !.zeroed = {}]
    BY DEF FreeUnreadable, FreeLast
  <1>2. call'.op = "unlink"
    BY <1>1 DEF VolumeInv, CallInv, FreeLabels, TypeOK, Calls
  <1>3. FatInv' /\ DirInv' /\ HandleInv'
    <2>1. CASE WriteZeroes
      <3>1. /\ NobodyHas(owner[call.res]) /\ owner[call.res] # 0
            /\ \A z \in call.zeroed : z \in Clusters /\ owner[z] = owner[call.res]
            /\ \A c \in Clusters : fat[c] \in call.zeroed => c \in call.zeroed
        BY <1>1 DEF VolumeInv, FreeInv
      <3> QED BY <1>1, <2>1, <3>1, ZeroesSafe
    <2>2. CASE UNCHANGED <<fat, owner>>
      BY <1>1, <2>2, Unwritten, FilesSame DEF VolumeInv
    <2> QED BY <1>1, <2>1, <2>2
  <1>4. CallInv' /\ SeekInv' /\ FreeInv'
    BY <1>1, <1>2 DEF CallInv, SeekInv, FreeInv, FreeLabels, NeedsStored
  <1> QED BY <1>3, <1>4 DEF VolumeInv

\* fat_free_clusters zeroes one entry of the chain and goes on to the next.
LEMMA FreeEntrySafe ==
  ASSUME TypeOK, VolumeInv, FreeEntry, SafeUse
  PROVE  VolumeInv'
  <1> DEFINE here == IF Leaving THEN {} ELSE call.zeroed
             r == call.res
             Z == call.zeroed
  <1>0. PICK o : o = owner[r]
    OBVIOUS
  <1>1. /\ pc = "free" /\ UNCHANGED <<dir, file_num>>
        /\ \/ Leaving /\ WriteZeroes
           \/ ~Leaving /\ UNCHANGED <<fat, owner>>
    BY DEF FreeEntry, SafeUse, Fault
  <1>2. /\ r \in Clusters /\ o # 0 /\ NobodyHas(o) /\ r \notin Z
        /\ \A z \in Z : z \in Clusters /\ owner[z] = o
        /\ \A c \in Clusters : fat[c] \in Z \cup {r} => c \in Z
    BY <1>0, <1>1 DEF VolumeInv, FreeInv
  <1>3. call \in Calls /\ call.op = "unlink"
    BY <1>1 DEF TypeOK, VolumeInv, CallInv, FreeLabels
  <1>4. /\ call' = [call EXCEPT !.zeroed = here \cup {r}, !.block = FatBlock(r),
                                !.res = IF fat[r] < EndMarker THEN fat[r] ELSE @]
        /\ pc' = IF fat[r] < EndMarker THEN "free" ELSE "freed"
    BY <1>2 DEF FreeEntry
  <1>5. /\ call'.op = "unlink" /\ call'.zeroed = here \cup {r}
        /\ call'.res = IF fat[r] < EndMarker THEN fat[r] ELSE r
    BY <1>3, <1>4 DEF Calls
  <1>6. /\ FatInv' /\ DirInv' /\ HandleInv'
        /\ \A c \in Clusters : c \notin Z => fat'[c] = fat[c] /\ owner'[c] = owner[c]
        /\ \A z \in here : owner'[z] = o
        /\ \A c \in Clusters : fat'[c] \in here \cup {r} => c \in here
    <2>1. CASE Leaving
      <3>1. WriteZeroes /\ here = {}
        BY <1>1, <2>1
      <3>2. /\ FatInv' /\ DirInv' /\ HandleInv'
            /\ \A c \in FatIndex : /\ fat'[c] = IF c \in Z THEN 0 ELSE fat[c]
                                   /\ owner'[c] = IF c \in Z THEN 0 ELSE owner[c]
        BY <1>1, <1>2, <3>1, ZeroesSafe
      <3> QED BY <1>2, <3>1, <3>2, Markers
    <2>2. CASE ~Leaving
      <3>1. FatInv' /\ DirInv' /\ HandleInv'
        BY <1>1, <2>2, Unwritten, FilesSame DEF VolumeInv
      <3> QED BY <1>1, <1>2, <2>2, <3>1
    <2> QED BY <2>1, <2>2
  <1>7. here \subseteq Z
    OBVIOUS
  <1> HIDE DEF here, r, Z
  <1>8. NobodyHas(o)'
    BY <1>1, <1>2 DEF NobodyHas, Live, IsOpen
  <1>9. fat[r] \in Clusters \cup {EndMarker} /\ (fat[r] \in Clusters => owner[fat[r]] = o)
    BY <1>0, <1>2, Markers DEF VolumeInv, FatInv
  <1>10. owner'[r] = o /\ fat'[r] = fat[r]
    BY <1>0, <1>2, <1>6
  <1>11. CASE fat[r] \in Clusters
    <2> DEFINE j == fat[r]
    <2>1. pc' = "free" /\ call'.res = j
      BY <1>4, <1>5, <1>11, Markers
    <2>2. j \notin Z /\ j # r
      BY <1>2, <1>11
    <2> HIDE DEF j
    <2>3. owner'[j] = o /\ j \in Clusters
      BY <1>6, <1>9, <1>11, <2>2 DEF j
    <2>4. ASSUME NEW c \in Clusters, fat'[c] \in here \cup {r} \cup {j} PROVE c \in here \cup {r}
      <3>1. CASE fat'[c] \in here \cup {r}
        BY <1>6, <3>1
      <3>2. CASE fat'[c] = j
        BY <1>2, <1>6, <1>7, <1>10, <2>3, <3>2 DEF j, VolumeInv, FatInv
      <3> QED BY <2>4, <3>1, <3>2
    <2>5. FreeInv'
      BY <1>2, <1>5, <1>6, <1>7, <1>8, <1>10, <2>1, <2>2, <2>3, <2>4 DEF FreeInv
    <2>6. CallInv' /\ SeekInv'
      BY <1>5, <2>1 DEF CallInv, SeekInv, FreeLabels, NeedsStored
    <2> QED BY <1>6, <2>5, <2>6 DEF VolumeInv
  <1>12. CASE fat[r] = EndMarker
    <2>1. pc' = "freed" /\ call'.res = r
      BY <1>4, <1>5, <1>12, Markers, GeometryAssumption DEF EndMarker
    <2>2. FreeInv'
      BY <1>2, <1>5, <1>6, <1>7, <1>8, <1>10, <2>1 DEF FreeInv
    <2>3. CallInv' /\ SeekInv'
      BY <1>5, <2>1 DEF CallInv, SeekInv, FreeLabels, NeedsStored
    <2> QED BY <1>6, <2>2, <2>3 DEF VolumeInv
  <1> QED BY <1>9, <1>11, <1>12

\* fat_unlink deletes the entry; nobody refers to the chain any more.
LEMMA DeleteEntrySafe ==
  ASSUME TypeInv, VolumeInv, DeleteEntry, SafeUse
  PROVE  VolumeInv'
  <1>1. /\ pc = "delete" /\ pc' = "free" /\ UNCHANGED <<fat, owner, file_num, call>>
        /\ dir' = [dir EXCEPT ![call.slot].kind = "deleted"]
    BY DirectoryWorks DEF DeleteEntry
  <1>2. TypeOK /\ call.slot \in Slots /\ dir \in [Slots -> DirEntry]
    BY <1>1 DEF TypeInv, TypeOK
  <1>3. /\ Live(call.slot) /\ dir[call.slot].first = call.res /\ call.zeroed = {}
        /\ \A h \in Handles : IsOpen(h) => file_num[h].name # dir[call.slot].name
    BY <1>1 DEF VolumeInv, FreeInv
  <1>4. dir[call.slot] \in DirEntry
    BY <1>2
  <1>5. /\ dir'[call.slot].kind = "deleted"
        /\ \A s \in Slots : s # call.slot => dir'[s] = dir[s]
    BY <1>1, <1>2, <1>4 DEF DirEntry
  <1>6. \A s \in Slots : /\ Live(s)' <=> (Live(s) /\ s # call.slot)
                         /\ dir'[s].kind = "end" <=> dir[s].kind = "end"
    BY <1>2, <1>3, <1>5 DEF Live
  <1>7. DirInv'
    BY <1>1, <1>5, <1>6 DEF VolumeInv, DirInv
  <1>8. ClosedInv /\ FilesInv /\ EntryInv /\ ApartInv
    BY DEF VolumeInv, HandleInv
  <1>9. \A h \in Handles : IsOpen(h) =>
          /\ file_num[h].entry # call.slot /\ file_num[h].first # call.res
    <2>1. call.slot # 0
      BY <1>2, GeometryAssumption DEF Slots
    <2> QED BY <1>2, <1>3, <1>8, <2>1 DEF EntryInv
  <1>10. HandleInv'
    <2>1. ClosedInv' /\ FilesInv' /\ ApartInv'
      BY <1>1, <1>8 DEF ClosedInv, FilesInv, ApartInv, IsOpen, Unstored, StoredFile
    <2>2. ASSUME NEW h \in Handles, IsOpen(h), file_num[h].entry # 0
          PROVE  dir'[file_num[h].entry].kind = "file" /\ dir'[file_num[h].entry].name = file_num[h].name
      <3>1. file_num[h] \in FileS
        BY <1>2 DEF TypeOK
      <3>2. file_num[h].entry \in Slots
        BY <2>2, <3>1, GeometryAssumption DEF FileS, Slots
      <3> QED BY <1>5, <1>8, <1>9, <2>2, <3>2 DEF EntryInv, Live
    <2>3. EntryInv'
      BY <1>1, <1>5, <1>6, <1>8, <2>2 DEF EntryInv, IsOpen, Live
    <2> QED BY <2>1, <2>3 DEF HandleInv
  <1>11. FatInv'
    BY <1>1 DEF VolumeInv, FatInv
  <1>12. call.res \in Clusters /\ owner[call.res] = call.res
    BY <1>2, <1>3 DEF VolumeInv, DirInv
  <1>13. NobodyHas(owner[call.res])'
    <2>1. \A s \in Slots : Live(s)' => dir'[s].first # call.res
      BY <1>2, <1>3, <1>5, <1>6 DEF VolumeInv, DirInv
    <2>2. \A h \in Handles : IsOpen(h)' => file_num'[h].first # call.res
      BY <1>1, <1>9 DEF IsOpen
    <2> QED BY <1>1, <1>12, <2>1, <2>2 DEF NobodyHas
  <1>14. \A c \in Clusters : fat[c] # call.res
    BY <1>12 DEF VolumeInv, FatInv
  <1>15. FreeInv'
    BY <1>1, <1>3, <1>12, <1>13, <1>14, Markers DEF FreeInv
  <1>16. CallInv' /\ SeekInv'
    BY <1>1 DEF VolumeInv, CallInv, SeekInv, FreeLabels, NeedsStored
  <1> QED BY <1>7, <1>10, <1>11, <1>15, <1>16 DEF VolumeInv

(***************************************************************************)
(* The ends of calls.                                                      *)
(***************************************************************************)

\* fat_close between its two flushes.
LEMMA CloseInfoSafe ==
  ASSUME TypeOK, VolumeInv, CloseInfo
  PROVE  VolumeInv'
  <1>1. /\ pc = "closing" /\ UNCHANGED <<fat, dir, owner, file_num>>
        /\ \/ pc' = "done" /\ call' = call
           \/ pc' = "info" /\ call' = [call EXCEPT !.info = "close"]
    BY DEF CloseInfo, NoWrite
  <1>2. call \in Calls /\ IsOpen(call.fd) /\ call.op \notin {"none", "open", "unlink"}
    BY <1>1, Running DEF TypeOK, VolumeInv, FreeLabels
  <1>3. call'.fd = call.fd /\ call'.op = call.op /\ (pc' = "info" => call'.info = "close")
    BY <1>1, <1>2 DEF Calls
  <1>4. Cur' = Cur /\ IsOpen(call.fd)' /\ (call.op = "write" => "WRITE" \in Cur.flags)
    BY <1>1, <1>2, <1>3 DEF Cur, IsOpen, VolumeInv, CallInv
  <1>5. CallInv' /\ SeekInv' /\ pc' \notin FreeLabels
    BY <1>1, <1>2, <1>3, <1>4 DEF CallInv, SeekInv, FreeLabels, NeedsStored
  <1>6. HandleInv'
    BY <1>1, FilesSame DEF VolumeInv
  <1> QED BY <1>1, <1>5, <1>6, QuietSafe

\* Nothing is claimed of an idle file layer but that its files are in order.
LEMMA IdleSafe ==
  ASSUME VolumeInv, UNCHANGED <<fat, dir, owner>>, HandleInv', pc' = "idle"
  PROVE  VolumeInv'
  <1>1. CallInv' /\ SeekInv'
    BY DEF CallInv, SeekInv, FreeLabels, NeedsStored
  <1> QED BY <1>1, QuietSafe DEF FreeLabels

\* A handle is closed.
LEMMA ClosedSafe ==
  ASSUME TypeOK, HandleInv, SetCur(Closed), UNCHANGED <<dir, owner>>
  PROVE  HandleInv'
  <1>1. /\ call.fd \in Handles /\ file_num'[call.fd] = Closed
        /\ \A h \in Handles : h # call.fd => file_num'[h] = file_num[h]
    BY CurType DEF SetCur, TypeOK
  <1>2. \A h \in Handles : IsOpen(h)' <=> (IsOpen(h) /\ h # call.fd)
    BY <1>1 DEF IsOpen, Closed
  <1>3. ClosedInv /\ FilesInv /\ EntryInv /\ ApartInv
    BY DEF HandleInv
  <1>4. ClosedInv'
    BY <1>1, <1>2, <1>3 DEF ClosedInv
  <1>5. FilesInv'
    BY <1>1, <1>2, <1>3 DEF FilesInv, Unstored, StoredFile
  <1>6. EntryInv' /\ ApartInv'
    BY <1>1, <1>2, <1>3 DEF EntryInv, ApartInv, Live
  <1> QED BY <1>4, <1>5, <1>6 DEF HandleInv

\* A call returns.
LEMMA ReturnSafe ==
  ASSUME TypeOK, VolumeInv, Return
  PROVE  VolumeInv'
  <1> DEFINE f == [Cur EXCEPT !.flags = @ \cup {"FS_DIRTY"}]
  <1>1. /\ UNCHANGED <<fat, dir, owner>> /\ pc' = "idle" /\ pc \in {"done", "fail"}
    BY DEF Return, NoWrite
  <1>2. call.op \notin {"none", "open"} /\ (call.op # "unlink" => IsOpen(call.fd))
    BY <1>1 DEF VolumeInv, CallInv
  <1>3. \/ UNCHANGED file_num
        \/ call.op # "unlink" /\ SetCur(f)
        \/ SetCur(Closed)
    BY <1>2 DEF Return, Finished
  <1>4. HandleInv'
    <2>1. CASE UNCHANGED file_num
      BY <1>1, <2>1, FilesSame DEF VolumeInv
    <2>2. CASE call.op # "unlink" /\ SetCur(f)
      <3>1. IsOpen(call.fd) /\ call.fd \in Handles /\ Cur \in FileS
        BY <1>2, <2>2, CurType
      <3>2. /\ f.name = Cur.name /\ f.first = Cur.first /\ f.entry = Cur.entry
            /\ f.cluster = Cur.cluster /\ f.flags = Cur.flags \cup {"FS_DIRTY"}
        BY <3>1 DEF FileS
      <3>3. /\ f.sector = Cur.sector /\ f.sectors_left = Cur.sectors_left
            /\ f.file_sector = Cur.file_sector /\ f.cursor = Cur.cursor /\ f.size = Cur.size
        BY <3>1 DEF FileS
      <3>4. SetCur(f)
        BY <2>2
      <3> HIDE DEF f
      <3>5. f.first = 0 => Unstored(f)
        BY <3>1, <3>2, <3>3, CurStored DEF Unstored
      <3> QED BY <1>1, <3>1, <3>2, <3>4, <3>5, CurStored, FileKept DEF VolumeInv, StoredFile
    <2>3. CASE SetCur(Closed)
      BY <1>1, <2>3, ClosedSafe DEF VolumeInv
    <2> QED BY <1>3, <2>1, <2>2, <2>3
  <1> QED BY <1>1, <1>4, IdleSafe

(***************************************************************************)
(* The beginnings of calls.                                                *)
(***************************************************************************)

\* A closed handle is given to a file nobody has open.
LEMMA OpenedSafe ==
  ASSUME TypeOK, HandleInv, UNCHANGED <<dir, owner>>, NEW h \in Handles, ~IsOpen(h),
         NEW f, file_num' = [file_num EXCEPT ![h] = f],
         "OPEN" \in f.flags, f.name \in Names, NotInUse(f.name),
         IF f.first = 0 THEN Unstored(f) ELSE StoredFile(f),
         f.entry # 0 => Live(f.entry) /\ dir[f.entry].name = f.name,
         \A s \in Slots : Live(s) /\ s # f.entry =>
           dir[s].name # f.name /\ dir[s].first # f.first,
         \A g \in Handles : IsOpen(g) /\ f.first # 0 => file_num[g].first # f.first
  PROVE  HandleInv'
  <1>1. /\ file_num'[h] = f
        /\ \A g \in Handles : g # h => file_num'[g] = file_num[g]
    BY DEF TypeOK
  <1>2. \A g \in Handles : IsOpen(g)' <=> (IsOpen(g) \/ g = h)
    BY <1>1 DEF IsOpen
  <1>3. ClosedInv /\ FilesInv /\ EntryInv /\ ApartInv
    BY DEF HandleInv
  <1>4. ClosedInv'
    BY <1>1, <1>2, <1>3 DEF ClosedInv
  <1>5. FilesInv'
    <2>1. ASSUME NEW g \in Handles, IsOpen(g)'
          PROVE  /\ file_num'[g].name \in Names
                 /\ IF file_num'[g].first = 0 THEN Unstored(file_num[g])' ELSE StoredFile(file_num[g])'
      <3>1. CASE g = h
        BY <1>1, <3>1 DEF Unstored, StoredFile
      <3>2. CASE g # h
        BY <1>1, <1>2, <1>3, <2>1, <3>2 DEF FilesInv, Unstored, StoredFile
      <3> QED BY <3>1, <3>2
    <2> QED BY <2>1 DEF FilesInv
  <1>6. EntryInv'
    <2>1. ASSUME NEW g \in Handles, IsOpen(g)'
          PROVE  /\ file_num'[g].entry # 0 =>
                      /\ dir[file_num'[g].entry].kind = "file"
                      /\ dir[file_num'[g].entry].name = file_num'[g].name
                 /\ \A s \in Slots : Live(s) /\ s # file_num'[g].entry =>
                      dir[s].name # file_num'[g].name /\ dir[s].first # file_num'[g].first
      <3>1. CASE g = h
        BY <1>1, <3>1 DEF Live
      <3>2. CASE g # h
        BY <1>1, <1>2, <1>3, <2>1, <3>2 DEF EntryInv, Live
      <3> QED BY <3>1, <3>2
    <2> QED BY <2>1 DEF EntryInv, Live
  <1>7. ApartInv'
    BY <1>1, <1>2, <1>3 DEF ApartInv, NotInUse
  <1> QED BY <1>4, <1>5, <1>6, <1>7 DEF HandleInv

\* A name fat_lookup_path does not find is in no entry: entries have different
\* names, and none follows the first empty slot.
LEMMA MissingNowhere ==
  ASSUME DirInv, NEW n, Missing(n), NEW s \in Slots, Live(s)
  PROVE  dir[s].name # n
  <1> SUFFICES ASSUME dir[s].name = n PROVE FALSE
    OBVIOUS
  <1>1. ~Lookup(s, n)
    BY DEF Missing
  <1>2. \A t \in 1 .. s - 1 : t \in Slots /\ t < s /\ t # s
    BY GeometryAssumption DEF Slots
  <1>3. \A t \in 1 .. s - 1 : dir[t].kind # "end" /\ ~IsNamed(t, n)
    BY <1>2 DEF DirInv, Live, IsNamed
  <1> QED BY <1>1, <1>3 DEF Lookup, IsNamed, Live

\* fat_open creates a file.
LEMMA OpenMissingSafe ==
  ASSUME TypeOK, VolumeInv, SafeUse, NEW n \in Names, NEW m \in Modes, NEW ro \in RoModes,
         OpenMissing(n, m, ro)
  PROVE  VolumeInv'
  <1>1. /\ pc' = "idle" /\ pc = "idle" /\ call' = call /\ UNCHANGED <<fat, dir, owner>>
        /\ Missing(n) /\ NotInUse(n)
    BY DEF OpenMissing, CreateIn, Idle, Ready, Refuse, NoWrite, SafeUse
  <1>2. HandleInv'
    <2>1. CASE UNCHANGED file_num
      BY <1>1, <2>1, FilesSame DEF VolumeInv
    <2>2. CASE ~UNCHANGED file_num
      <3>1. PICK h \in Handles : ~IsOpen(h) /\ file_num' = [file_num EXCEPT ![h] = NewFile(n, m, ro)]
        BY <2>2 DEF OpenMissing, CreateIn, Refuse, NextFile
      <3> DEFINE f == NewFile(n, m, ro)
      <3>2. /\ f.flags = AccessFlags(m) /\ f.name = n /\ f.first = 0 /\ f.entry = 0
        BY DEF NewFile, Closed
      <3>3. /\ f.cluster = 0 /\ f.sector = 0 /\ f.sectors_left = 0 /\ f.file_sector = 0
            /\ f.cursor = 0 /\ f.size = 0
        BY DEF NewFile, Closed
      <3> HIDE DEF f
      <3>4. "OPEN" \in f.flags /\ "DIRTY" \notin f.flags
        BY <3>2 DEF AccessFlags
      <3>5. Unstored(f)
        BY <3>2, <3>3, <3>4 DEF Unstored
      <3>6. \A s \in Slots : Live(s) => dir[s].name # n /\ dir[s].first # 0
        BY <1>1, MissingNowhere, Markers DEF VolumeInv, DirInv
      <3>7. file_num' = [file_num EXCEPT ![h] = f]
        BY <3>1 DEF f
      <3>8. NotInUse(f.name) /\ f.name \in Names
        BY <1>1, <3>2
      <3>9. /\ IF f.first = 0 THEN Unstored(f) ELSE StoredFile(f)
            /\ f.entry # 0 => Live(f.entry) /\ dir[f.entry].name = f.name
            /\ \A s \in Slots : Live(s) /\ s # f.entry =>
                 dir[s].name # f.name /\ dir[s].first # f.first
            /\ \A g \in Handles : IsOpen(g) /\ f.first # 0 => file_num[g].first # f.first
        BY <3>2, <3>5, <3>6
      <3>10. HandleInv /\ UNCHANGED <<dir, owner>>
        BY <1>1 DEF VolumeInv
      <3> QED BY <3>1, <3>4, <3>7, <3>8, <3>9, <3>10, OpenedSafe
    <2> QED BY <2>1, <2>2
  <1> QED BY <1>1, <1>2, IdleSafe

\* fat_open finds a file.
LEMMA OpenFoundSafe ==
  ASSUME TypeOK, VolumeInv, SafeUse, NEW n \in Names, NEW m \in Modes,
         OpenFound(n, m) \/ OpenUnread(n, m)
  PROVE  VolumeInv'
  <1>1. /\ pc' = "idle" /\ pc = "idle" /\ call' = call /\ UNCHANGED <<fat, dir, owner>>
        /\ NotInUse(n)
    BY DEF OpenFound, OpenUnread, OpenIn, Idle, Ready, Refuse, NoWrite, SafeUse
  <1>2. HandleInv'
    <2>1. CASE UNCHANGED file_num
      BY <1>1, <2>1, FilesSame DEF VolumeInv
    <2>2. CASE ~UNCHANGED file_num
      <3>0. PICK h \in Handles, s \in Slots :
              \E f \in {OldFile(s, m), [OldFile(s, m) EXCEPT !.buffer = MetaBlock]} :
                 /\ ~IsOpen(h) /\ Lookup(s, n)
                 /\ file_num' = [file_num EXCEPT ![h] = f]
        BY <2>2 DEF OpenFound, OpenUnread, OpenIn, Refuse, NextFile
      <3>1. PICK f \in {OldFile(s, m), [OldFile(s, m) EXCEPT !.buffer = MetaBlock]} :
              /\ ~IsOpen(h) /\ Lookup(s, n)
              /\ file_num' = [file_num EXCEPT ![h] = f]
        BY <3>0
      <3>2. /\ f.flags = AccessFlags(m) /\ f.name = dir[s].name /\ f.entry = s
        BY <3>1 DEF OldFile, Closed
      <3>3. f.first = dir[s].first /\ f.cluster = dir[s].first
        BY <3>1 DEF OldFile, Closed
      <3>4. file_num' = [file_num EXCEPT ![h] = f]
        BY <3>1
      <3>5. Live(s) /\ dir[s].name = n
        BY <3>1 DEF Lookup, IsNamed, Live
      <3>6. f.first # 0 /\ StoredFile(f)
        BY <3>3, <3>5, Markers DEF VolumeInv, DirInv, StoredFile
      <3>7. "OPEN" \in f.flags
        BY <3>2 DEF AccessFlags
      <3>8. \A t \in Slots : Live(t) /\ t # s => dir[t].name # n /\ dir[t].first # dir[s].first
        BY <3>5 DEF VolumeInv, DirInv
      <3>9. ASSUME NEW g \in Handles, IsOpen(g) PROVE file_num[g].first # dir[s].first
        <4>1. EntryInv /\ file_num[g].name # n /\ s # 0
          BY <1>1, GeometryAssumption DEF VolumeInv, HandleInv, NotInUse, Slots
        <4>2. file_num[g].entry # s
          BY <3>5, <3>9, <4>1 DEF EntryInv
        <4> QED BY <3>5, <3>9, <4>1, <4>2 DEF EntryInv
      <3>10. NotInUse(f.name) /\ f.name \in Names
        BY <1>1, <3>2, <3>5
      <3>11. /\ IF f.first = 0 THEN Unstored(f) ELSE StoredFile(f)
             /\ f.entry # 0 => Live(f.entry) /\ dir[f.entry].name = f.name
             /\ \A t \in Slots : Live(t) /\ t # f.entry =>
                  dir[t].name # f.name /\ dir[t].first # f.first
             /\ \A g \in Handles : IsOpen(g) /\ f.first # 0 => file_num[g].first # f.first
        BY <3>2, <3>3, <3>5, <3>6, <3>8, <3>9
      <3>12. HandleInv /\ UNCHANGED <<dir, owner>>
        BY <1>1 DEF VolumeInv
      <3> QED BY <3>1, <3>4, <3>7, <3>10, <3>11, <3>12, OpenedSafe
    <2> QED BY <2>1, <2>2
  <1> QED BY <1>1, <1>2, IdleSafe

\* A call that is refused, and one of fat_unlink.
LEMMA NameCallsSafe ==
  ASSUME TypeOK, VolumeInv, NEW n \in Names, SafeUse,
         OpenNoHandle(n) \/ UnlinkRefused(n) \/ Unlink(n)
  PROVE  VolumeInv'
  <1>1. pc = "idle" /\ UNCHANGED <<fat, dir, owner, file_num>>
    BY DEF OpenNoHandle, UnlinkRefused, Unlink, Idle, Ready, NoWrite, Refuse, Start
  <1>2. HandleInv'
    BY <1>1, FilesSame DEF VolumeInv
  <1>3. CASE OpenNoHandle(n) \/ UnlinkRefused(n)
    BY <1>1, <1>2, <1>3, IdleSafe DEF OpenNoHandle, UnlinkRefused, Refuse
  <1>4. CASE Unlink(n)
    <2>1. PICK s \in Slots :
            /\ Lookup(s, n) /\ pc' = "delete" /\ NotInUse(n)
            /\ call' = [NoCall EXCEPT !.op = "unlink", !.slot = s, !.res = dir[s].first]
      BY <1>4 DEF Unlink, Start, SafeUse
    <2>2. /\ call'.op = "unlink" /\ call'.slot = s /\ call'.res = dir[s].first
          /\ call'.zeroed = {} /\ call'.block = NoBlock
      BY <2>1 DEF NoCall
    <2>3. Live(s) /\ dir[s].name = n
      BY <2>1 DEF Lookup, IsNamed, Live
    <2>4. FatInv' /\ DirInv'
      BY <1>1, Unwritten DEF VolumeInv
    <2>5. FreeInv'
      BY <1>1, <2>1, <2>2, <2>3 DEF FreeInv, NotInUse, Live
    <2>6. CallInv' /\ SeekInv'
      BY <2>1, <2>2 DEF CallInv, SeekInv, FreeLabels, NeedsStored
    <2> QED BY <1>2, <2>4, <2>5, <2>6 DEF VolumeInv
  <1> QED BY <1>3, <1>4

\* The seeks that are made have room for a file that has no cluster yet.
LEMMA SeekHasRoom ==
  ASSUME TypeOK, VolumeInv, SafeUse, NEW h \in Handles, IsOpen(h), NEW new,
         MaySeek(file_num[h], new), file_num[h].first = 0
  PROVE  /\ Pos(file_num[h]) <= file_num[h].size
         /\ "DIRTY" \in file_num[h].flags => \E c \in FatIndex : fat[c] = 0
  <1> DEFINE f == file_num[h]
  <1>1. f \in FileS /\ Unstored(f)
    BY DEF TypeOK, VolumeInv, HandleInv, FilesInv
  <1> HIDE DEF f
  <1>2. Pos(f) = f.cursor
    <2>1. 0 * SectorSize = 0 /\ f.cursor \in Nat
      BY <1>1, GeometryAssumption DEF FileS
    <2> QED BY <1>1, <2>1 DEF Pos, Unstored
  <1>3. ASSUME "DIRTY" \in f.flags, \A c \in FatIndex : fat[c] # 0 PROVE FALSE
    <2>1. {c \in FatIndex : fat[c] = 0} = {}
      BY <1>3
    <2>2. Cardinality({c \in FatIndex : fat[c] = 0}) = 0
      BY <2>1, FS_EmptySet
    <2>3. RiskySeek(f, new)
      BY <1>1, <1>3, <2>2 DEF RiskySeek, Unstored
    <2>4. ~RiskySeek(f, new)
      BY DEF MaySeek, SafeUse, f
    <2> QED BY <2>3, <2>4
  <1> QED BY <1>1, <1>2, <1>3 DEF Unstored, f

\* A call on an open file begins.
LEMMA StartSafe ==
  ASSUME VolumeInv, UNCHANGED <<fat, dir, owner, file_num>>,
         NEW h \in Handles, IsOpen(h), call'.fd = h,
         call'.op \in {"write", "read", "lseek", "close"},
         call'.op = "write" => "WRITE" \in file_num[h].flags,
         \/ pc' = "byte" /\ ~call'.seeking
         \/ pc' = "flush" /\ call'.flush = "close"
         \/ /\ pc' = "flush" /\ call'.flush = "seek"
            /\ file_num[h].first = 0 =>
                 /\ call'.old <= file_num[h].size
                 /\ "DIRTY" \in file_num[h].flags => \E c \in FatIndex : fat[c] = 0
  PROVE  VolumeInv'
  <1>1. HandleInv'
    BY FilesSame DEF VolumeInv
  <1>2. Cur' = file_num[h] /\ IsOpen(call.fd)'
    BY DEF Cur, IsOpen
  <1>3. CallInv' /\ SeekInv' /\ pc' \notin FreeLabels
    BY <1>2 DEF CallInv, SeekInv, FreeLabels, NeedsStored
  <1> QED BY <1>1, <1>3, QuietSafe

\* fat_write, fat_read, fat_lseek and fat_close begin.
LEMMA HandleCallsSafe ==
  ASSUME TypeOK, VolumeInv, SafeUse, NEW h \in Handles,
         \/ Close(h) \/ BadHandle(h)
         \/ \E bs \in Payloads : Write(h, bs)
         \/ \E n \in 1 .. MaxCount : Read(h, n)
         \/ \E w \in {"SET", "CUR", "END"}, p \in -MaxSize .. MaxSize : Lseek(h, p, w)
  PROVE  VolumeInv'
  <1>1. pc = "idle" /\ UNCHANGED <<fat, dir, owner, file_num>>
    BY DEF Close, BadHandle, Write, Read, Lseek, Idle, Ready, NoWrite, Refuse, Start
  <1>2. CASE BadHandle(h)
    <2>1. pc' = "idle" /\ HandleInv'
      BY <1>1, <1>2, FilesSame DEF BadHandle, Refuse, VolumeInv
    <2> QED BY <1>1, <2>1, IdleSafe
  <1>3. CASE Close(h)
    <2>1. IsOpen(h) /\ pc' = "flush"
          /\ call' = [NoCall EXCEPT !.op = "close", !.fd = h, !.flush = "close"]
      BY <1>3 DEF Close, Has, Start, IsOpen
    <2>2. call'.op = "close" /\ call'.fd = h /\ call'.flush = "close"
      BY <2>1 DEF NoCall
    <2> QED BY <1>1, <2>1, <2>2, StartSafe
  <1>4. CASE \E n \in 1 .. MaxCount : Read(h, n)
    <2>1. PICK n \in 1 .. MaxCount : IsOpen(h) /\ pc' = "byte"
            /\ call' = [NoCall EXCEPT !.op = "read", !.fd = h, !.n = n]
      BY <1>4 DEF Read, Has, Start, IsOpen
    <2>2. call'.op = "read" /\ call'.fd = h /\ ~call'.seeking
      BY <2>1 DEF NoCall
    <2> QED BY <1>1, <2>1, <2>2, StartSafe
  <1>5. CASE \E w \in {"SET", "CUR", "END"}, p \in -MaxSize .. MaxSize : Lseek(h, p, w)
    <2>1. PICK new : /\ IsOpen(h) /\ pc' = "flush" /\ MaySeek(file_num[h], new)
                     /\ call' = [NoCall EXCEPT !.op = "lseek", !.fd = h, !.seeking = TRUE,
                                    !.flush = "seek", !.old = Pos(file_num[h]), !.new = new]
      BY <1>5 DEF Lseek, Has, Start, IsOpen
    <2>2. call'.op = "lseek" /\ call'.fd = h /\ call'.flush = "seek" /\ call'.old = Pos(file_num[h])
      BY <2>1 DEF NoCall
    <2> QED BY <1>1, <2>1, <2>2, SeekHasRoom, StartSafe
  <1>6. CASE \E bs \in Payloads : Write(h, bs)
    <2>1. PICK bs \in Payloads : Write(h, bs)
      BY <1>6
    <2>2. IsOpen(h) /\ "WRITE" \in file_num[h].flags
      BY <2>1 DEF Write, Has, IsOpen
    <2>3. CASE "APPEND" \notin file_num[h].flags
      <3>1. pc' = "byte" /\ call' = [NoCall EXCEPT !.op = "write", !.fd = h, !.todo = bs]
        BY <2>1, <2>3 DEF Write, Start
      <3>2. call'.op = "write" /\ call'.fd = h /\ ~call'.seeking
        BY <3>1 DEF NoCall
      <3> QED BY <1>1, <2>2, <3>1, <3>2, StartSafe
    <2>4. CASE "APPEND" \in file_num[h].flags
      <3> DEFINE c == [NoCall EXCEPT !.op = "write", !.fd = h, !.todo = bs]
                 f == file_num[h]
      <3>1. /\ pc' = "flush" /\ MaySeek(f, f.size)
            /\ call' = [c EXCEPT !.seeking = TRUE, !.flush = "seek",
                                 !.old = Pos(f), !.new = f.size]
        BY <2>1, <2>4 DEF Write, Start
      <3>2. call'.op = "write" /\ call'.fd = h /\ call'.flush = "seek" /\ call'.old = Pos(f)
        BY <3>1 DEF NoCall
      <3> QED BY <1>1, <2>2, <3>1, <3>2, SeekHasRoom, StartSafe
    <2> QED BY <2>3, <2>4
  <1> QED BY <1>2, <1>3, <1>4, <1>5, <1>6

(***************************************************************************)
(* The theorem.                                                            *)
(***************************************************************************)

\* The formatted volume.
LEMMA InitSafe == Init => VolumeInv
  <1> SUFFICES ASSUME Init PROVE VolumeInv
    OBVIOUS
  <1>1. /\ \A h \in Handles : file_num[h] = Closed /\ ~IsOpen(h)
        /\ \A s \in Slots : dir[s].kind = "end" /\ ~Live(s)
        /\ \A c \in FatIndex : fat[c] = (IF c < 2 THEN EndMarker ELSE 0) /\ owner[c] = 0
        /\ pc = "idle"
    BY DEF Init, IsOpen, Closed, Live, EmptySlot
  <1>2. FatInv
    <2>1. \A c \in Clusters : fat[c] = 0 /\ owner[c] = 0
      BY <1>1, Markers, GeometryAssumption DEF Clusters
    <2>2. fat[0] = EndMarker /\ fat[1] = EndMarker
      BY <1>1, Markers
    <2> QED BY <2>1, <2>2, Markers DEF FatInv
  <1>3. DirInv
    BY <1>1 DEF DirInv
  <1>4. HandleInv
    BY <1>1 DEF HandleInv, ClosedInv, FilesInv, EntryInv, ApartInv
  <1>5. CallInv /\ SeekInv /\ FreeInv
    BY <1>1 DEF CallInv, SeekInv, FreeInv, FreeLabels, NeedsStored
  <1> QED BY <1>2, <1>3, <1>4, <1>5 DEF VolumeInv

\* Memory is lost, the disk stays as it is.
LEMMA CrashSafe ==
  ASSUME VolumeInv, Crash
  PROVE  VolumeInv'
  <1>1. /\ pc' = "idle" /\ UNCHANGED <<fat, dir, owner>>
        /\ \A h \in Handles : file_num'[h] = Closed
    BY DEF Crash, NoWrite
  <1>2. HandleInv'
    <2>1. \A h \in Handles : ~IsOpen(h)'
      BY <1>1 DEF IsOpen, Closed
    <2> QED BY <1>1, <2>1 DEF HandleInv, ClosedInv, FilesInv, EntryInv, ApartInv
  <1> QED BY <1>1, <1>2, IdleSafe

\* Every step keeps the volume in order.
LEMMA NextSafe ==
  ASSUME SafeUse, TypeInv, VolumeInv, [Next]_vars
  PROVE  VolumeInv'
  <1>0. TypeOK
    BY DEF TypeInv
  <1>1. CASE FlushStep
    BY <1>0, <1>1, FlushCleanSafe, FlushNoSpaceSafe, FlushWriteSafe, FlushWriteFailsSafe,
       FlushAllocateSafe DEF FlushStep
  <1>2. CASE InfoStep
    BY <1>0, <1>2, DirectoryWorks, InfoSkipSafe, InfoWriteSafe DEF InfoStep
  <1>3. CASE NextStep
    BY <1>0, <1>3, SectorHopSafe, SectorEndSafe, SelectClusterSafe, NextReturnsSafe,
       NextChainSafe, NextAllocateSafe DEF NextStep
  <1>4. CASE SeekStep
    BY <1>0, <1>4, SeekFlushedSafe, SeekSectorSafe, SeekMovesSafe DEF SeekStep
  <1>5. CASE ByteStep
    BY <1>0, <1>5, BytesSafe
  <1>6. CASE FreeStep
    BY <1>0, <1>6, FreeEntrySafe, FreedSafe, DeleteEntrySafe DEF FreeStep
  <1>7. CASE CloseInfo \/ Return
    BY <1>0, <1>7, CloseInfoSafe, ReturnSafe
  <1>8. CASE Begin
    <2>1. CASE \E n \in Names :
                 \/ OpenNoHandle(n) \/ Unlink(n) \/ UnlinkRefused(n) \/ UnlinkOverlooked(n)
                 \/ \E m \in Modes :
                      \/ OpenFound(n, m) \/ OpenUnread(n, m)
                      \/ \E ro \in RoModes : OpenMissing(n, m, ro) \/ OpenOverlooked(n, m, ro)
      BY <1>0, <2>1, DirectoryWorks, NameCallsSafe, OpenFoundSafe, OpenMissingSafe
    <2>2. CASE \E h \in Handles :
                 \/ Close(h) \/ BadHandle(h)
                 \/ \E bs \in Payloads : Write(h, bs)
                 \/ \E n \in 1 .. MaxCount : Read(h, n)
                 \/ \E w \in {"SET", "CUR", "END"}, p \in -MaxSize .. MaxSize : Lseek(h, p, w)
      BY <1>0, <2>2, HandleCallsSafe
    <2> QED BY <1>8, <2>1, <2>2 DEF Begin
  <1>9. CASE Crash
    BY <1>9, CrashSafe
  <1>10. CASE UNCHANGED vars
    <2>1. /\ UNCHANGED <<fat, dir, owner, file_num, pc, call>>
      BY <1>10 DEF vars
    <2>2. FatInv' /\ DirInv' /\ HandleInv'
      BY <2>1, Unwritten, FilesSame DEF VolumeInv
    <2>3. CallInv' /\ SeekInv' /\ FreeInv'
      BY <2>1 DEF VolumeInv, CallInv, SeekInv, FreeInv, FreeLabels, NeedsStored, OwnCluster,
                  NobodyHas, Live, IsOpen, Cur
    <2> QED BY <2>2, <2>3 DEF VolumeInv
  <1> QED BY <1>1, <1>2, <1>3, <1>4, <1>5, <1>6, <1>7, <1>8, <1>9, <1>10 DEF Next, Step

\* A volume in order has no cluster in two places and no name twice.
LEMMA InOrder == VolumeInv => NoCrossLink /\ UniqueNames
  <1> SUFFICES ASSUME VolumeInv PROVE NoCrossLink /\ UniqueNames
    OBVIOUS
  <1>1. UniqueNames
    BY DEF UniqueNames, VolumeInv, DirInv
  <1>2. /\ \A s \in Slots : Live(s) => dir[s].first \in Clusters /\ owner[dir[s].first] = dir[s].first
        /\ \A c \in Clusters : fat[c] = 0 <=> owner[c] = 0
        /\ \A c \in Clusters : fat[c] \in {0, EndMarker} \cup Clusters
        /\ \A c \in Clusters : fat[c] \in Clusters =>
             owner[fat[c]] = owner[c] /\ fat[c] # owner[c]
    BY DEF VolumeInv, FatInv, DirInv
  <1>3. \A s \in Slots : Live(s) => fat[dir[s].first] # 0
    BY <1>2, Markers
  <1>4. \A c \in Clusters : fat[c] \in Clusters => fat[fat[c]] # 0
    BY <1>2, Markers
  <1>5. \A s \in Slots, c \in Clusters : Live(s) => fat[c] # dir[s].first
    BY <1>2
  <1>6. /\ \A s, t \in Slots : Live(s) /\ Live(t) /\ s # t => dir[s].first # dir[t].first
        /\ \A c, d \in Clusters : fat[c] \in Clusters /\ c # d => fat[c] # fat[d]
    BY DEF VolumeInv, DirInv, FatInv
  <1> QED BY <1>1, <1>2, <1>3, <1>4, <1>5, <1>6 DEF NoCrossLink

\* As long as callers keep to SafeUse, every reachable state of the volume is in
\* order: the FAT is a set of disjoint chains of which the directory entries name
\* the heads, and each handle, each running call and each half-written chain
\* refers to a cluster of the file it belongs to.
THEOREM VolumeInOrder == ASSUME SafeUse PROVE Spec => []VolumeInv
  <1>1. Init => TypeInv /\ VolumeInv
    BY InitType, InitSafe
  <1>2. TypeInv /\ VolumeInv /\ [Next]_vars => TypeInv' /\ VolumeInv'
    BY NextKeepsType, NextSafe
  <1> QED BY <1>1, <1>2, PTL DEF Spec

\* As long as callers keep to SafeUse, in every state - in the middle of any
\* call and after a power loss at any block write - no cluster is referred to
\* twice or marked free while referred to: for every geometry and any number of
\* files, handles, calls and crashes.
THEOREM CrossLinkFree == ASSUME SafeUse PROVE Spec => []NoCrossLink
  <1>1. VolumeInv => NoCrossLink
    BY InOrder
  <1> QED BY <1>1, VolumeInOrder, PTL

\* And no two entries of the directory have one name, whatever is created,
\* deleted and cut off.
THEOREM NamesStayUnique == ASSUME SafeUse PROVE Spec => []UniqueNames
  <1>1. VolumeInv => UniqueNames
    BY InOrder
  <1> QED BY <1>1, VolumeInOrder, PTL

(***************************************************************************)
(* What keeps data out of the boot sector, the FAT and the directory,      *)
(* however files are shared, unlinked while open or truncated and whatever *)
(* block operations fail: a handle that may write is on a sector of some   *)
(* cluster, with the right number of sectors left in it, as long as        *)
(* writers only go forward.                                                *)
(***************************************************************************)
NoWriterSeeks ==
  "seek" \notin Usage /\ \A m \in Modes : ~({"WRITE", "APPEND"} \subseteq m)

\* The handle is on a sector of cluster c; sectors_left counts to the last one.
PlacedAt(f, c) ==
  /\ f.sectors_left < SectorsPerCluster
  /\ f.sector + f.sectors_left = SectorOf(c) + SectorsPerCluster - 1
Placed(f) ==
  \/ f.sector = 0 /\ f.sectors_left = 0
  \/ \E c \in Clusters : PlacedAt(f, c)

\* Entry 1 of the FAT is never free and nothing refers to it; entry 0 may be freed.
NumbersInv ==
  /\ fat[1] # 0 /\ \A c \in FatIndex : fat[c] # 1
  /\ call.res # 1 /\ 1 \notin call.zeroed
  /\ \A s \in Slots : Live(s) => dir[s].first # 1
  /\ \A h \in Handles : file_num[h].first # 1 /\ file_num[h].cluster # 1
WritersInv == \A h \in Handles :
  /\ "WRITE" \in file_num[h].flags => Placed(file_num[h]) /\ "APPEND" \notin file_num[h].flags
  /\ "DIRTY" \in file_num[h].flags => "WRITE" \in file_num[h].flags
\* Only fat_lseek of a handle that cannot write moves freely.
SeekLabels == {"seek", "case", "walk", "walked"}
OnlyReadersSeek ==
  /\ call.seeking \/ call.flush = "seek" \/ call.next = "walk" \/ pc \in SeekLabels =>
       call.op = "lseek"
  /\ call.op = "lseek" => "WRITE" \notin Cur.flags
  /\ call.op = "write" => "WRITE" \in Cur.flags
LabelsInv ==
  /\ pc = "idle" => call.op = "none"
  /\ pc = "data" => "WRITE" \in Cur.flags /\ Cur.sector # 0
  /\ pc \in {"select", "chain"} \/ (pc = "info" /\ call.info = "next") => call.res \in Clusters
MetaInv == NumbersInv /\ WritersInv /\ OnlyReadersSeek /\ LabelsInv

-----------------------------------------------------------------------------
(* Sectors and clusters. *)

\* The sectors of the volume's clusters: no sector number wraps.
LEMMA ClusterSectors ==
  ASSUME NEW c \in Clusters
  PROVE  /\ SectorOf(c) = c * SectorsPerCluster + Cluster0
         /\ SectorOf(c) \in Nat \ {0} /\ SectorOf(c) >= FirstData
         /\ SectorOf(c) + SectorsPerCluster - 1 <= LastSector
  <1> DEFINE s == c * SectorsPerCluster
             t == LastCluster * SectorsPerCluster
             u == 2 * SectorsPerCluster
  <1>1. /\ c \in Nat /\ 2 <= c /\ c <= LastCluster /\ LastCluster \in Nat
        /\ SectorsPerCluster \in Nat \ {0} /\ Cluster0 \in Nat /\ Word \in Nat
        /\ LastSector < Word
    BY GeometryAssumption DEF Clusters
  <1>2. s \in Nat /\ t \in Nat /\ u \in Nat /\ u <= s /\ s <= t /\ u # 0
    BY <1>1, MulMonotone
  <1>3. LastSector = t + Cluster0 + SectorsPerCluster - 1 /\ FirstData = u + Cluster0
    BY DEF LastSector, FirstData
  <1> HIDE DEF s, t, u
  <1>4. s + Cluster0 < Word
    BY <1>1, <1>2, <1>3
  <1>5. (s + Cluster0) % Word = s + Cluster0
    BY <1>1, <1>2, <1>4
  <1>6. SectorOf(c) = s + Cluster0
    BY <1>5 DEF SectorOf, s
  <1> QED BY <1>1, <1>2, <1>3, <1>6 DEF s

\* A handle on a sector of a cluster is on a sector of the data area.
LEMMA PlacedInData ==
  ASSUME NEW f \in FileS, NEW c \in Clusters, PlacedAt(f, c)
  PROVE  /\ f.sector \in Sectors /\ f.sector >= FirstData
         /\ f.sector >= SectorOf(c) /\ f.sector < SectorOf(c) + SectorsPerCluster
  <1>1. f.sector \in 0 .. Bad /\ f.sectors_left \in 0 .. 255
    BY DEF FileS
  <1>2. /\ SectorOf(c) \in Nat \ {0} /\ SectorOf(c) >= FirstData
        /\ SectorOf(c) + SectorsPerCluster - 1 <= LastSector
    BY ClusterSectors
  <1>3. SectorsPerCluster \in Nat /\ LastSector \in Int /\ FirstData \in Nat
    BY GeometryAssumption DEF LastSector, FirstData
  <1>4. /\ f.sectors_left < SectorsPerCluster
        /\ f.sector + f.sectors_left = SectorOf(c) + SectorsPerCluster - 1
    BY DEF PlacedAt
  <1>5. f.sector >= SectorOf(c) /\ f.sector < SectorOf(c) + SectorsPerCluster
    BY <1>1, <1>2, <1>3, <1>4
  <1>6. f.sector >= FirstData /\ f.sector <= LastSector
    BY <1>1, <1>2, <1>3, <1>4
  <1>7. f.sector \in 1 .. LastSector
    BY <1>1, <1>2, <1>3, <1>5, <1>6
  <1> QED BY <1>5, <1>6, <1>7 DEF Sectors

\* The next sector of the cluster, while any is left.
LEMMA NextSectorPlaced ==
  ASSUME NEW f \in FileS, NEW c \in Clusters, PlacedAt(f, c), MoreSectors(f)
  PROVE  /\ (f.sector + 1) % Word = f.sector + 1
         /\ f.sectors_left - 1 < SectorsPerCluster
         /\ f.sector + 1 + (f.sectors_left - 1) = SectorOf(c) + SectorsPerCluster - 1
  <1>1. f.sector \in Nat /\ f.sectors_left \in 0 .. 255 /\ f.sectors_left > 0
    BY DEF FileS, MoreSectors, Bad
  <1>2. SectorOf(c) \in Nat /\ SectorOf(c) + SectorsPerCluster - 1 <= LastSector
    BY ClusterSectors
  <1>3. SectorsPerCluster \in Nat /\ LastSector \in Int /\ LastSector < Word /\ Word \in Nat
    BY GeometryAssumption DEF LastSector
  <1> DEFINE a == f.sector
             l == f.sectors_left
  <1>4. l < SectorsPerCluster /\ a + l = SectorOf(c) + SectorsPerCluster - 1
    BY DEF PlacedAt
  <1> HIDE DEF a, l
  <1>5. a + 1 \in Nat /\ a + 1 <= LastSector /\ a \in Nat /\ l \in Nat
    BY <1>1, <1>2, <1>3, <1>4 DEF a, l
  <1>6. (a + 1) % Word = a + 1
    BY <1>3, <1>5
  <1>7. l - 1 < SectorsPerCluster /\ a + 1 + (l - 1) = SectorOf(c) + SectorsPerCluster - 1
    BY <1>2, <1>3, <1>4, <1>5
  <1> QED BY <1>6, <1>7 DEF a, l

\* The first sector of a cluster.
LEMMA FirstSectorPlaced ==
  ASSUME NEW c \in Clusters, NEW f, f.sector = SectorOf(c),
         f.sectors_left = SectorsPerCluster - 1
  PROVE  PlacedAt(f, c)
  <1>1. SectorOf(c) \in Nat /\ SectorsPerCluster \in Nat \ {0}
    BY ClusterSectors, GeometryAssumption
  <1> QED BY <1>1 DEF PlacedAt

-----------------------------------------------------------------------------
(* The metadata. *)

\* The file of the running call changes.
LEMMA CurWriter ==
  ASSUME TypeOK, MetaInv, NEW f, SetCur(f), f.first # 1, f.cluster # 1,
         "WRITE" \in f.flags => Placed(f) /\ "APPEND" \notin f.flags,
         "DIRTY" \in f.flags => "WRITE" \in f.flags
  PROVE  /\ WritersInv'
         /\ \A h \in Handles : file_num'[h].first # 1 /\ file_num'[h].cluster # 1
  <1>1. \A h \in Handles : file_num'[h] = IF h = call.fd THEN f ELSE file_num[h]
    BY DEF SetCur, TypeOK
  <1>2. ASSUME NEW h \in Handles
        PROVE  /\ file_num'[h].first # 1 /\ file_num'[h].cluster # 1
               /\ "WRITE" \in file_num'[h].flags =>
                    Placed(file_num'[h]) /\ "APPEND" \notin file_num'[h].flags
               /\ "DIRTY" \in file_num'[h].flags => "WRITE" \in file_num'[h].flags
    <2>1. CASE h = call.fd
      BY <1>1, <2>1
    <2>2. CASE h # call.fd
      BY <1>1, <2>2 DEF MetaInv, NumbersInv, WritersInv, Placed, PlacedAt
    <2> QED BY <2>1, <2>2
  <1> QED BY <1>2 DEF WritersInv, Placed, PlacedAt

\* The labels a subroutine returns to that know nothing.
Forward ==
  {"byte", "done", "fail", "closing", "flush", "sector", "next", "delete",
   "free", "freed", "lost"} \cup
  (IF call.op = "lseek" THEN SeekLabels ELSE {})
LEMMA ReturnsForward ==
  ASSUME OnlyReadersSeek
  PROVE  /\ \A ok \in BOOLEAN : AfterSector(ok) \in Forward /\ AfterFlush(ok) \in Forward
         /\ AfterNext(Bad) \in Forward
         /\ \A c : AfterNext(c) \in Forward \cup {"select"}
         /\ \A ok \in BOOLEAN : AfterInfo(ok) \in Forward \cup {"select"}
         /\ \A ok \in BOOLEAN : call.info # "next" => AfterInfo(ok) \in Forward
  <1>1. \A ok \in BOOLEAN : AfterSector(ok) \in Forward
    BY DEF OnlyReadersSeek, AfterSector, Forward, SeekLabels
  <1>2. AfterNext(Bad) \in Forward /\ \A c : AfterNext(c) \in Forward \cup {"select"}
    BY <1>1 DEF OnlyReadersSeek, AfterNext, Forward, SeekLabels
  <1>3. \A ok \in BOOLEAN : AfterFlush(ok) \in Forward
    BY <1>1, <1>2 DEF OnlyReadersSeek, AfterFlush, Forward, SeekLabels
  <1>4. /\ \A ok \in BOOLEAN : AfterInfo(ok) \in Forward \cup {"select"}
        /\ \A ok \in BOOLEAN : call.info # "next" => AfterInfo(ok) \in Forward
    BY <1>2, <1>3 DEF AfterInfo, Forward
  <1> QED BY <1>1, <1>2, <1>3, <1>4

\* The call goes on, on the same handle and with the same right to write.
SameCall ==
  /\ call'.op = call.op /\ call'.fd = call.fd
  /\ "WRITE" \in Cur'.flags <=> "WRITE" \in Cur.flags
  /\ call'.seeking => call.seeking
  /\ call'.flush = "seek" => call.flush = "seek"
  /\ call'.next = "walk" => call.next = "walk" \/ call.op = "lseek"
LEMMA GoesForward ==
  ASSUME MetaInv, SameCall, pc' \in Forward \/ (pc' = "select" /\ call'.res \in Clusters)
  PROVE  OnlyReadersSeek' /\ LabelsInv'
  BY DEF MetaInv, SameCall, Forward, OnlyReadersSeek, LabelsInv, SeekLabels

\* Nothing refers to entry 1 of the FAT that did not before.
LEMMA NumbersKept ==
  ASSUME MetaInv, UNCHANGED <<fat, dir>>, call'.res # 1, 1 \notin call'.zeroed,
         \A h \in Handles : file_num'[h].first # 1 /\ file_num'[h].cluster # 1
  PROVE  NumbersInv'
  BY DEF MetaInv, NumbersInv, Live

\* Marking a cluster as the end of a chain.
LEMMA ClaimNumbers ==
  ASSUME TypeOK, MetaInv, NEW k \in FatIndex, FreeCluster(k), NEW o, Claim(k, o)
  PROVE  /\ k # 1 /\ fat'[1] # 0 /\ \A c \in FatIndex : fat'[c] # 1
         /\ k # 0 => k \in Clusters
  <1>1. fat \in [FatIndex -> 0 .. EndMarker] /\ k # 1
    BY DEF TypeOK, FreeCluster, MetaInv, NumbersInv
  <1>2. EndMarker # 0 /\ EndMarker # 1 /\ 1 \in FatIndex
    BY GeometryAssumption DEF EndMarker, FatIndex
  <1>3. \A c \in FatIndex : fat'[c] = IF c = k THEN EndMarker ELSE fat[c]
    BY <1>1 DEF Claim
  <1>4. k # 0 => k \in Clusters
    BY <1>1, GeometryAssumption DEF FatIndex, Clusters
  <1> QED BY <1>1, <1>2, <1>3, <1>4 DEF MetaInv, NumbersInv

\* What the invariant says of the file and the call at hand.
LEMMA AtCur ==
  ASSUME TypeOK, MetaInv
  PROVE  /\ call.fd \in Handles /\ Cur \in FileS /\ call \in Calls
         /\ Cur.first # 1 /\ Cur.cluster # 1 /\ call.res # 1 /\ 1 \notin call.zeroed
         /\ "WRITE" \in Cur.flags => Placed(Cur) /\ "APPEND" \notin Cur.flags
         /\ "DIRTY" \in Cur.flags => "WRITE" \in Cur.flags
  <1>1. call.fd \in Handles /\ Cur \in FileS /\ call \in Calls
    BY CurType DEF TypeOK
  <1> QED BY <1>1 DEF MetaInv, NumbersInv, WritersInv, Cur, Placed, PlacedAt

\* Neither entry number 0 nor the number that means none is 1.
LEMMA NotOne == Bad # 1 /\ 0 # 1 /\ Bad # 0
  BY GeometryAssumption DEF Bad

\* A step of a call that leaves the FAT and the directory alone.
LEMMA QuietMeta ==
  ASSUME TypeOK, MetaInv, UNCHANGED <<fat, dir>>, NEW f,
         pc' \in Forward \/ (pc' = "select" /\ call'.res \in Clusters),
         SetCur(f), f.first \in {0, Cur.first}, f.cluster # 1, f.flags \subseteq Cur.flags \cup
           {"FS_DIRTY"} \cup (IF "WRITE" \in Cur.flags THEN {"DIRTY"} ELSE {}),
         "WRITE" \in Cur.flags => "WRITE" \in f.flags /\ Placed(f),
         call'.op = call.op, call'.fd = call.fd, call'.seeking => call.seeking,
         call'.flush = "seek" => call.flush = "seek",
         call'.next = "walk" => call.next = "walk" \/ call.op = "lseek",
         call'.res # 1, 1 \notin call'.zeroed
  PROVE  MetaInv'
  <1>1. Cur' = f
    BY CurAfter
  <1>2. SameCall
    BY <1>1 DEF SameCall
  <1>3. /\ "WRITE" \in f.flags => Placed(f) /\ "APPEND" \notin f.flags
        /\ "DIRTY" \in f.flags => "WRITE" \in f.flags
        /\ f.first # 1
    BY AtCur, NotOne
  <1>4. WritersInv' /\ \A h \in Handles : file_num'[h].first # 1 /\ file_num'[h].cluster # 1
    BY <1>3, CurWriter
  <1> QED BY <1>2, <1>4, GoesForward, NumbersKept DEF MetaInv

-----------------------------------------------------------------------------
(* The steps. *)

\* fat_flush.
LEMMA FlushMeta ==
  ASSUME TypeOK, MetaInv, FlushStep
  PROVE  MetaInv'
  <1>0. OnlyReadersSeek
    BY DEF MetaInv
  <1>1. CASE FlushClean \/ FlushNoSpace \/ FlushWriteFails
    <2>1. pc' \in Forward /\ UNCHANGED <<fat, dir, call, file_num>>
      BY <1>0, <1>1, ReturnsForward DEF FlushClean, FlushNoSpace, FlushWriteFails, NoWrite
    <2>2. SetCur(Cur)
      BY <2>1, SameCur
    <2> QED BY <2>1, <2>2, AtCur, QuietMeta
  <1>2. CASE FlushWrite
    <2> DEFINE f == [Cur EXCEPT !.flags = @ \ {"DIRTY"}]
    <2>1. SetCur(f) /\ UNCHANGED <<fat, dir>>
      BY <1>2 DEF FlushWrite
    <2>2. /\ f.first = Cur.first /\ f.cluster = Cur.cluster /\ f.flags = Cur.flags \ {"DIRTY"}
          /\ f.sector = Cur.sector /\ f.sectors_left = Cur.sectors_left
      BY AtCur DEF FileS
    <2>3. "WRITE" \in Cur.flags => "WRITE" \in f.flags /\ Placed(f)
      BY <2>2, AtCur DEF Placed, PlacedAt
    <2>4. CASE pc = "data"
      <3>1. pc' = "info" /\ call' = [call EXCEPT !.info = "flush"]
        BY <1>2, <2>4 DEF FlushWrite
      <3>2. /\ call'.op = call.op /\ call'.fd = call.fd /\ call'.seeking = call.seeking
            /\ call'.flush = call.flush /\ call'.next = call.next /\ call'.res = call.res
            /\ call'.zeroed = call.zeroed /\ call'.info = "flush"
        BY <3>1, AtCur DEF Calls
      <3>3. Cur' = f
        BY <2>1, <3>2, CurAfter
      <3>4. OnlyReadersSeek' /\ LabelsInv'
        BY <2>2, <3>1, <3>2, <3>3 DEF MetaInv, OnlyReadersSeek, LabelsInv, SeekLabels
      <3>5. /\ WritersInv'
            /\ \A h \in Handles : file_num'[h].first # 1 /\ file_num'[h].cluster # 1
        <4>1. /\ f.first # 1 /\ f.cluster # 1
              /\ "WRITE" \in f.flags => Placed(f) /\ "APPEND" \notin f.flags
              /\ "DIRTY" \in f.flags => "WRITE" \in f.flags
          BY <2>2, <2>3, AtCur
        <4> QED BY <2>1, <4>1, CurWriter
      <3> QED BY <2>1, <3>2, <3>4, <3>5, AtCur, NumbersKept DEF MetaInv
    <2>5. CASE pc # "data"
      <3>1. pc' \in Forward /\ call' = call
        BY <1>0, <1>2, <2>5, ReturnsForward DEF FlushWrite
      <3> HIDE DEF f
      <3> QED BY <2>1, <2>2, <2>3, <3>1, AtCur, QuietMeta
    <2> QED BY <2>4, <2>5
  <1>3. ASSUME NEW k \in FatIndex, FlushAllocate(k) PROVE MetaInv'
    <2> DEFINE f == [Cur EXCEPT !.first = k, !.cluster = k, !.sector = SectorOf(k),
                                !.sectors_left = SectorsPerCluster - 1,
                                !.flags = @ \cup {"FS_DIRTY"}]
    <2>1. /\ FreeCluster(k) /\ Claim(k, k) /\ UNCHANGED <<dir, call>> /\ "DIRTY" \in Cur.flags
      BY <1>3 DEF FlushAllocate
    <2>2. /\ k # 1 /\ fat'[1] # 0 /\ \A c \in FatIndex : fat'[c] # 1
          /\ k # 0 => k \in Clusters
      BY <2>1, ClaimNumbers
    <2>3. CASE k = 0
      <3>1. pc' \in Forward /\ UNCHANGED file_num
        BY <1>0, <1>3, <2>3, ReturnsForward DEF FlushAllocate
      <3>2. SameCall
        BY <2>1, <3>1 DEF SameCall, Cur
      <3>3. OnlyReadersSeek' /\ LabelsInv'
        BY <3>1, <3>2, GoesForward
      <3> QED BY <2>1, <2>2, <3>1, <3>3 DEF MetaInv, NumbersInv, WritersInv, Live, Placed, PlacedAt
    <2>4. CASE k # 0
      <3>1. pc' = "data" /\ SetCur(f)
        BY <1>3, <2>4 DEF FlushAllocate
      <3>2. /\ f.first = k /\ f.cluster = k /\ f.flags = Cur.flags \cup {"FS_DIRTY"}
            /\ f.sector = SectorOf(k) /\ f.sectors_left = SectorsPerCluster - 1
        BY AtCur DEF FileS
      <3> HIDE DEF f
      <3>3. Placed(f) /\ f.sector # 0
        <4>1. k \in Clusters
          BY <2>2, <2>4
        <4>2. PlacedAt(f, k)
          BY <3>2, <4>1, FirstSectorPlaced
        <4> QED BY <3>2, <4>1, <4>2, ClusterSectors DEF Placed
      <3>4. "WRITE" \in Cur.flags /\ "APPEND" \notin Cur.flags
        BY <2>1, AtCur
      <3>5. WritersInv' /\ \A h \in Handles : file_num'[h].first # 1 /\ file_num'[h].cluster # 1
        BY <2>2, <3>1, <3>2, <3>3, <3>4, CurWriter
      <3>6. Cur' = f
        BY <2>1, <3>1, CurAfter
      <3>7. OnlyReadersSeek' /\ LabelsInv'
        BY <2>1, <3>1, <3>2, <3>3, <3>4, <3>6 DEF MetaInv, OnlyReadersSeek, LabelsInv, SeekLabels
      <3>8. NumbersInv'
        BY <2>1, <2>2, <3>5 DEF MetaInv, NumbersInv, Live
      <3> QED BY <3>5, <3>7, <3>8 DEF MetaInv
    <2> QED BY <2>3, <2>4
  <1> QED BY <1>1, <1>2, <1>3 DEF FlushStep

\* What a directory holds that file data is written over was live before.
LiveIn(d) == \A s \in Slots : d[s].kind = "file" => Live(s) /\ d[s] = dir[s]
LEMMA OverwrittenLive ==
  ASSUME TypeInv, NEW b, NEW Z
  PROVE  /\ Overwritten(b, Z) \in [Slots -> DirEntry] /\ LiveIn(Overwritten(b, Z))
         /\ [DataSlot EXCEPT !.kind = "deleted"].kind # "file"
  <1>1. \A s \in Slots : Overwritten(b, Z)[s] \in {dir[s], EmptySlot, DataSlot}
    BY DEF Overwritten
  <1>2. EmptySlot.kind # "file" /\ DataSlot.kind # "file"
    BY DEF EmptySlot, DataSlot
  <1>3. [DataSlot EXCEPT !.kind = "deleted"].kind # "file"
    BY DEF EmptySlot, DataSlot
  <1>4. LiveIn(Overwritten(b, Z))
    BY <1>1, <1>2 DEF LiveIn, Live
  <1> QED BY <1>3, <1>4, OverwrittenType

\* fat_flush_fileinfo.
LEMMA InfoMeta ==
  ASSUME TypeInv, MetaInv, InfoStep
  PROVE  MetaInv'
  <1>0. TypeOK /\ OnlyReadersSeek /\ pc = "info"
    BY DEF TypeInv, MetaInv, InfoStep, InfoSkip, InfoWrite, InfoWriteFails, InfoUnreadable, InfoAstray,
       InfoLost
  <1>1. PICK f : /\ SetCur(f) /\ f.first = Cur.first /\ f.cluster = Cur.cluster
                 /\ f.sector = Cur.sector /\ f.sectors_left = Cur.sectors_left
                 /\ f.flags \subseteq Cur.flags /\ ("WRITE" \in Cur.flags => "WRITE" \in f.flags)
    <2>1. CASE InfoSkip \/ InfoUnreadable \/ InfoLost
      BY <2>1, SameCur, <1>0 DEF InfoSkip, InfoUnreadable, InfoLost
    <2>2. ASSUME NEW s \in Slots, InfoWrite(s) \/ InfoWriteFails(s) \/ InfoAstray(s)
          PROVE  \E f : /\ SetCur(f) /\ f.first = Cur.first /\ f.cluster = Cur.cluster
                        /\ f.sector = Cur.sector /\ f.sectors_left = Cur.sectors_left
                        /\ f.flags \subseteq Cur.flags
                        /\ ("WRITE" \in Cur.flags => "WRITE" \in f.flags)
      <3> DEFINE g == [Cur EXCEPT !.entry = s, !.buffer = MetaBlock]
      <3>1. SetCur(Saved(Cur, s)) \/ SetCur(g)
        BY <2>2 DEF InfoWrite, InfoWriteFails, InfoAstray
      <3>2. /\ Saved(Cur, s).first = Cur.first /\ Saved(Cur, s).cluster = Cur.cluster
            /\ Saved(Cur, s).sector = Cur.sector
            /\ Saved(Cur, s).sectors_left = Cur.sectors_left
            /\ Saved(Cur, s).flags = Cur.flags \ {"FS_DIRTY"}
        BY AtCur, <1>0 DEF Saved, FileS
      <3>3. /\ g.first = Cur.first /\ g.cluster = Cur.cluster /\ g.sector = Cur.sector
            /\ g.sectors_left = Cur.sectors_left /\ g.flags = Cur.flags
        BY AtCur, <1>0 DEF FileS
      <3> HIDE DEF g
      <3> QED BY <3>1, <3>2, <3>3
    <2> QED BY <2>1, <2>2 DEF InfoStep
  <1>2. call' = call /\ fat' = fat
    BY DEF InfoStep, InfoSkip, InfoWrite, InfoWriteFails, InfoUnreadable, InfoAstray, InfoLost,
       NoWrite
  <1>3. pc' \in Forward \cup {"select"} /\ (call.info # "next" => pc' \in Forward)
    <2>1. pc' \in {AfterInfo(TRUE), AfterInfo(FALSE), "lost"}
      BY DEF InfoStep, InfoSkip, InfoWrite, InfoWriteFails, InfoUnreadable, InfoAstray, InfoLost
    <2> QED BY <1>0, <2>1, ReturnsForward DEF Forward
  <1>4. \A s \in Slots : Live(s)' => dir'[s].first # 1
    <2>1. CASE UNCHANGED dir
      BY <2>1 DEF Live, MetaInv, NumbersInv
    <2>2. ASSUME NEW s \in Slots, NEW d \in [Slots -> DirEntry], LiveIn(d),
                 dir' = [d EXCEPT ![s] = EntryOf(Cur)]
          PROVE  \A t \in Slots : Live(t)' => dir'[t].first # 1
      <3>1. \A t \in Slots : dir'[t] = IF t = s THEN EntryOf(Cur) ELSE d[t]
        BY <2>2
      <3> QED BY <2>2, <3>1, AtCur, <1>0 DEF Live, LiveIn, MetaInv, NumbersInv, EntryOf
    <2>3. dir \in [Slots -> DirEntry] /\ LiveIn(dir)
      BY <1>0 DEF TypeOK, LiveIn, Live
    <2>4. ASSUME NEW s \in Slots, InfoWrite(s) PROVE \A t \in Slots : Live(t)' => dir'[t].first # 1
      BY <2>2, <2>3, <2>4 DEF InfoWrite
    <2>5. ASSUME NEW s \in Slots, InfoAstray(s) PROVE \A t \in Slots : Live(t)' => dir'[t].first # 1
      <3>1. PICK d \in [Slots -> DirEntry] : LiveIn(d) /\ dir' = [d EXCEPT ![s] = EntryOf(Cur)]
        BY <2>3, <2>5, OverwrittenLive DEF InfoAstray
      <3> QED BY <2>2, <3>1
    <2> QED BY <2>1, <2>4, <2>5
            DEF InfoStep, InfoSkip, InfoWriteFails, InfoUnreadable, InfoLost, NoWrite
  <1>5. Cur' = f
    BY <1>1, <1>0, <1>2, CurAfter
  <1>6. WritersInv' /\ \A h \in Handles : file_num'[h].first # 1 /\ file_num'[h].cluster # 1
    <2>1. /\ f.first # 1 /\ f.cluster # 1
          /\ "WRITE" \in f.flags => Placed(f) /\ "APPEND" \notin f.flags
          /\ "DIRTY" \in f.flags => "WRITE" \in f.flags
      BY <1>1, AtCur, <1>0 DEF Placed, PlacedAt
    <2> QED BY <1>1, <1>0, <2>1, CurWriter
  <1>7. NumbersInv'
    BY <1>2, <1>4, <1>6, AtCur, <1>0 DEF MetaInv, NumbersInv
  <1>8. OnlyReadersSeek' /\ LabelsInv'
    <2>1. SameCall
      BY <1>1, <1>2, <1>5 DEF SameCall
    <2>2. CASE pc' \in Forward
      BY <2>1, <2>2, GoesForward
    <2>3. CASE pc' = "select" /\ call.info = "next"
      BY <1>0, <1>2, <2>1, <2>3 DEF MetaInv, SameCall, OnlyReadersSeek, LabelsInv, SeekLabels
    <2> QED BY <1>3, <2>2, <2>3
  <1> QED BY <1>6, <1>7, <1>8 DEF MetaInv

\* fat_next_cluster returns.
LEMMA NextReturnMeta ==
  ASSUME TypeOK, MetaInv, NEW c \in {Bad} \cup Clusters, NextReturn(c),
         UNCHANGED <<fat, dir>>,
         SetCur(Cur) \/ SetCur([Cur EXCEPT !.buffer = MetaBlock])
  PROVE  MetaInv'
  <1>1. PICK f : /\ SetCur(f) /\ f.first = Cur.first /\ f.cluster = Cur.cluster
                 /\ f.sector = Cur.sector /\ f.sectors_left = Cur.sectors_left
                 /\ f.flags = Cur.flags
    <2> DEFINE g == [Cur EXCEPT !.buffer = MetaBlock]
    <2>1. /\ g.first = Cur.first /\ g.cluster = Cur.cluster /\ g.sector = Cur.sector
          /\ g.sectors_left = Cur.sectors_left /\ g.flags = Cur.flags
      BY AtCur DEF FileS
    <2>2. SetCur(Cur) \/ SetCur(g)
      OBVIOUS
    <2> HIDE DEF g
    <2> QED BY <2>1, <2>2
  <1>2. /\ call'.op = call.op /\ call'.fd = call.fd /\ call'.seeking = call.seeking
        /\ call'.flush = call.flush /\ call'.next = call.next /\ call'.res = c
        /\ call'.zeroed = call.zeroed
    BY AtCur DEF Calls, NextReturn
  <1>3. c # 1
    BY NotOne DEF Clusters
  <1>4. pc' \in Forward \/ (pc' = "select" /\ call'.res \in Clusters)
    <2>1. CASE c = Bad
      BY <2>1, ReturnsForward DEF NextReturn, MetaInv
    <2>2. CASE c \in Clusters
      BY <1>2, <2>2, ReturnsForward DEF NextReturn, MetaInv
    <2> QED BY <2>1, <2>2
  <1>5. "WRITE" \in Cur.flags => "WRITE" \in f.flags /\ Placed(f)
    BY <1>1, AtCur DEF Placed, PlacedAt
  <1>6. f.first \in {0, Cur.first} /\ f.cluster # 1 /\ 1 \notin call'.zeroed /\ call'.res # 1
    BY <1>1, <1>2, <1>3, AtCur
  <1>7. f.flags \subseteq Cur.flags \cup {"FS_DIRTY"} \cup
          (IF "WRITE" \in Cur.flags THEN {"DIRTY"} ELSE {})
    BY <1>1
  <1> QED BY <1>1, <1>2, <1>4, <1>5, <1>6, <1>7, QuietMeta

\* fat_next_sector and fat_next_cluster.
LEMMA NextMeta ==
  ASSUME TypeOK, MetaInv, NextStep
  PROVE  MetaInv'
  <1>0. OnlyReadersSeek
    BY DEF MetaInv
  <1>1. CASE SectorHop
    <2> DEFINE s == (Cur.sector + 1) % Word
               g == [Cur EXCEPT !.sectors_left = @ - 1, !.file_sector = @ + 1,
                                !.cursor = 0, !.sector = s]
               h == [g EXCEPT !.buffer = disk[s]]
    <2>1. /\ MoreSectors(Cur) /\ UNCHANGED <<fat, dir, call>> /\ pc' \in Forward
          /\ SetCur(g) \/ SetCur(h)
      BY <1>0, <1>1, ReturnsForward DEF SectorHop, NoWrite
    <2>2. \A f \in {g, h} :
            /\ f.first = Cur.first /\ f.cluster = Cur.cluster /\ f.flags = Cur.flags
            /\ f.sector = s /\ f.sectors_left = Cur.sectors_left - 1
      BY AtCur DEF FileS
    <2>3. PICK f : /\ SetCur(f) /\ f.first = Cur.first /\ f.cluster = Cur.cluster
                   /\ f.flags = Cur.flags /\ f.sector = s
                   /\ f.sectors_left = Cur.sectors_left - 1
      <3> HIDE DEF g, h, s
      <3> QED BY <2>1, <2>2
    <2> HIDE DEF g, h
    <2>4. ASSUME "WRITE" \in Cur.flags PROVE Placed(f)
      <3>1. Cur.sectors_left # 0
        BY <2>1 DEF MoreSectors
      <3>2. PICK c \in Clusters : PlacedAt(Cur, c)
        BY <2>4, <3>1, AtCur DEF Placed
      <3>3. PlacedAt(f, c)
        BY <2>1, <2>3, <3>2, AtCur, NextSectorPlaced DEF PlacedAt
      <3> QED BY <3>3 DEF Placed
    <2> HIDE DEF s
    <2>5. f.first \in {0, Cur.first} /\ f.cluster # 1
      BY <2>3, AtCur
    <2>6. "WRITE" \in Cur.flags => "WRITE" \in f.flags /\ Placed(f)
      BY <2>3, <2>4
    <2>7. f.flags \subseteq Cur.flags \cup {"FS_DIRTY"} \cup
            (IF "WRITE" \in Cur.flags THEN {"DIRTY"} ELSE {})
      BY <2>3
    <2> QED BY <2>1, <2>3, <2>5, <2>6, <2>7, AtCur, QuietMeta
  <1>2. CASE SectorEnd
    <2>1. /\ call' = [call EXCEPT !.next = "sector", !.res = Bad]
          /\ UNCHANGED <<fat, dir, file_num>> /\ pc' \in Forward
      BY <1>2 DEF SectorEnd, NoWrite, Forward
    <2>2. /\ call'.op = call.op /\ call'.fd = call.fd /\ call'.seeking = call.seeking
          /\ call'.flush = call.flush /\ call'.next = "sector" /\ call'.res = Bad
          /\ call'.zeroed = call.zeroed
      BY <2>1, AtCur DEF Calls
    <2>3. SetCur(Cur)
      BY <2>1, SameCur
    <2> QED BY <2>1, <2>2, <2>3, AtCur, NotOne, QuietMeta
  <1>3. CASE SelectCluster
    <2> DEFINE s == SectorOf(call.res)
               g == [Cur EXCEPT !.file_sector = @ + 1, !.sector = s,
                                !.sectors_left = SectorsPerCluster - 1,
                                !.cluster = call.res, !.cursor = 0]
               h == [g EXCEPT !.buffer = disk[s]]
    <2>1. /\ UNCHANGED <<fat, dir, call>> /\ pc' \in Forward /\ pc = "select"
          /\ SetCur(g) \/ SetCur(h)
      BY <1>0, <1>3, ReturnsForward DEF SelectCluster, NoWrite
    <2>2. \A f \in {g, h} :
            /\ f.first = Cur.first /\ f.cluster = call.res /\ f.flags = Cur.flags
            /\ f.sector = s /\ f.sectors_left = SectorsPerCluster - 1
      BY AtCur DEF FileS
    <2>3. PICK f : /\ SetCur(f) /\ f.first = Cur.first /\ f.cluster = call.res
                   /\ f.flags = Cur.flags /\ f.sector = s
                   /\ f.sectors_left = SectorsPerCluster - 1
      <3> HIDE DEF g, h, s
      <3> QED BY <2>1, <2>2
    <2> HIDE DEF g, h
    <2>4. Placed(f)
      <3>1. call.res \in Clusters
        BY <2>1 DEF MetaInv, LabelsInv
      <3>2. PlacedAt(f, call.res)
        BY <2>3, <3>1, FirstSectorPlaced
      <3> QED BY <3>1, <3>2 DEF Placed
    <2> HIDE DEF s
    <2>5. f.first \in {0, Cur.first} /\ f.cluster # 1
      BY <2>3, AtCur
    <2>6. "WRITE" \in Cur.flags => "WRITE" \in f.flags /\ Placed(f)
      BY <2>3, <2>4
    <2>7. f.flags \subseteq Cur.flags \cup {"FS_DIRTY"} \cup
            (IF "WRITE" \in Cur.flags THEN {"DIRTY"} ELSE {})
      BY <2>3
    <2> QED BY <2>1, <2>3, <2>5, <2>6, <2>7, AtCur, QuietMeta
  <1>4. CASE NextLink
    <2> DEFINE j == fat[Cur.cluster]
    <2>1. /\ UNCHANGED <<fat, dir>> /\ SetCur([Cur EXCEPT !.buffer = MetaBlock])
          /\ j < EndMarker /\ NextReturn(IF j < 2 THEN Bad ELSE j)
          /\ Cur.cluster \in FatIndex
      BY <1>4 DEF NextLink, NoWrite
    <2>2. j \in 0 .. EndMarker
      BY <2>1 DEF TypeOK
    <2>3. (IF j < 2 THEN Bad ELSE j) \in {Bad} \cup Clusters
      BY <2>1, <2>2, GeometryAssumption DEF EndMarker, Clusters
    <2> QED BY <2>1, <2>3, NextReturnMeta
  <1>5. CASE NextEnd \/ NextUnreadable \/ NextChainFails
    <2>1. /\ UNCHANGED <<fat, dir>>
          /\ UNCHANGED file_num \/ SetCur([Cur EXCEPT !.buffer = MetaBlock])
      BY <1>5 DEF NextEnd, NextUnreadable, NextChainFails, NoWrite
    <2>2. NextReturn(Bad)
      BY <1>5 DEF NextEnd, NextUnreadable, NextChainFails
    <2>3. SetCur(Cur) \/ SetCur([Cur EXCEPT !.buffer = MetaBlock])
      BY <2>1, SameCur
    <2> QED BY <2>1, <2>2, <2>3, NextReturnMeta
  <1>6. CASE NextChain
    <2>1. /\ fat' = [fat EXCEPT ![Cur.cluster] = call.res]
          /\ pc = "chain" /\ pc' = "info" /\ call' = [call EXCEPT !.info = "next"]
          /\ UNCHANGED <<dir, file_num>>
      BY <1>6 DEF NextChain
    <2>2. /\ call'.op = call.op /\ call'.fd = call.fd /\ call'.seeking = call.seeking
          /\ call'.flush = call.flush /\ call'.next = call.next /\ call'.res = call.res
          /\ call'.zeroed = call.zeroed /\ call'.info = "next"
      BY <2>1, AtCur DEF Calls
    <2>3. \A c \in FatIndex : fat'[c] = fat[c] \/ fat'[c] = call.res
      BY <2>1 DEF TypeOK
    <2>4. fat'[1] = fat[1] /\ 1 \in FatIndex
      BY <2>1, AtCur, GeometryAssumption DEF TypeOK, FatIndex
    <2>5. NumbersInv'
      BY <2>1, <2>2, <2>3, <2>4, AtCur DEF MetaInv, NumbersInv, Live
    <2>6. WritersInv'
      BY <2>1 DEF MetaInv, WritersInv, Placed, PlacedAt
    <2>7. Cur' = Cur
      BY <2>1, <2>2 DEF Cur
    <2>8. OnlyReadersSeek' /\ LabelsInv'
      BY <2>1, <2>2, <2>7 DEF MetaInv, OnlyReadersSeek, LabelsInv, SeekLabels
    <2> QED BY <2>5, <2>6, <2>8 DEF MetaInv
  <1>7. ASSUME NEW k \in FatIndex, NextAllocate(k) PROVE MetaInv'
    <2> DEFINE g == [Cur EXCEPT !.buffer = MetaBlock]
    <2>1. /\ FreeCluster(k) /\ Claim(k, IF k = 0 THEN 0 ELSE Cur.first) /\ UNCHANGED dir
          /\ SetCur(g) /\ "WRITE" \in Cur.flags
          /\ IF k = 0 THEN NextReturn(Bad)
             ELSE pc' = "chain" /\ call' = [call EXCEPT !.res = k]
      BY <1>7 DEF NextAllocate
    <2>2. /\ k # 1 /\ fat'[1] # 0 /\ \A c \in FatIndex : fat'[c] # 1
          /\ k # 0 => k \in Clusters
      BY <2>1, ClaimNumbers
    <2>3. /\ call'.op = call.op /\ call'.fd = call.fd /\ call'.seeking = call.seeking
          /\ call'.flush = call.flush /\ call'.next = call.next
          /\ call'.res = IF k = 0 THEN Bad ELSE k
          /\ call'.zeroed = call.zeroed
      BY <2>1, AtCur DEF Calls, NextReturn
    <2>4. /\ g.first = Cur.first /\ g.cluster = Cur.cluster /\ g.sector = Cur.sector
          /\ g.sectors_left = Cur.sectors_left /\ g.flags = Cur.flags
      BY AtCur DEF FileS
    <2> HIDE DEF g
    <2>5. WritersInv' /\ \A h \in Handles : file_num'[h].first # 1 /\ file_num'[h].cluster # 1
      BY <2>1, <2>4, AtCur, CurWriter DEF Placed, PlacedAt
    <2>6. NumbersInv'
      BY <2>1, <2>2, <2>3, <2>5, AtCur, NotOne DEF MetaInv, NumbersInv, Live
    <2>7. Cur' = g
      BY <2>1, <2>3, CurAfter
    <2>8. SameCall
      BY <2>3, <2>4, <2>7 DEF SameCall
    <2>9. OnlyReadersSeek' /\ LabelsInv'
      <3>1. CASE k = 0
        <4>1. pc' \in Forward
          BY <1>0, <2>1, <3>1, ReturnsForward DEF NextReturn
        <4> QED BY <2>8, <4>1, GoesForward
      <3>2. CASE k # 0
        <4>1. pc' = "chain" /\ call'.res \in Clusters
          BY <2>1, <2>2, <2>3, <3>2
        <4> QED BY <2>8, <4>1 DEF MetaInv, SameCall, OnlyReadersSeek, LabelsInv, SeekLabels
      <3> QED BY <3>1, <3>2
    <2> QED BY <2>5, <2>6, <2>9 DEF MetaInv
  <1> QED BY <1>1, <1>2, <1>3, <1>4, <1>5, <1>6, <1>7 DEF NextStep

\* A step of fat_lseek by a handle that cannot write.
LEMMA ReaderMoves ==
  ASSUME TypeOK, MetaInv, call.op = "lseek", UNCHANGED <<fat, dir>>, NEW f, SetCur(f),
         f.first = Cur.first, f.cluster # 1, f.flags = Cur.flags,
         pc' \in Forward,
         call'.op = call.op, call'.fd = call.fd, call'.res # 1, call'.zeroed = call.zeroed
  PROVE  MetaInv'
  <1>1. "WRITE" \notin Cur.flags
    BY DEF MetaInv, OnlyReadersSeek
  <1>2. Cur' = f
    BY CurAfter
  <1>3. WritersInv' /\ \A h \in Handles : file_num'[h].first # 1 /\ file_num'[h].cluster # 1
    BY <1>1, AtCur, CurWriter
  <1>4. NumbersInv'
    BY <1>3, AtCur, NumbersKept
  <1>5. OnlyReadersSeek' /\ LabelsInv'
    BY <1>1, <1>2 DEF MetaInv, OnlyReadersSeek, LabelsInv, Forward, SeekLabels
  <1> QED BY <1>3, <1>4, <1>5 DEF MetaInv

\* The labels fat_lseek ends at.
LEMMA SeekEnds ==
  ASSUME TypeOK, call.op = "lseek", NEW ok \in BOOLEAN, EndSeek(ok)
  PROVE  /\ pc' \in Forward /\ call'.op = call.op /\ call'.fd = call.fd
         /\ call'.res = call.res /\ call'.zeroed = call.zeroed
  <1>1. call \in Calls
    BY DEF TypeOK
  <1> QED BY <1>1 DEF EndSeek, AfterSeek, Forward, Calls

\* fat_lseek.
LEMMA SeekMeta ==
  ASSUME TypeOK, MetaInv, SeekStep
  PROVE  MetaInv'
  <1>0. /\ pc \in SeekLabels /\ call.op = "lseek" /\ UNCHANGED <<fat, dir>>
    BY DEF SeekStep, SeekOutside, SeekFlushed, SeekSector, SeekCluster, SeekRewind,
       WalkNext, WalkMove, WalkEnd, SeekLabels, MetaInv, OnlyReadersSeek, NoWrite
  <1>1. /\ pc' \in Forward /\ call'.op = call.op /\ call'.fd = call.fd
        /\ call'.res # 1 /\ call'.zeroed = call.zeroed
    <2>1. CASE SeekOutside \/ SeekSector \/ SeekCluster \/ WalkEnd
      <3>1. PICK ok \in BOOLEAN : EndSeek(ok)
        BY <2>1 DEF SeekOutside, SeekSector, SeekCluster, WalkEnd, SeekLoad
      <3> QED BY <1>0, <3>1, SeekEnds, AtCur
    <2>2. CASE SeekFlushed \/ SeekRewind \/ WalkNext \/ WalkMove
      <3>1. \/ call' = call
            \/ call' = [call EXCEPT !.flush = "sector"]
            \/ call' = [call EXCEPT !.i = 0]
            \/ call' = [call EXCEPT !.i = @ + 1]
            \/ call' = [call EXCEPT !.flush = "next", !.next = "walk", !.res = Bad]
        BY <2>2 DEF SeekFlushed, SeekRewind, WalkNext, WalkMove
      <3>2. pc' \in Forward
        BY <1>0, <2>2 DEF SeekFlushed, SeekRewind, WalkNext, WalkMove, Forward, SeekLabels
      <3>3. /\ call'.op = call.op /\ call'.fd = call.fd /\ call'.zeroed = call.zeroed
            /\ call'.res = call.res \/ call'.res = Bad
        BY <3>1, AtCur DEF Calls
      <3> QED BY <3>2, <3>3, AtCur, NotOne
    <2> QED BY <2>1, <2>2 DEF SeekStep
  <1>2. PICK f : /\ SetCur(f) /\ f.first = Cur.first /\ f.flags = Cur.flags
                 /\ f.cluster \in {Cur.cluster, Cur.first, call.res}
    <2>1. CASE SeekOutside \/ SeekFlushed \/ WalkNext
      <3>1. UNCHANGED file_num
        BY <2>1 DEF SeekOutside, SeekFlushed, WalkNext
      <3> QED BY <3>1, SameCur
    <2>2. CASE SeekSector \/ SeekRewind \/ WalkMove
      <3> DEFINE g1 == [Cur EXCEPT !.cursor = call.new % SectorSize]
                 g2 == [Cur EXCEPT !.cluster = Cur.first]
                 g3 == [Cur EXCEPT !.cluster = call.res]
      <3>1. \E g \in {g1, g2, g3} : SetCur(g)
        BY <2>2 DEF SeekSector, SeekRewind, WalkMove
      <3>2. \A g \in {g1, g2, g3} : /\ g.first = Cur.first /\ g.flags = Cur.flags
                 /\ g.cluster \in {Cur.cluster, Cur.first, call.res}
        BY AtCur DEF FileS
      <3> HIDE DEF g1, g2, g3
      <3> QED BY <3>1, <3>2
    <2>3. CASE SeekCluster \/ WalkEnd
      <3>1. PICK n, p, l, s :
              SeekLoad([Cur EXCEPT !.file_sector = n, !.cursor = p, !.sectors_left = l], s)
        BY <2>3 DEF SeekCluster, WalkEnd
      <3> DEFINE g  == [Cur EXCEPT !.file_sector = n, !.cursor = p, !.sectors_left = l]
                 g1 == [g EXCEPT !.sector = s, !.buffer = disk[s]]
                 g2 == [g EXCEPT !.sector = s]
      <3>2. \E h \in {g1, g2} : SetCur(h)
        BY <3>1 DEF SeekLoad
      <3>3. \A h \in {g1, g2} : /\ h.first = Cur.first /\ h.flags = Cur.flags
                                /\ h.cluster = Cur.cluster
        BY AtCur DEF FileS
      <3> HIDE DEF g, g1, g2
      <3> QED BY <3>2, <3>3
    <2> QED BY <2>1, <2>2, <2>3 DEF SeekStep
  <1>3. f.cluster # 1
    BY <1>2, AtCur
  <1> QED BY <1>0, <1>1, <1>2, <1>3, ReaderMoves

\* The byte loops of fat_write and fat_read.
LEMMA ByteMeta ==
  ASSUME TypeOK, MetaInv, ByteStep
  PROVE  MetaInv'
  <1>1. /\ UNCHANGED <<fat, dir>> /\ pc' \in Forward
        /\ call'.op = call.op /\ call'.fd = call.fd /\ call'.seeking = call.seeking
        /\ call'.flush = "seek" => call.flush = "seek"
        /\ call'.next = call.next /\ call'.res = call.res /\ call'.zeroed = call.zeroed
    <2>1. UNCHANGED <<fat, dir>> /\ pc' \in Forward
      BY DEF ByteStep, WriteByte, ReadByte, BytesDone, NeedSector, NoWrite, Forward
    <2>2. \/ call' = call
          \/ call' = [call EXCEPT !.flush = "sector"]
          \/ call' = [call EXCEPT !.todo = Tail(@)]
          \/ call' = [call EXCEPT !.n = @ - 1, !.got = Append(@, Cur.buffer[Cur.cursor])]
      BY DEF ByteStep, WriteByte, ReadByte, BytesDone, NeedSector
    <2> QED BY <2>1, <2>2, AtCur DEF Calls
  <1>2. PICK f : /\ SetCur(f) /\ f.first = Cur.first /\ f.cluster = Cur.cluster
                 /\ f.sector = Cur.sector /\ f.sectors_left = Cur.sectors_left
                 /\ f.flags \subseteq Cur.flags \cup {"FS_DIRTY"} \cup
                      (IF "WRITE" \in Cur.flags THEN {"DIRTY"} ELSE {})
                 /\ Cur.flags \subseteq f.flags
    <2>1. CASE UNCHANGED file_num
      BY <2>1, SameCur
    <2>2. CASE ReadByte /\ ~UNCHANGED file_num
      <3> DEFINE g == [Cur EXCEPT !.cursor = @ + 1]
      <3>1. SetCur(g)
        BY <2>2 DEF ReadByte, NeedSector
      <3>2. /\ g.first = Cur.first /\ g.cluster = Cur.cluster /\ g.sector = Cur.sector
            /\ g.sectors_left = Cur.sectors_left /\ g.flags = Cur.flags
        BY AtCur DEF FileS
      <3> HIDE DEF g
      <3> QED BY <3>1, <3>2
    <2>3. CASE WriteByte /\ ~UNCHANGED file_num
      <3> DEFINE grows == Pos(Cur) = Cur.size
                 b == [Cur.buffer EXCEPT ![Cur.cursor] = Head(call.todo)]
                 n == IF grows THEN Cur.size + 1 ELSE Cur.size
                 F == Cur.flags \cup {"DIRTY"} \cup (IF grows THEN {"FS_DIRTY"} ELSE {})
                 g == [Cur EXCEPT !.buffer = b, !.cursor = @ + 1, !.size = n, !.flags = F]
      <3>1. SetCur(g) /\ "WRITE" \in Cur.flags
        BY <2>3 DEF WriteByte, NeedSector, MetaInv, OnlyReadersSeek
      <3>2. F \subseteq Cur.flags \cup {"FS_DIRTY", "DIRTY"} /\ Cur.flags \subseteq F
        OBVIOUS
      <3> HIDE DEF F, b, n
      <3>3. /\ g.first = Cur.first /\ g.cluster = Cur.cluster /\ g.sector = Cur.sector
            /\ g.sectors_left = Cur.sectors_left /\ g.flags = F
        BY AtCur DEF FileS
      <3> HIDE DEF g
      <3> QED BY <3>1, <3>2, <3>3
    <2> QED BY <2>1, <2>2, <2>3 DEF ByteStep, BytesDone
  <1>3. "WRITE" \in Cur.flags => "WRITE" \in f.flags /\ Placed(f)
    BY <1>2, AtCur DEF Placed, PlacedAt
  <1>4. f.first \in {0, Cur.first} /\ f.cluster # 1
    BY <1>2, AtCur
  <1> QED BY <1>1, <1>2, <1>3, <1>4, AtCur, QuietMeta

\* fat_free_clusters and fat_delete: entry 0 may be freed, entry 1 never is.
LEMMA FreeMeta ==
  ASSUME TypeInv, MetaInv, FreeStep
  PROVE  MetaInv'
  <1>0. TypeOK /\ pc \in {"delete", "free", "freed"} /\ call.res \in FatIndex
    BY DEF TypeInv, FreeStep, FreeEntry, FreeUnreadable, FreeLast, DeleteEntry
  <1>1. /\ \A c \in FatIndex : fat'[c] \in {0, fat[c]}
        /\ fat'[1] = fat[1] /\ 1 \in FatIndex
    <2>1. UNCHANGED fat \/ fat' = Zero(fat, call.zeroed)
      BY DEF FreeStep, FreeEntry, FreeUnreadable, FreeLast, DeleteEntry, WriteZeroes
    <2>2. 1 \in FatIndex
      BY GeometryAssumption DEF FatIndex
    <2> QED BY <1>0, <2>1, <2>2, AtCur DEF Zero
  <1>2. \A s \in Slots : Live(s)' => Live(s) /\ dir'[s].first = dir[s].first
    <2>1. \/ UNCHANGED dir \/ dir' = [dir EXCEPT ![call.slot].kind = "deleted"]
          \/ \E Z \in SUBSET Slots :
               dir' = [Overwritten(DirBlock(call.slot), Z) EXCEPT
                         ![call.slot] = [DataSlot EXCEPT !.kind = "deleted"]]
      BY DEF FreeStep, FreeEntry, FreeUnreadable, FreeLast, DeleteEntry
    <2>2. CASE UNCHANGED dir
      BY <2>2 DEF Live
    <2>3. CASE dir' = [dir EXCEPT ![call.slot].kind = "deleted"]
      <3>1. \A s \in Slots : dir[s] \in DirEntry
        BY <1>0 DEF TypeOK
      <3>2. \A s \in Slots : dir'[s] = IF s = call.slot
              THEN [dir[s] EXCEPT !.kind = "deleted"] ELSE dir[s]
        BY <1>0, <2>3 DEF TypeOK
      <3> QED BY <3>1, <3>2 DEF Live, DirEntry
    <2>4. ASSUME NEW Z \in SUBSET Slots,
                 dir' = [Overwritten(DirBlock(call.slot), Z) EXCEPT
                           ![call.slot] = [DataSlot EXCEPT !.kind = "deleted"]]
          PROVE  \A s \in Slots : Live(s)' => Live(s) /\ dir'[s].first = dir[s].first
      <3> DEFINE d == Overwritten(DirBlock(call.slot), Z)
                 gone == [DataSlot EXCEPT !.kind = "deleted"]
      <3>1. d \in [Slots -> DirEntry] /\ LiveIn(d) /\ gone.kind # "file"
        BY OverwrittenLive
      <3>2. dir' = [d EXCEPT ![call.slot] = gone]
        BY <2>4
      <3> HIDE DEF d, gone
      <3> QED BY <3>1, <3>2 DEF Live, LiveIn
    <2> QED BY <2>1, <2>2, <2>3, <2>4
  <1>3. /\ call'.op = call.op /\ call'.fd = call.fd /\ call'.seeking = call.seeking
        /\ call'.flush = call.flush /\ call'.next = call.next
        /\ call'.res # 1 /\ 1 \notin call'.zeroed
    <2>1. CASE FreeEntry
      <3> DEFINE here == IF Leaving THEN {} ELSE call.zeroed
                 j == IF call.res \in here THEN 0 ELSE fat[call.res]
                 r == IF j < EndMarker THEN j ELSE call.res
                 Z == here \cup {call.res}
                 b == FatBlock(call.res)
      <3>1. call' = [call EXCEPT !.zeroed = Z, !.block = b, !.res = r]
        BY <2>1, <1>0, AtCur DEF FreeEntry, Calls
      <3>2. r # 1
        BY <1>0, AtCur DEF MetaInv, NumbersInv
      <3>3. 1 \notin Z
        BY <1>0, AtCur
      <3> HIDE DEF here, j, r, Z, b
      <3> QED BY <1>0, <3>1, <3>2, <3>3, AtCur DEF Calls
    <2>2. CASE FreeUnreadable \/ FreeLast \/ DeleteEntry
      <3>1. call' = call \/ call' = [call EXCEPT !.zeroed = {}]
        BY <2>2 DEF FreeUnreadable, FreeLast, DeleteEntry
      <3> QED BY <1>0, <3>1, AtCur DEF Calls
    <2> QED BY <2>1, <2>2 DEF FreeStep
  <1>4. UNCHANGED file_num /\ pc' \in Forward
    BY DEF FreeStep, FreeEntry, FreeUnreadable, FreeLast, DeleteEntry, Forward
  <1>5. Cur' = Cur
    BY <1>3, <1>4 DEF Cur
  <1>6. OnlyReadersSeek' /\ LabelsInv'
    <2>1. SameCall
      BY <1>3, <1>5 DEF SameCall
    <2> QED BY <1>4, <2>1, GoesForward
  <1>7. WritersInv'
    BY <1>4 DEF MetaInv, WritersInv, Placed, PlacedAt
  <1>8. NumbersInv'
    BY <1>1, <1>2, <1>3, <1>4 DEF MetaInv, NumbersInv
  <1> QED BY <1>6, <1>7, <1>8 DEF MetaInv

\* fat_close goes on; a call returns.
LEMMA EndMeta ==
  ASSUME TypeOK, MetaInv, CloseInfo \/ Return
  PROVE  MetaInv'
  <1>1. CASE CloseInfo
    <2>1. /\ UNCHANGED <<fat, dir, file_num>> /\ pc' \in {"info", "done"}
          /\ \/ call' = call /\ pc' = "done"
             \/ call' = [call EXCEPT !.info = "close"]
      BY <1>1 DEF CloseInfo, NoWrite
    <2>2. /\ call'.op = call.op /\ call'.fd = call.fd /\ call'.seeking = call.seeking
          /\ call'.flush = call.flush /\ call'.next = call.next
          /\ call'.res = call.res /\ call'.zeroed = call.zeroed
          /\ pc' = "info" => call'.info = "close"
      BY <2>1, AtCur DEF Calls
    <2>3. Cur' = Cur
      BY <2>1, <2>2 DEF Cur
    <2>4. OnlyReadersSeek' /\ LabelsInv'
      BY <2>1, <2>2, <2>3 DEF MetaInv, OnlyReadersSeek, LabelsInv, SeekLabels
    <2>5. WritersInv' /\ NumbersInv'
      BY <2>1, <2>2 DEF MetaInv, WritersInv, NumbersInv, Placed, PlacedAt, Live
    <2> QED BY <2>4, <2>5 DEF MetaInv
  <1>2. CASE Return
    <2>1. UNCHANGED <<fat, dir>> /\ pc' = "idle" /\ call' = NoCall
      BY <1>2 DEF Return, NoWrite
    <2>2. /\ NoCall.op = "none" /\ ~NoCall.seeking /\ NoCall.flush = "none"
          /\ NoCall.next = "none" /\ NoCall.res = 0 /\ NoCall.zeroed = {}
      BY DEF NoCall
    <2>3. OnlyReadersSeek' /\ LabelsInv'
      BY <2>1, <2>2 DEF OnlyReadersSeek, LabelsInv, SeekLabels
    <2>4. PICK f : /\ SetCur(f)
                   /\ f.first \in {0, Cur.first} /\ f.cluster \in {0, Cur.cluster}
                   /\ \/ f.sector = 0 /\ f.sectors_left = 0
                      \/ f.sector = Cur.sector /\ f.sectors_left = Cur.sectors_left
                   /\ f.flags = {} \/ f.flags = Cur.flags
                        \/ f.flags = Cur.flags \cup {"FS_DIRTY"}
      <3>1. CASE UNCHANGED file_num
        BY <3>1, SameCur
      <3>2. CASE Finished(call.op) /\ ~UNCHANGED file_num
        <4> DEFINE g1 == Truncated(Cur)
                   g2 == [Cur EXCEPT !.flags = @ \cup {"FS_DIRTY"}]
        <4>1. SetCur(g1) \/ SetCur(g2) \/ SetCur(Closed)
          BY <3>2 DEF Finished
        <4>2. /\ g1.first = 0 /\ g1.cluster = 0 /\ g1.sector = 0 /\ g1.sectors_left = 0
              /\ g1.flags = Cur.flags \cup {"FS_DIRTY"}
          BY AtCur DEF FileS, Truncated
        <4>3. /\ g2.first = Cur.first /\ g2.cluster = Cur.cluster /\ g2.sector = Cur.sector
              /\ g2.sectors_left = Cur.sectors_left /\ g2.flags = Cur.flags \cup {"FS_DIRTY"}
          BY AtCur DEF FileS
        <4>4. /\ Closed.first = 0 /\ Closed.cluster = 0 /\ Closed.sector = 0
              /\ Closed.sectors_left = 0 /\ Closed.flags = {}
          BY DEF Closed
        <4> HIDE DEF g1, g2
        <4> QED BY <4>1, <4>2, <4>3, <4>4
      <3> QED BY <1>2, <3>1, <3>2 DEF Return
    <2>5. /\ f.first # 1 /\ f.cluster # 1
          /\ "WRITE" \in f.flags => Placed(f) /\ "APPEND" \notin f.flags
          /\ "DIRTY" \in f.flags => "WRITE" \in f.flags
      BY <2>4, AtCur, NotOne DEF Placed, PlacedAt
    <2>6. WritersInv' /\ \A h \in Handles : file_num'[h].first # 1 /\ file_num'[h].cluster # 1
      BY <2>4, <2>5, CurWriter
    <2>7. NumbersInv'
      BY <2>1, <2>2, <2>6, NotOne, NumbersKept
    <2> QED BY <2>3, <2>6, <2>7 DEF MetaInv
  <1> QED BY <1>1, <1>2

\* Nothing the invariant speaks of changes.
LEMMA NothingMeta ==
  ASSUME MetaInv, UNCHANGED <<fat, dir, file_num, call, pc>>
  PROVE  MetaInv'
  BY DEF MetaInv, NumbersInv, WritersInv, OnlyReadersSeek, LabelsInv, SeekLabels, Placed,
     PlacedAt, Live, Cur

\* A call begins.
LEMMA StartMeta ==
  ASSUME MetaInv, UNCHANGED <<fat, dir, file_num>>, call'.res # 1, call'.zeroed = {},
         pc' \in {"byte", "flush", "delete"}, call'.next = "none", call'.info = "none",
         call'.seeking \/ call'.flush = "seek" => call'.op = "lseek",
         call'.op = "lseek" => "WRITE" \notin file_num[call'.fd].flags,
         call'.op = "write" => "WRITE" \in file_num[call'.fd].flags
  PROVE  MetaInv'
  <1>1. WritersInv'
    BY DEF MetaInv, WritersInv, Placed, PlacedAt
  <1>2. NumbersInv'
    BY DEF MetaInv, NumbersInv, Live
  <1>3. Cur' = file_num[call'.fd]
    BY DEF Cur
  <1>4. OnlyReadersSeek' /\ LabelsInv'
    BY <1>3 DEF OnlyReadersSeek, LabelsInv, SeekLabels
  <1> QED BY <1>1, <1>2, <1>4 DEF MetaInv

\* fat_write, fat_read, fat_lseek and fat_close begin.
LEMMA HandleCallsMeta ==
  ASSUME NoWriterSeeks, TypeOK, MetaInv, NEW h \in Handles,
         \/ Close(h) \/ BadHandle(h)
         \/ \E bs \in Payloads : Write(h, bs)
         \/ \E n \in 1 .. MaxCount : Read(h, n)
         \/ \E w \in {"SET", "CUR", "END"}, p \in -MaxSize .. MaxSize : Lseek(h, p, w)
  PROVE  MetaInv'
  <1>1. pc = "idle" /\ UNCHANGED <<fat, dir, file_num>>
    BY DEF Close, BadHandle, Write, Read, Lseek, Idle, Ready, NoWrite, Refuse, Start
  <1>2. CASE BadHandle(h)
    BY <1>1, <1>2, NothingMeta DEF BadHandle, Refuse
  <1>3. CASE Close(h)
    <2>1. pc' = "flush"
          /\ call' = [NoCall EXCEPT !.op = "close", !.fd = h, !.flush = "close"]
      BY <1>3 DEF Close, Start
    <2>2. /\ call'.op = "close" /\ call'.flush = "close" /\ ~call'.seeking
          /\ call'.next = "none" /\ call'.info = "none" /\ call'.res = 0 /\ call'.zeroed = {}
      BY <2>1 DEF NoCall
    <2> QED BY <1>1, <2>1, <2>2, NotOne, StartMeta
  <1>4. CASE \E n \in 1 .. MaxCount : Read(h, n)
    <2>1. PICK n \in 1 .. MaxCount : pc' = "byte"
            /\ call' = [NoCall EXCEPT !.op = "read", !.fd = h, !.n = n]
      BY <1>4 DEF Read, Start
    <2>2. /\ call'.op = "read" /\ call'.flush = "none" /\ ~call'.seeking
          /\ call'.next = "none" /\ call'.info = "none" /\ call'.res = 0 /\ call'.zeroed = {}
      BY <2>1 DEF NoCall
    <2> QED BY <1>1, <2>1, <2>2, NotOne, StartMeta
  <1>5. CASE \E w \in {"SET", "CUR", "END"}, p \in -MaxSize .. MaxSize : Lseek(h, p, w)
    <2>1. PICK new : /\ "WRITE" \notin file_num[h].flags /\ pc' = "flush"
                     /\ call' = [NoCall EXCEPT !.op = "lseek", !.fd = h, !.seeking = TRUE,
                                    !.flush = "seek", !.old = Pos(file_num[h]), !.new = new]
      BY <1>5 DEF Lseek, Has, Start, NoWriterSeeks
    <2>2. /\ call'.op = "lseek" /\ call'.fd = h
          /\ call'.next = "none" /\ call'.info = "none" /\ call'.res = 0 /\ call'.zeroed = {}
      BY <2>1 DEF NoCall
    <2> QED BY <1>1, <2>1, <2>2, NotOne, StartMeta
  <1>6. CASE \E bs \in Payloads : Write(h, bs)
    <2>1. PICK bs \in Payloads : Write(h, bs)
      BY <1>6
    <2>2. "WRITE" \in file_num[h].flags /\ "APPEND" \notin file_num[h].flags
      BY <2>1 DEF Write, Has, MetaInv, WritersInv
    <2>3. pc' = "byte" /\ call' = [NoCall EXCEPT !.op = "write", !.fd = h, !.todo = bs]
      BY <2>1, <2>2 DEF Write, Start
    <2>4. /\ call'.op = "write" /\ call'.fd = h /\ call'.flush = "none" /\ ~call'.seeking
          /\ call'.next = "none" /\ call'.info = "none" /\ call'.res = 0 /\ call'.zeroed = {}
      BY <2>3 DEF NoCall
    <2> QED BY <1>1, <2>2, <2>3, <2>4, NotOne, StartMeta
  <1> QED BY <1>2, <1>3, <1>4, <1>5, <1>6

\* fat_open hands out a handle.
LEMMA OpenedMeta ==
  ASSUME TypeOK, MetaInv, UNCHANGED <<fat, dir>>, NEW h \in Handles, NEW f,
         file_num' = [file_num EXCEPT ![h] = f],
         f.first # 1, f.cluster # 1, "DIRTY" \notin f.flags,
         "WRITE" \in f.flags => Placed(f) /\ "APPEND" \notin f.flags
  PROVE  WritersInv' /\ (call'.res # 1 /\ 1 \notin call'.zeroed => NumbersInv')
  <1>1. \A g \in Handles : file_num'[g] = IF g = h THEN f ELSE file_num[g]
    BY DEF TypeOK
  <1>2. WritersInv'
    BY <1>1 DEF MetaInv, WritersInv, Placed, PlacedAt
  <1>3. \A g \in Handles : file_num'[g].first # 1 /\ file_num'[g].cluster # 1
    BY <1>1 DEF MetaInv, NumbersInv
  <1> QED BY <1>2, <1>3, NumbersKept

\* fat_open.
LEMMA OpenMeta ==
  ASSUME NoWriterSeeks, TypeInv, MetaInv, NEW n \in Names, NEW m \in Modes,
         \/ OpenFound(n, m) \/ OpenUnread(n, m)
         \/ \E ro \in RoModes : OpenMissing(n, m, ro) \/ OpenOverlooked(n, m, ro)
  PROVE  MetaInv'
  <1>1. /\ TypeOK /\ pc = "idle" /\ UNCHANGED <<fat, dir>>
        /\ "WRITE" \in m => "APPEND" \notin m
        /\ \A F \in {AccessFlags(m)} : "DIRTY" \notin F /\ ("WRITE" \in F => "APPEND" \notin F)
    BY DEF TypeInv, OpenFound, OpenUnread, OpenMissing, OpenOverlooked, Idle, Ready, NoWrite, NoWriterSeeks, AccessFlags
  <1>2. CASE UNCHANGED <<pc, call, file_num>>
    BY <1>1, <1>2, NothingMeta
  <1>3. CASE \E h \in Handles, ro \in RoModes :
               UNCHANGED <<pc, call>> /\ file_num' = [file_num EXCEPT ![h] = NewFile(n, m, ro)]
    <2>1. PICK h \in Handles, ro \in RoModes :
               UNCHANGED <<pc, call>> /\ file_num' = [file_num EXCEPT ![h] = NewFile(n, m, ro)]
      BY <1>3
    <2> DEFINE f == NewFile(n, m, ro)
    <2>2. /\ f.first = 0 /\ f.cluster = 0 /\ f.sector = 0 /\ f.sectors_left = 0
          /\ f.flags = AccessFlags(m)
      BY DEF NewFile, Closed
    <2> HIDE DEF f
    <2>3. Placed(f)
      BY <2>2 DEF Placed
    <2>4. WritersInv' /\ NumbersInv'
      BY <1>1, <2>1, <2>2, <2>3, NotOne, OpenedMeta, AtCur DEF f
    <2>5. OnlyReadersSeek' /\ LabelsInv'
      BY <1>1, <2>1 DEF MetaInv, OnlyReadersSeek, LabelsInv, SeekLabels
    <2> QED BY <2>4, <2>5 DEF MetaInv
  <1>4. CASE \E h \in Handles, s \in Slots :
               \E f \in {OldFile(s, m), [OldFile(s, m) EXCEPT !.buffer = MetaBlock]} :
                  /\ Live(s) /\ file_num' = [file_num EXCEPT ![h] = f]
                  /\ \/ UNCHANGED <<pc, call>>
                     \/ pc' = "free" /\ call' = [NoCall EXCEPT !.op = "open", !.fd = h,
                                                               !.res = dir[s].first]
    <2>0. PICK h \in Handles, s \in Slots :
            \E f \in {OldFile(s, m), [OldFile(s, m) EXCEPT !.buffer = MetaBlock]} :
               /\ Live(s) /\ file_num' = [file_num EXCEPT ![h] = f]
               /\ \/ UNCHANGED <<pc, call>>
                  \/ pc' = "free" /\ call' = [NoCall EXCEPT !.op = "open", !.fd = h,
                                                            !.res = dir[s].first]
      BY <1>4
    <2>1. PICK f \in {OldFile(s, m), [OldFile(s, m) EXCEPT !.buffer = MetaBlock]} :
            /\ Live(s) /\ file_num' = [file_num EXCEPT ![h] = f]
            /\ \/ UNCHANGED <<pc, call>>
               \/ pc' = "free" /\ call' = [NoCall EXCEPT !.op = "open", !.fd = h,
                                                         !.res = dir[s].first]
      BY <2>0
    <2> DEFINE c == dir[s].first
    <2>2. c \in Clusters /\ c # 1
      <3>1. dir[s] \in DirEntry /\ c # 0 /\ c # 1
        BY <1>1, <2>1 DEF TypeOK, TypeInv, MetaInv, NumbersInv
      <3>2. c \in FatIndex
        BY <3>1 DEF DirEntry
      <3> HIDE DEF c
      <3> QED BY <3>1, <3>2, GeometryAssumption DEF FatIndex, Clusters
    <2>3. /\ f.first = c /\ f.cluster = c /\ f.sector = SectorOf(c)
          /\ f.sectors_left = SectorsPerCluster - 1 /\ f.flags = AccessFlags(m)
      <3>1. CASE f = OldFile(s, m)
        BY <3>1 DEF OldFile, Closed
      <3>2. CASE f = [OldFile(s, m) EXCEPT !.buffer = MetaBlock]
        BY <3>2 DEF OldFile, Closed
      <3> QED BY <2>1, <3>1, <3>2
    <2>4. file_num' = [file_num EXCEPT ![h] = f]
      BY <2>1
    <2>5. \/ UNCHANGED <<pc, call>>
          \/ pc' = "free" /\ call'.op = "open" /\ ~call'.seeking /\ call'.flush = "none"
             /\ call'.next = "none" /\ call'.info = "none" /\ call'.res = c /\ call'.zeroed = {}
      BY <2>1 DEF NoCall
    <2> HIDE DEF c
    <2>6. Placed(f)
      BY <2>2, <2>3, FirstSectorPlaced DEF Placed
    <2>7. WritersInv' /\ NumbersInv'
      BY <1>1, <2>2, <2>3, <2>4, <2>5, <2>6, OpenedMeta, AtCur
    <2>8. OnlyReadersSeek' /\ LabelsInv'
      BY <1>1, <2>5 DEF MetaInv, OnlyReadersSeek, LabelsInv, SeekLabels
    <2> QED BY <2>7, <2>8 DEF MetaInv
  <1> QED BY <1>2, <1>3, <1>4 DEF OpenFound, OpenUnread, OpenIn, OpenMissing, OpenOverlooked,
                                  CreateIn, Refuse, Lookup, IsNamed, Live

\* fat_open and fat_unlink begin.
LEMMA NameCallsMeta ==
  ASSUME NoWriterSeeks, TypeInv, MetaInv, NEW n \in Names,
         \/ OpenNoHandle(n) \/ Unlink(n) \/ UnlinkRefused(n) \/ UnlinkOverlooked(n)
         \/ \E m \in Modes :
              \/ OpenFound(n, m) \/ OpenUnread(n, m)
              \/ \E ro \in RoModes : OpenMissing(n, m, ro) \/ OpenOverlooked(n, m, ro)
  PROVE  MetaInv'
  <1>1. CASE OpenNoHandle(n) \/ UnlinkRefused(n) \/ UnlinkOverlooked(n)
    BY <1>1, NothingMeta DEF OpenNoHandle, UnlinkRefused, UnlinkOverlooked, Refuse, Idle, Ready, NoWrite
  <1>2. CASE Unlink(n)
    <2>1. PICK s \in Slots : /\ Live(s) /\ pc' = "delete" /\ UNCHANGED <<fat, dir, file_num>>
                             /\ call' = [NoCall EXCEPT !.op = "unlink", !.slot = s,
                                                       !.res = dir[s].first]
      BY <1>2 DEF Unlink, Start, Idle, Ready, NoWrite, Lookup, IsNamed, Live
    <2>2. dir[s].first # 1
      BY <2>1 DEF MetaInv, NumbersInv
    <2>3. /\ call'.op = "unlink" /\ ~call'.seeking /\ call'.flush = "none"
          /\ call'.next = "none" /\ call'.info = "none" /\ call'.res = dir[s].first
          /\ call'.zeroed = {}
      BY <2>1 DEF NoCall
    <2> QED BY <2>1, <2>2, <2>3, StartMeta
  <1> QED BY <1>1, <1>2, OpenMeta

\* The formatted volume.
LEMMA InitMeta == Init => MetaInv
  <1> SUFFICES ASSUME Init PROVE MetaInv
    OBVIOUS
  <1>1. /\ pc = "idle" /\ call.op = "none" /\ ~call.seeking /\ call.flush = "none"
        /\ call.next = "none" /\ call.res = 0 /\ call.zeroed = {}
        /\ \A s \in Slots : ~Live(s)
        /\ \A h \in Handles : /\ file_num[h].flags = {} /\ file_num[h].first = 0
                             /\ file_num[h].cluster = 0
    BY DEF Init, NoCall, Live, EmptySlot, Closed
  <1>2. fat[1] # 0 /\ \A c \in FatIndex : fat[c] # 1
    <2>1. \A c \in FatIndex : fat[c] \in {0, EndMarker}
      BY DEF Init
    <2>2. 1 \in FatIndex /\ EndMarker # 0 /\ EndMarker # 1
      BY GeometryAssumption DEF FatIndex, EndMarker
    <2>3. fat[1] = EndMarker
      BY <2>2 DEF Init
    <2> QED BY <2>1, <2>2, <2>3
  <1>3. NumbersInv
    BY <1>1, <1>2 DEF NumbersInv
  <1>4. WritersInv
    BY <1>1 DEF WritersInv
  <1>5. OnlyReadersSeek /\ LabelsInv
    BY <1>1 DEF OnlyReadersSeek, LabelsInv, SeekLabels
  <1> QED BY <1>3, <1>4, <1>5 DEF MetaInv

\* Power loss and the next mount.
LEMMA CrashMeta ==
  ASSUME MetaInv, Crash
  PROVE  MetaInv'
  <1>1. /\ pc' = "idle" /\ UNCHANGED <<fat, dir>> /\ call' = NoCall
        /\ \A h \in Handles : file_num'[h] = Closed
    BY DEF Crash, NoWrite
  <1>2. /\ call'.op = "none" /\ ~call'.seeking /\ call'.flush = "none"
        /\ call'.next = "none" /\ call'.res = 0 /\ call'.zeroed = {}
        /\ Closed.flags = {} /\ Closed.first = 0 /\ Closed.cluster = 0
    BY <1>1 DEF NoCall, Closed
  <1>3. WritersInv'
    BY <1>1, <1>2 DEF WritersInv
  <1>4. NumbersInv'
    BY <1>1, <1>2, NotOne DEF MetaInv, NumbersInv, Live
  <1>5. OnlyReadersSeek' /\ LabelsInv'
    BY <1>1, <1>2 DEF OnlyReadersSeek, LabelsInv, SeekLabels
  <1> QED BY <1>3, <1>4, <1>5 DEF MetaInv

\* Every step keeps writers inside the data area.
LEMMA NextKeepsMeta ==
  ASSUME NoWriterSeeks, TypeInv, MetaInv, [Next]_vars
  PROVE  MetaInv'
  <1>1. CASE Step
    BY <1>1, FlushMeta, InfoMeta, NextMeta, SeekMeta, ByteMeta, FreeMeta, EndMeta
       DEF Step, TypeInv
  <1>2. CASE Begin
    BY <1>2, HandleCallsMeta, NameCallsMeta DEF Begin, TypeInv
  <1>3. CASE Crash
    BY <1>3, CrashMeta
  <1>4. CASE UNCHANGED vars
    BY <1>4, NothingMeta DEF vars
  <1> QED BY <1>1, <1>2, <1>3, <1>4 DEF Next

\* Only fat_flush writes sectors.
LEMMA OnlyFlushWrites ==
  ASSUME [Next]_vars, disk' # disk
  PROVE  FlushWrite
  BY DEF Next, vars, Step, Begin, FlushStep, InfoStep, NextStep, SeekStep, ByteStep, FreeStep,
     FlushClean, FlushNoSpace, FlushWriteFails, FlushAllocate, InfoSkip, InfoWrite,
     InfoWriteFails, InfoUnreadable, InfoAstray, InfoLost, SectorHop, SectorEnd, SelectCluster, NextLink, NextEnd, NextUnreadable,
     NextChain, NextChainFails, NextAllocate, SeekOutside, SeekFlushed, SeekSector,
     SeekCluster, SeekRewind, WalkNext, WalkMove, WalkEnd, WriteByte, ReadByte, BytesDone,
     FreeEntry, FreeUnreadable, FreeLast, DeleteEntry, CloseInfo, Return, OpenNoHandle,
     Unlink, UnlinkRefused, UnlinkOverlooked, OpenFound, OpenUnread, OpenMissing,
     OpenOverlooked, Close, BadHandle, Write, Read, Lseek, Crash, Idle, Ready, NoWrite

-----------------------------------------------------------------------------
(* The theorem. *)

\* A file written to lies in the data area.
LEMMA WritesData ==
  ASSUME TypeOK, MetaInv, [Next]_vars, NEW s \in Sectors, disk'[s] # disk[s]
  PROVE  s >= FirstData
  <1>1. FlushWrite
    BY OnlyFlushWrites
  <1>2. s = Cur.sector
    BY <1>1 DEF FlushWrite, TypeOK
  <1>3. "WRITE" \in Cur.flags /\ Cur.sector # 0
    BY <1>1, AtCur DEF FlushWrite, MetaInv, LabelsInv
  <1>4. PICK c \in Clusters : PlacedAt(Cur, c)
    BY <1>3, AtCur DEF Placed
  <1> QED BY <1>2, <1>4, AtCur, PlacedInData

\* A step changes one entry of the directory, unless a read has just failed.
LEMMA OneEntry ==
  ASSUME TypeInv, [Next]_vars, NEW s \in Slots, NEW u \in Slots,
         dir'[s] # dir[s], dir'[u] # dir[u]
  PROVE  s = u \/ faults' > faults
  <1>1. \A op : Fault(op) => faults' > faults
    BY DEF Fault, TypeInv, TypeOK
  <1>2. dir \in [Slots -> DirEntry]
    BY DEF TypeInv, TypeOK
  <1>3. CASE InfoStep
    <2>1. PICK x \in Slots : InfoWrite(x) \/ InfoAstray(x)
      BY <1>3 DEF InfoStep, InfoSkip, InfoWriteFails, InfoUnreadable, InfoLost, NoWrite
    <2>2. CASE InfoWrite(x)
      BY <1>2, <2>2 DEF InfoWrite
    <2>3. CASE InfoAstray(x)
      BY <1>1, <2>3 DEF InfoAstray, Unread
    <2> QED BY <2>1, <2>2, <2>3
  <1>4. CASE DeleteEntry
    BY <1>1, <1>2, <1>4 DEF DeleteEntry
  <1>5. CASE UNCHANGED dir
    BY <1>5
  <1>6. InfoStep \/ DeleteEntry \/ UNCHANGED dir
    BY DEF Next, vars, Step, Begin, FlushStep, NextStep, SeekStep, ByteStep, FreeStep,
       FlushClean, FlushNoSpace, FlushWrite, FlushWriteFails, FlushAllocate, SectorHop,
       SectorEnd, SelectCluster, NextLink, NextEnd, NextUnreadable, NextChain, NextChainFails,
       NextAllocate, SeekOutside, SeekFlushed, SeekSector, SeekCluster, SeekRewind, WalkNext,
       WalkMove, WalkEnd, WriteByte, ReadByte, BytesDone, FreeEntry, FreeUnreadable, FreeLast,
       CloseInfo, Return, OpenNoHandle, Unlink, UnlinkRefused, UnlinkOverlooked, OpenFound,
       OpenUnread, OpenMissing, OpenOverlooked, Close, BadHandle, Write, Read, Lseek, Crash,
       Idle, Ready, NoWrite
  <1> QED BY <1>3, <1>4, <1>5, <1>6

\* However files are shared, unlinked while open, truncated or read, and
\* whatever block operations fail or lose power: as long as no writer seeks,
\* fat_flush never writes data over the boot sector, the FAT or the directory,
\* and the directory entries beside the one a call works on change only when a
\* block of the directory could not be read.
THEOREM MetadataStays == ASSUME NoWriterSeeks PROVE Spec => MetadataKept
  <1>1. Init => TypeInv /\ MetaInv
    BY InitType, InitMeta
  <1>2. TypeInv /\ MetaInv /\ [Next]_vars => TypeInv' /\ MetaInv'
    BY NextKeepsType, NextKeepsMeta
  <1>3. TypeInv /\ MetaInv /\ [Next]_vars =>
          [/\ \A s \in Sectors : disk'[s] # disk[s] => s >= FirstData
           /\ \A s, t \in Slots : dir'[s] # dir[s] /\ dir'[t] # dir[t] =>
                s = t \/ faults' > faults]_vars
    BY WritesData, OneEntry DEF TypeInv
  <1> QED BY <1>1, <1>2, <1>3, PTL DEF Spec, MetadataKept
=============================================================================
