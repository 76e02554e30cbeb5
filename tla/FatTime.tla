------------------------------ MODULE FatTime -------------------------------
(***************************************************************************)
(* The time stamps of one file: what gristle.c keeps in an open handle     *)
(* (unix times), what it stores in the directory entry (the 16-bit date    *)
(* and time fields of FAT) and how it converts between the two when the    *)
(* entry is looked up and when it is flushed.                              *)
(*                                                                         *)
(* A unix time is a record of days and seconds of the day, so that it fits *)
(* TLC's integers; the C library's mktime and gmtime are those of a build  *)
(* with a 64-bit time_t in the zone UTC.                                   *)
(***************************************************************************)
EXTENDS Integers, Sequences

CONSTANTS Clock,      \* the readings of GRISTLE_TIME, in order
          MaxStores,  \* bound on the times the entry is stored
          Never       \* a stamp no call has made yet

VARIABLES entry,      \* the stamps in the directory entry, or Never
          handle,     \* the stamps in file_num[fd]; closed if not "OPEN"
          now,        \* index of the current reading of the clock
          made        \* what the client did: when it last created or truncated
                      \* the file, wrote it and read it, and by which handle
                      \* the entry was last stored

timeVars == <<entry, handle, now, made>>

LastSecond == 86399
FieldMax == 65535
Seconds == 0 .. LastSecond   \* of a day
Fields == 0 .. FieldMax      \* the values of a date or time field
EntryS == [fine : {0, 100}, ctime : Fields, cdate : Fields, adate : Fields,
           mtime : Fields, mdate : Fields]

ASSUME ClockAssumption == Clock \in Seq([day : Nat, sec : Seconds]) /\ Clock # <<>>
ASSUME NeverAssumption == Never \notin EntryS

Norm(day, sec) == [day |-> day + (sec \div 86400), sec |-> sec % 86400]
Plus(s, t) == Norm(s.day + t.day, s.sec + t.sec)
Epoch == [day |-> 0, sec |-> 0]

-----------------------------------------------------------------------------
(* The C library. *)

\* Days from 1970-01-01 to a day of the proleptic Gregorian calendar.
Days(y, m, d) ==
  LET jf == IF m <= 2 THEN 1 ELSE 0
      yy == y - jf
  IN  d + ((153 * (m + 12 * jf - 3) + 2) \div 5) + 365 * yy
        + (yy \div 4) - (yy \div 100) + (yy \div 400) - 719469

mktime(year, mon, mday, secs) ==
  Norm(Days(1900 + year + (mon \div 12), (mon % 12) + 1, 1) + mday - 1, secs)

\* Of a day of an era of 400 years: the year, and the day of the year, which
\* begins in March; of a day of the year its month, and of a month its first day.
YearOfEra(doe) ==
  (doe - (doe \div 1460) + (doe \div 36524) - (doe \div 146096)) \div 365
DayOfYear(doe) ==
  doe - (365 * YearOfEra(doe) + (YearOfEra(doe) \div 4) - (YearOfEra(doe) \div 100))
MonthOf(doy) == (5 * doy + 2) \div 153
FirstOf(mp) == (153 * mp + 2) \div 5
CivilMonth(mp) == IF mp < 10 THEN mp + 3 ELSE mp - 9

gmtime(t) ==
  LET era == (t.day + 719468) \div 146097
      doe == (t.day + 719468) % 146097
      doy == DayOfYear(doe)
      m   == CivilMonth(MonthOf(doy))
  IN  [year |-> YearOfEra(doe) + 400 * era + (IF m <= 2 THEN 1 ELSE 0) - 1900,
       mon  |-> m - 1,
       mday |-> doy - FirstOf(MonthOf(doy)) + 1,
       hour |-> t.sec \div 3600,
       min  |-> (t.sec \div 60) % 60,
       sec  |-> t.sec % 60]

-----------------------------------------------------------------------------
(* The four conversions. *)

\* A time of day becomes a time on the zeroth of January 1900.
fat_to_unix_time(f) ==
  mktime(0, 0, 0, (f \div 2048) * 3600 + ((f \div 32) % 64) * 60 + (f % 32) * 2)

fat_from_unix_time(t) ==
  LET g == gmtime(t) IN (g.hour * 2048 + g.min * 32 + (g.sec \div 2)) % 65536

\* Mutant: the month counted from zero, as gmtime does.
fat_from_unix_dateMon(t) ==
  LET g == gmtime(t) IN ((g.year - 80) * 512 + g.mon * 32 + g.mday) % 65536

\* Mutant: no wrap to sixteen bits for a year before 1980.
fat_from_unix_dateWide(t) ==
  LET g == gmtime(t) IN (g.year - 80) * 512 + (g.mon + 1) * 32 + g.mday

fat_to_unix_date(f) == mktime((f \div 512) + 80, ((f \div 32) % 16) - 1, f % 32, 0)

fat_from_unix_date(t) ==
  LET g == gmtime(t) IN ((g.year - 80) * 512 + (g.mon + 1) * 32 + g.mday) % 65536

\* The stamps fat_flush_fileinfo stores: the odd second goes into the fine field.
EntryOfHandle(h) ==
  [fine  |-> (h.created.sec % 2) * 100,
   ctime |-> fat_from_unix_time(h.created),
   cdate |-> fat_from_unix_date(h.created),
   adate |-> fat_from_unix_date(h.accessed),
   mtime |-> fat_from_unix_time(h.modified),
   mdate |-> fat_from_unix_date(h.modified)]

\* The stamps fat_lookup_path decodes.  The modification time is decoded from
\* the date field, and the fine field counts as seconds.
HandleOfEntry(e) ==
  [flags    |-> {"OPEN"},
   first    |-> TRUE,
   created  |-> Plus(Plus(fat_to_unix_date(e.cdate), fat_to_unix_time(e.ctime)),
                     [day |-> 0, sec |-> e.fine]),
   modified |-> Plus(fat_to_unix_date(e.mdate), fat_to_unix_time(e.mdate)),
   accessed |-> fat_to_unix_date(e.adate)]

-----------------------------------------------------------------------------
Closed == [flags |-> {}, first |-> FALSE, created |-> Epoch, modified |-> Epoch,
           accessed |-> Epoch]

Time == Clock[now]
IsOpen == "OPEN" \in handle.flags

TimeInit ==
  /\ entry = Never
  /\ handle = Closed
  /\ now = 1
  /\ made = [opened |-> Never, created |-> Never, written |-> Never, read |-> Never,
             stores |-> 0, storedBy |-> {}]

\* Time passes between the calls.
Wait ==
  /\ now < Len(Clock)
  /\ now' = now + 1
  /\ UNCHANGED <<entry, handle, made>>

\* fat_open of a missing file with O_CREAT: nothing is stored yet.
OpenNew ==
  /\ ~IsOpen /\ entry = Never
  /\ handle' = [Closed EXCEPT !.flags = {"OPEN", "NEW"}, !.created = Time]
  /\ made' = [made EXCEPT !.opened = Time]
  /\ UNCHANGED <<entry, now>>

\* fat_open of the stored file.
OpenOld ==
  /\ ~IsOpen /\ entry # Never
  /\ handle' = HandleOfEntry(entry)
  /\ UNCHANGED <<entry, now, made>>

\* ... with O_TRUNC: the file is made anew, without a first cluster.
OpenTrunc ==
  /\ ~IsOpen /\ entry # Never
  /\ handle' = [HandleOfEntry(entry) EXCEPT !.flags = {"OPEN", "NEW", "FS_DIRTY"},
                  !.first = FALSE, !.created = Time, !.modified = Time]
  /\ made' = [made EXCEPT !.opened = Time]
  /\ UNCHANGED <<entry, now>>

fat_update_mtime(h) == [h EXCEPT !.modified = Time, !.flags = @ \cup {"FS_DIRTY"}]

\* Mutant: the new day is not marked for storing.
fat_update_atimeClean(h) ==
  IF fat_from_unix_date(h.accessed) = fat_from_unix_date(Time) THEN h
  ELSE [h EXCEPT !.accessed = Time]

fat_update_atime(h) ==
  IF fat_from_unix_date(h.accessed) = fat_from_unix_date(Time) THEN h
  ELSE [h EXCEPT !.accessed = Time, !.flags = @ \cup {"FS_DIRTY"}]

\* fat_write of at least one byte; the file has a cluster from then on.
Write ==
  /\ IsOpen
  /\ handle' = fat_update_mtime([handle EXCEPT !.first = TRUE, !.flags = @ \cup {"WROTE"}])
  /\ made' = [made EXCEPT !.written = Time]
  /\ UNCHANGED <<entry, now>>

\* fat_read that returns at least one byte.
Read ==
  /\ IsOpen /\ handle.first
  /\ handle' = fat_update_atime(handle)
  /\ made' = [made EXCEPT !.read = Time]
  /\ UNCHANGED <<entry, now>>

\* fat_close: fat_flush_fileinfo stores nothing for a file without a cluster.
Close ==
  /\ IsOpen
  /\ handle' = Closed
  /\ IF "FS_DIRTY" \in handle.flags /\ handle.first
     THEN /\ made.stores < MaxStores
          /\ entry' = EntryOfHandle(handle)
          /\ made' = [made EXCEPT !.storedBy = handle.flags, !.stores = @ + 1,
                                  !.created = IF "NEW" \in handle.flags THEN made.opened ELSE @]
     ELSE UNCHANGED <<entry, made>>
  /\ UNCHANGED now

TimeNext == Wait \/ OpenNew \/ OpenOld \/ OpenTrunc \/ Write \/ Read \/ Close

-----------------------------------------------------------------------------
Shown(date) == [year |-> (date \div 512) + 80, mon |-> ((date \div 32) % 16) - 1,
                mday |-> date % 32]

ShowsDate(date, t) ==
  LET g == gmtime(t)
  IN  Shown(date) = [year |-> g.year, mon |-> g.mon, mday |-> g.mday]

ShowsTime(f, t) ==
  (f \div 2048) * 3600 + ((f \div 32) % 64) * 60 + (f % 32) * 2
    = t.sec - (t.sec % 2)

\* A closed file's entry shows the day of its last read, and an open handle
\* holds it, however often the file was opened, truncated and written since and
\* although fat_update_atime leaves the stamp alone when the day is the same.
AccessTracked ==
  made.read # Never =>
    /\ IsOpen => handle.accessed.day = made.read.day
    /\ ~IsOpen => ShowsDate(entry.adate, made.read)

\* The entry shows, to two seconds, the last write of the handle that stored it,
\* and the creation of the file if that handle made or truncated it.  (Of a
\* handle that only read, or that found the file, the conversions keep neither.)
WriterStamps ==
  ~IsOpen /\ entry # Never =>
    /\ "WROTE" \in made.storedBy =>
         /\ ShowsDate(entry.mdate, made.written)
         /\ ShowsTime(entry.mtime, made.written)
    /\ "NEW" \in made.storedBy =>
         /\ ShowsDate(entry.cdate, made.created)
         /\ ShowsTime(entry.ctime, made.created)
=============================================================================
