---------------------------- MODULE FatTimeProofs ----------------------------
(***************************************************************************)
(* The stamps of FatTime: the calendar behind the date field, what each    *)
(* field keeps of a time, and the inductive invariant StampInv, which      *)
(* follows the stamp of the last read and those of the writer from the     *)
(* handle into the entry and back.                                         *)
(*                                                                         *)
(* A date field holds the days from 1980-01-01 to 2107-12-31, each in one  *)
(* way.  Facts with numbers as large as a day's seconds are kept over      *)
(* integers with their bounds, the sets of them in Bounds alone.           *)
(***************************************************************************)
EXTENDS FatConversions, TLAPS

-----------------------------------------------------------------------------
(* The calendar. *)

\* The days a date field of FAT can hold: 1980-01-01 to 2107-12-31.
FirstDay == 3652
LastDay == 50402
Calendar == FirstDay .. LastDay
\* What the date of the Unix epoch, 1970-01-01, wraps around to: 2098-01-01.
EpochShown == 46752

\* The members of an interval.
LEMMA Interval ==
  ASSUME NEW a \in Int, NEW b \in Int
  PROVE  \A x : x \in a .. b <=> x \in Int /\ a <= x /\ x <= b
  BY SMT

\* The bounds of the sets of days, seconds and fields.
LEMMA Bounds ==
  /\ \A d : d \in Calendar <=> d \in Int /\ 3652 <= d /\ d <= 50402
  /\ \A s : s \in Seconds <=> s \in Int /\ 0 <= s /\ s <= 86399
  /\ \A f : f \in Fields <=> f \in Int /\ 0 <= f /\ f <= 65535
  <1>1. FirstDay = 3652 /\ LastDay = 50402 /\ LastSecond = 86399 /\ FieldMax = 65535
    BY SMT DEF FirstDay, LastDay, LastSecond, FieldMax
  <1>2. FirstDay \in Int /\ LastDay \in Int /\ LastSecond \in Int /\ FieldMax \in Int
    BY <1>1, SMT
  <1>3. \A d : d \in Calendar <=> d \in Int /\ FirstDay <= d /\ d <= LastDay
    BY <1>2, Interval DEF Calendar
  <1>4. \A s : s \in Seconds <=> s \in Int /\ 0 <= s /\ s <= LastSecond
    BY <1>2, Interval DEF Seconds
  <1>5. \A f : f \in Fields <=> f \in Int /\ 0 <= f /\ f <= FieldMax
    BY <1>2, Interval DEF Fields
  <1> QED BY <1>1, <1>3, <1>4, <1>5, SMT

\* The year within its 400 years, and the day within its year from 1 March.
LEMMA YearBounds ==
  ASSUME NEW doe \in Int, 0 <= doe, doe <= 146096,
         NEW a \in Int, a = doe \div 1460, NEW b \in Int, b = doe \div 36524,
         NEW c \in Int, c = doe \div 146096, NEW y \in Int, y = (doe - a + b - c) \div 365,
         NEW e \in Int, e = y \div 4, NEW f \in Int, f = y \div 100
  PROVE  y >= 0 /\ y <= 399 /\ doe - (365 * y + e - f) >= 0 /\ doe - (365 * y + e - f) <= 365
  BY SMTT(60)

\* Months counted from March, by days: they have 30 or 31.
LEMMA MonthBounds ==
  ASSUME NEW doy \in Int, 0 <= doy, doy <= 365, NEW mp \in Int, mp = (5 * doy + 2) \div 153,
         NEW first \in Int, first = (153 * mp + 2) \div 5
  PROVE  mp >= 0 /\ mp <= 11 /\ doy - first >= 0 /\ doy - first <= 30
  BY SMTT(60)

\* The year and the day of it, in an era of 400 years.
LEMMA EraBounds ==
  ASSUME NEW doe \in Int, 0 <= doe, doe <= 146096
  PROVE  /\ YearOfEra(doe) \in Int /\ 0 <= YearOfEra(doe) /\ YearOfEra(doe) <= 399
         /\ DayOfYear(doe) \in Int /\ 0 <= DayOfYear(doe) /\ DayOfYear(doe) <= 365
  <1>1. PICK a \in Int, b \in Int, c \in Int :
          a = doe \div 1460 /\ b = doe \div 36524 /\ c = doe \div 146096
    BY SMT
  <1>2. PICK y \in Int : y = (doe - a + b - c) \div 365 /\ y = YearOfEra(doe)
    BY <1>1, SMT DEF YearOfEra
  <1>3. PICK q \in Int, r \in Int : q = y \div 4 /\ r = y \div 100
    BY SMT
  <1>4. y >= 0 /\ y <= 399 /\ doe - (365 * y + q - r) >= 0 /\ doe - (365 * y + q - r) <= 365
    BY <1>1, <1>2, <1>3, YearBounds, SMT
  <1>5. DayOfYear(doe) = doe - (365 * y + q - r)
    BY <1>2, <1>3, SMT DEF DayOfYear
  <1>6. PICK d \in Int : d = doe - (365 * y + q - r)
    BY SMT
  <1>7. YearOfEra(doe) = y /\ DayOfYear(doe) = d /\ 0 <= y /\ y <= 399 /\ 0 <= d /\ d <= 365
    BY <1>2, <1>4, <1>5, <1>6, SMT
  <1> QED BY <1>7, SMT

\* The fields of a date of FAT's calendar, and the day they came from.
LEMMA DateOfDay ==
  ASSUME NEW day \in Int, 3652 <= day, day <= 50402, NEW sec \in Int,
         NEW t, t = [day |-> day, sec |-> sec]
  PROVE  LET g == gmtime(t)
         IN  /\ g.year \in 80 .. 207 /\ g.mon \in 0 .. 11 /\ g.mday \in 1 .. 31
             /\ Days(1900 + g.year, g.mon + 1, g.mday) = day
  <1>1. PICK era \in Int, doe \in Int : /\ era = (day + 719468) \div 146097
                                        /\ doe = (day + 719468) % 146097
    BY SMT
  <1>2. /\ era >= 4 /\ era <= 5 /\ doe >= 0 /\ doe <= 146096
        /\ day + 719468 = 146097 * era + doe
    BY <1>1, SMTT(30)
  <1>3. PICK yoe \in Int, doy \in Int : /\ yoe = YearOfEra(doe) /\ 0 <= yoe /\ yoe <= 399
                                        /\ doy = DayOfYear(doe) /\ 0 <= doy /\ doy <= 365
    BY <1>2, EraBounds, SMT
  <1>4. PICK q \in Int, r \in Int : q = yoe \div 4 /\ r = yoe \div 100
    BY SMT
  <1>5. doy = doe - (365 * yoe + q - r)
    BY <1>3, <1>4, SMT DEF DayOfYear
  <1>6. PICK mp \in Int : mp = (5 * doy + 2) \div 153 /\ mp = MonthOf(doy)
    BY SMT DEF MonthOf
  <1>7. PICK first \in Int : first = (153 * mp + 2) \div 5 /\ first = FirstOf(mp)
    BY SMT DEF FirstOf
  <1>8. 0 <= mp /\ mp <= 11 /\ doy - first >= 0 /\ doy - first <= 30
    BY <1>3, <1>6, <1>7, MonthBounds, SMT
  <1>9. PICK m \in Int, jf \in Int : /\ m = CivilMonth(mp) /\ jf = IF m <= 2 THEN 1 ELSE 0
                                     /\ m >= 1 /\ m <= 12 /\ m + 12 * jf - 3 = mp
                                     /\ (jf = 1 \/ jf = 0) /\ (jf = 1 <=> mp >= 10)
    BY <1>8, SMT DEF CivilMonth
  <1>10. /\ gmtime(t).year = yoe + 400 * era + jf - 1900
         /\ gmtime(t).mon = m - 1 /\ gmtime(t).mday = doy - first + 1
    BY <1>1, <1>3, <1>6, <1>7, <1>9, SMTT(30) DEF gmtime
  <1>11. PICK yy \in Int : yy = yoe + 400 * era
    BY SMT
  <1>12. yy + jf - 1900 >= 80 /\ yy + jf - 1900 <= 207
    <2>1. (jf = 1 => doy >= 306) /\ (jf = 0 => doy <= 305)
      BY <1>6, <1>9, SMTT(30)
    <2> QED BY <1>2, <1>3, <1>4, <1>5, <1>9, <1>11, <2>1, SMTT(60)
  <1>13. yy \div 4 = q + 100 * era /\ yy \div 100 = r + 4 * era /\ yy \div 400 = era
    BY <1>2, <1>3, <1>4, <1>11, SMTT(60)
  <1>14. yy + jf - jf = yy
    BY SMT
  <1>15. Days(yy + jf, m, doy - first + 1) =
          doy - first + 1 + first + 365 * yy + (yy \div 4) - (yy \div 100) + (yy \div 400) - 719469
    BY <1>7, <1>9, <1>14, SMTT(30) DEF Days
  <1>16. Days(yy + jf, m, doy - first + 1) = day
    BY <1>2, <1>5, <1>11, <1>13, <1>15, SMTT(30)
  <1>17. PICK y \in Int, d \in Int : y = yy + jf - 1900 /\ d = doy - first + 1
    BY SMT
  <1>18. /\ gmtime(t).year = y /\ gmtime(t).mon = m - 1 /\ gmtime(t).mday = d
         /\ 80 <= y /\ y <= 207 /\ 1 <= d /\ d <= 31
    BY <1>8, <1>10, <1>11, <1>12, <1>17, SMT
  <1>19. 1900 + gmtime(t).year = yy + jf /\ gmtime(t).mon + 1 = m
    BY <1>17, <1>18, SMT
  <1>20. Days(1900 + gmtime(t).year, gmtime(t).mon + 1, gmtime(t).mday) = day
    BY <1>16, <1>17, <1>18, <1>19, SMT
  <1> QED BY <1>9, <1>18, <1>20, SMT

\* The field a day is stored as.
DateField(day) == fat_from_unix_date([day |-> day, sec |-> 0])

\* The parts of a time field.
LEMMA TimeParts ==
  ASSUME NEW sec \in Int, 0 <= sec, sec <= 86399, NEW h \in Int, h = sec \div 3600,
         NEW k \in Int, k = sec \div 60, NEW m \in Int, m = k % 60,
         NEW s \in Int, s = sec % 60, NEW half \in Int, half = s \div 2,
         NEW f \in Int, f = (h * 2048 + m * 32 + half) % 65536
  PROVE  (f \div 2048) * 3600 + ((f \div 32) % 64) * 60 + (f % 32) * 2 = sec - (sec % 2)
  <1>1. f = h * 2048 + m * 32 + half /\ h >= 0 /\ h <= 23 /\ m >= 0 /\ m <= 59 /\ half >= 0 /\ half <= 29
    BY SMTT(60)
  <1>2. f \div 2048 = h /\ (f \div 32) % 64 = m /\ f % 32 = half
    BY <1>1, SMTT(60)
  <1>3. sec = 3600 * h + 60 * m + s /\ 2 * half = s - (s % 2) /\ s % 2 = sec % 2
    BY SMTT(60)
  <1> QED BY <1>2, <1>3, SMTT(60)

\* The days of a month follow each other.
LEMMA DaysOfMonth ==
  ASSUME NEW y \in Int, NEW m \in Int, NEW d \in Int
  PROVE  Days(y, m, 1) + d - 1 = Days(y, m, d)
  <1>1. PICK jf \in Int : jf = IF m <= 2 THEN 1 ELSE 0
    BY SMT
  <1>2. PICK yy \in Int, k \in Int : yy = y - jf /\ k = m + 12 * jf - 3
    BY SMT
  <1>3. PICK n \in Int :
          n = ((153 * k + 2) \div 5) + 365 * yy + (yy \div 4) - (yy \div 100) + (yy \div 400) - 719469
    BY SMT
  <1>4. Days(y, m, 1) = 1 + n
    BY <1>1, <1>2, <1>3, SMT DEF Days
  <1>5. Days(y, m, d) = d + n
    BY <1>1, <1>2, <1>3, SMT DEF Days
  <1> QED BY <1>4, <1>5, SMT

\* A date field holds the day it was made from, of FAT's calendar.
LEMMA FieldOfDay ==
  ASSUME NEW day \in Int, 3652 <= day, day <= 50402, NEW sec \in Int,
         NEW t, t = [day |-> day, sec |-> sec]
  PROVE  /\ ShowsDate(fat_from_unix_date(t), t)
         /\ fat_to_unix_date(fat_from_unix_date(t)) = [day |-> day, sec |-> 0]
  <1>0. LET g == gmtime(t)
        IN  /\ g.year \in 80 .. 207 /\ g.mon \in 0 .. 11 /\ g.mday \in 1 .. 31
            /\ Days(1900 + g.year, g.mon + 1, g.mday) = day
    BY DateOfDay, SMT
  <1>00. gmtime(t).year \in Int /\ gmtime(t).mon \in Int /\ gmtime(t).mday \in Int
    BY <1>0, SMT
  <1>y. PICK y \in Int : y = gmtime(t).year
    BY <1>00, SMT
  <1>m. PICK m \in Int : m = gmtime(t).mon
    BY <1>00, SMT
  <1>d. PICK d \in Int : d = gmtime(t).mday
    BY <1>00, SMT
  <1>1. y = gmtime(t).year /\ m = gmtime(t).mon /\ d = gmtime(t).mday
    BY <1>y, <1>m, <1>d, SMT
  <1>12. /\ 80 <= y /\ y <= 207 /\ 0 <= m /\ m <= 11 /\ 1 <= d /\ d <= 31
         /\ Days(1900 + y, m + 1, d) = day
    BY <1>0, <1>1, SMT
  <1>2. PICK f \in Int : f = ((y - 80) * 512 + (m + 1) * 32 + d) % 65536
    BY SMT
  <1>3. fat_from_unix_date(t) = f
    BY <1>1, <1>2, SMT DEF fat_from_unix_date
  <1>4. /\ 0 <= f /\ f <= 65535
        /\ (f \div 512) + 80 = y /\ ((f \div 32) % 16) - 1 = m /\ f % 32 = d
    BY <1>2, <1>12, SMTT(60)
  <1>5. Shown(f) = [year |-> y, mon |-> m, mday |-> d]
    BY <1>4, SMT DEF Shown
  <1>6. ShowsDate(f, t)
    BY <1>1, <1>5, SMT DEF ShowsDate
  <1>7. m \div 12 = 0 /\ m % 12 = m
    BY <1>12, SMT
  <1>8. Days(1900 + y, m + 1, 1) + d - 1 = Days(1900 + y, m + 1, d)
    BY DaysOfMonth, SMT
  <1>9. fat_to_unix_date(f) = mktime(y, m, d, 0)
    BY <1>4, SMT DEF fat_to_unix_date
  <1>10. mktime(y, m, d, 0) = Norm(Days(1900 + y, m + 1, 1) + d - 1, 0)
    BY <1>1, <1>7, SMT DEF mktime
  <1>11. Norm(day, 0) = [day |-> day, sec |-> 0]
    BY SMT DEF Norm
  <1> QED BY <1>1, <1>12, <1>3, <1>6, <1>8, <1>9, <1>10, <1>11, SMT

\* A time field holds the time of day, to two seconds.
LEMMA FieldOfTime ==
  ASSUME NEW day \in Int, NEW sec \in Int, 0 <= sec, sec <= 86399,
         NEW t, t = [day |-> day, sec |-> sec]
  PROVE  ShowsTime(fat_from_unix_time(t), t)
  <1>1. PICK h \in Int, k \in Int : h = sec \div 3600 /\ k = sec \div 60
    BY SMT
  <1>2. PICK m \in Int, s \in Int : m = k % 60 /\ s = sec % 60
    BY SMT
  <1>3. PICK half \in Int : half = s \div 2
    BY SMT
  <1>4. gmtime(t).hour = h /\ gmtime(t).min = m /\ gmtime(t).sec = s
    BY <1>1, <1>2, SMT DEF gmtime
  <1>5. PICK f \in Int : f = (h * 2048 + m * 32 + half) % 65536
    BY SMT
  <1>6. fat_from_unix_time(t) = f
    BY <1>3, <1>4, <1>5, SMT DEF fat_from_unix_time
  <1>7. (f \div 2048) * 3600 + ((f \div 32) % 64) * 60 + (f % 32) * 2 = sec - (sec % 2)
    BY <1>1, <1>2, <1>3, <1>5, TimeParts, SMT
  <1> QED BY <1>6, <1>7, SMT DEF ShowsTime

\* The date of a stamp is that of its day.
LEMMA DateFieldOf ==
  ASSUME NEW day \in Int, NEW sec \in Int
  PROVE  fat_from_unix_date([day |-> day, sec |-> sec]) = DateField(day)
  BY SMT DEF fat_from_unix_date, DateField, gmtime

\* The date of the epoch wraps around.
LEMMA EpochWraps == DateField(0) = DateField(46752)
  <1>1. DateField(0) = 60449
    <2>1. (0 + 719468) % 146097 = 135080 /\ (0 + 719468) \div 146097 = 4
      BY SMT
    <2>2. YearOfEra(135080) = 369
      BY SMT DEF YearOfEra
    <2>3. DayOfYear(135080) = 306
      BY <2>2, SMT DEF DayOfYear
    <2>4. MonthOf(306) = 10 /\ CivilMonth(10) = 1 /\ FirstOf(10) = 306
      BY SMT DEF MonthOf, CivilMonth, FirstOf
    <2>5. LET g == gmtime([day |-> 0, sec |-> 0])
          IN  g.year = 70 /\ g.mon = 0 /\ g.mday = 1
      BY <2>1, <2>2, <2>3, <2>4, SMT DEF gmtime
    <2> QED BY <2>5, SMT DEF DateField, fat_from_unix_date
  <1>2. DateField(46752) = 60449
    <2>1. (46752 + 719468) % 146097 = 35735 /\ (46752 + 719468) \div 146097 = 5
      BY SMT
    <2>2. YearOfEra(35735) = 97
      BY SMT DEF YearOfEra
    <2>3. DayOfYear(35735) = 306
      BY <2>2, SMT DEF DayOfYear
    <2>4. MonthOf(306) = 10 /\ CivilMonth(10) = 1 /\ FirstOf(10) = 306
      BY SMT DEF MonthOf, CivilMonth, FirstOf
    <2>5. LET g == gmtime([day |-> 46752, sec |-> 0])
          IN  g.year = 198 /\ g.mon = 0 /\ g.mday = 1
      BY <2>1, <2>2, <2>3, <2>4, SMT DEF gmtime
    <2> QED BY <2>5, SMT DEF DateField, fat_from_unix_date
  <1> QED BY <1>1, <1>2, SMT

\* The fields have sixteen bits.
LEMMA FieldTypes ==
  ASSUME NEW day \in Int, NEW sec \in Int, NEW t, t = [day |-> day, sec |-> sec]
  PROVE  fat_from_unix_date(t) \in Fields /\ fat_from_unix_time(t) \in Fields
  <1>1. /\ gmtime(t).hour \in Int /\ gmtime(t).min \in Int /\ gmtime(t).sec \in Int
    BY SMT DEF gmtime
  <1>2. YearOfEra((day + 719468) % 146097) \in Int
    BY SMT DEF YearOfEra
  <1>3. DayOfYear((day + 719468) % 146097) \in Int
    BY <1>2, SMT DEF DayOfYear
  <1>4. /\ gmtime(t).year \in Int /\ gmtime(t).mon \in Int /\ gmtime(t).mday \in Int
    BY <1>2, <1>3, SMT DEF gmtime, MonthOf, FirstOf, CivilMonth
  <1>5. fat_from_unix_date(t) \in Fields
    <2>1. PICK n \in Int : n = (gmtime(t).year - 80) * 512 + (gmtime(t).mon + 1) * 32 + gmtime(t).mday
      BY <1>4, SMT
    <2>2. fat_from_unix_date(t) = n % 65536
      BY <2>1, SMT DEF fat_from_unix_date
    <2>3. PICK f \in Int : f = n % 65536 /\ 0 <= f /\ f <= 65535
      BY SMT
    <2>4. fat_from_unix_date(t) = f
      BY <2>2, <2>3, SMT
    <2>5. f \in Fields
      BY <2>3, Bounds, SMT
    <2> QED BY <2>4, <2>5, SMT
  <1>6. fat_from_unix_time(t) \in Fields
    <2>1. PICK n \in Int : n = gmtime(t).hour * 2048 + gmtime(t).min * 32 + (gmtime(t).sec \div 2)
      BY <1>1, SMT
    <2>2. fat_from_unix_time(t) = n % 65536
      BY <2>1, SMT DEF fat_from_unix_time
    <2>3. PICK f \in Int : f = n % 65536 /\ 0 <= f /\ f <= 65535
      BY SMT
    <2>4. fat_from_unix_time(t) = f
      BY <2>2, <2>3, SMT
    <2>5. f \in Fields
      BY <2>3, Bounds, SMT
    <2> QED BY <2>4, <2>5, SMT
  <1> QED BY <1>5, <1>6, SMT

-----------------------------------------------------------------------------
(* The stamps of the file. *)

Moments == [day : Int, sec : Seconds]
HandleFlags == {"OPEN", "NEW", "FS_DIRTY", "WROTE"}
HandleS == [flags : SUBSET HandleFlags, first : BOOLEAN,
            created : Moments, modified : Moments, accessed : Moments]

\* Clocks that show times FAT can store, but not 2098-01-01: the stamp of a file
\* that was never read (gristle.c:1308) wraps around to that day, and
\* fat_update_atime would take it for the day of the last read.
ClockInFat == \A i \in DOMAIN Clock : Clock[i].day \in Calendar /\ Clock[i].day # EpochShown
Stamps == {t \in Moments : t.day \in Calendar /\ t.day # EpochShown}

MadeS == [opened : Stamps \cup {Never}, created : Stamps \cup {Never},
          written : Stamps \cup {Never}, read : Stamps \cup {Never},
          stores : Nat, storedBy : SUBSET HandleFlags]
StampTypes ==
  /\ now \in DOMAIN Clock /\ handle \in HandleS /\ made \in MadeS
  /\ entry = Never \/ entry \in EntryS
  /\ ~IsOpen => handle = Closed

\* The stamp of the last read, on its way through handle and entry.
ReadInv ==
  /\ handle.accessed = Epoch \/ handle.accessed.day \in Calendar
  /\ entry # Never =>
       LET day == fat_to_unix_date(entry.adate).day
       IN  day \in Calendar /\ entry.adate = DateField(day)
  /\ handle.first /\ "FS_DIRTY" \notin handle.flags =>
       /\ entry # Never /\ handle.accessed.day \in Calendar
       /\ entry.adate = DateField(handle.accessed.day)
  /\ made.read # Never =>
       /\ IsOpen => handle.accessed.day = made.read.day
       /\ ~(handle.first /\ "FS_DIRTY" \in handle.flags) =>
            entry # Never /\ entry.adate = DateField(made.read.day)

\* The stamps of a handle that wrote, or that made the file, and those it stored.
WriteInv ==
  /\ "WROTE" \in handle.flags =>
       /\ handle.modified = made.written /\ handle.modified \in Stamps
       /\ handle.first /\ "FS_DIRTY" \in handle.flags
  /\ "NEW" \in handle.flags => handle.created = made.opened /\ handle.created \in Stamps
  /\ entry # Never /\ "WROTE" \in made.storedBy /\ "WROTE" \notin handle.flags =>
       ShowsDate(entry.mdate, made.written) /\ ShowsTime(entry.mtime, made.written)
  /\ entry # Never /\ "NEW" \in made.storedBy =>
       ShowsDate(entry.cdate, made.created) /\ ShowsTime(entry.ctime, made.created)

StampInv == StampTypes /\ ReadInv /\ WriteInv

\* What a stamp is stored as.
LEMMA StampStored ==
  ASSUME NEW t \in Moments
  PROVE  /\ fat_from_unix_date(t) = DateField(t.day)
         /\ fat_from_unix_date(t) \in Fields /\ fat_from_unix_time(t) \in Fields
         /\ ShowsTime(fat_from_unix_time(t), t)
  <1>0. t.day \in Int /\ t.sec \in Int /\ 0 <= t.sec /\ t.sec <= 86399
    <2>1. t.day \in Int /\ t.sec \in Seconds
      BY DEF Moments
    <2> QED BY <2>1, Bounds, SMT
  <1>1. PICK day \in Int, sec \in Int : day = t.day /\ sec = t.sec
    BY <1>0, SMT
  <1>2. t = [day |-> day, sec |-> sec]
    BY <1>1, SMT DEF Moments
  <1>3. fat_from_unix_date(t) = DateField(t.day)
    BY <1>1, <1>2, DateFieldOf, SMT
  <1>4. fat_from_unix_date(t) \in Fields /\ fat_from_unix_time(t) \in Fields
    BY <1>2, FieldTypes, SMT
  <1>5. ShowsTime(fat_from_unix_time(t), t)
    <2>1. 0 <= sec /\ sec <= 86399
      BY <1>0, <1>1, SMT
    <2> QED BY <1>2, <2>1, FieldOfTime, SMT
  <1> QED BY <1>3, <1>4, <1>5, SMT

\* What is stored of a day of FAT's calendar.
LEMMA DayStored ==
  ASSUME NEW day \in Calendar
  PROVE  /\ fat_to_unix_date(DateField(day)) = [day |-> day, sec |-> 0]
         /\ \A t \in Moments : t.day = day => ShowsDate(DateField(day), t)
  <1>1. day \in Int /\ 3652 <= day /\ day <= 50402
    BY Bounds, SMT
  <1>2. fat_to_unix_date(DateField(day)) = [day |-> day, sec |-> 0]
    BY <1>1, FieldOfDay, SMT DEF DateField
  <1>3. ASSUME NEW t \in Moments, t.day = day
        PROVE  ShowsDate(DateField(day), t)
    <2>0. t.sec \in Int
      <3>1. t.sec \in Seconds
        BY DEF Moments
      <3> QED BY <3>1, Bounds, SMT
    <2>1. PICK sec \in Int : sec = t.sec
      BY <2>0, SMT
    <2>2. t = [day |-> day, sec |-> sec]
      BY <1>3, <2>1, SMT DEF Moments
    <2>3. ShowsDate(fat_from_unix_date(t), t)
      BY <1>1, <2>2, FieldOfDay, SMT
    <2> QED BY <1>3, <2>3, StampStored, SMT
  <1> QED BY <1>2, <1>3

\* The day of a date field is the only one of the calendar it is stored from.
LEMMA DayIsUnique ==
  ASSUME NEW a \in Calendar, NEW b \in Calendar, DateField(a) = DateField(b)
  PROVE  a = b
  <1>1. [day |-> a, sec |-> 0] = [day |-> b, sec |-> 0]
    BY DayStored
  <1> QED BY <1>1

\* The epoch is stored as a day of the calendar.
LEMMA EpochStored ==
  Epoch \in Moments /\ EpochShown \in Calendar /\ DateField(Epoch.day) = DateField(EpochShown)
  <1>1. Epoch \in Moments /\ Epoch.day = 0
    BY Bounds, SMT DEF Epoch, Moments
  <1>2. EpochShown \in Calendar
    BY Bounds, SMT DEF EpochShown
  <1>3. DateField(0) = DateField(46752)
    BY EpochWraps
  <1> QED BY <1>1, <1>2, <1>3, SMT DEF EpochShown

\* The seconds of a day, from any number of them.
LEMMA NormTypes ==
  ASSUME NEW day \in Int, NEW sec \in Int
  PROVE  Norm(day, sec) \in Moments
  <1>1. PICK d \in Int, s \in Int :
          d = day + (sec \div 86400) /\ s = sec % 86400 /\ 0 <= s /\ s <= 86399
    BY SMT
  <1>2. s \in Seconds
    <2>1. 0 <= s /\ s <= 86399
      BY <1>1, SMT
    <2> QED BY <2>1, Bounds, SMT
  <1>3. Norm(day, sec) = [day |-> d, sec |-> s]
    BY <1>1, SMT DEF Norm
  <1> QED BY <1>2, <1>3 DEF Moments

\* The conversions from an entry give stamps.
LEMMA FieldDecoded ==
  ASSUME NEW f \in Int
  PROVE  fat_to_unix_date(f) \in Moments /\ fat_to_unix_time(f) \in Moments
  <1>1. ASSUME NEW y \in Int, NEW m \in Int, NEW d \in Int, NEW s \in Int
        PROVE  mktime(y, m, d, s) \in Moments
    <2>1. ASSUME NEW yy \in Int, NEW mm \in Int PROVE Days(yy, mm, 1) \in Int
      BY <2>1, SMT DEF Days
    <2>2. PICK yy \in Int, mm \in Int : yy = 1900 + y + (m \div 12) /\ mm = (m % 12) + 1
      BY SMT
    <2>3. PICK n \in Int : n = Days(yy, mm, 1) + d - 1
      BY <2>1, SMT
    <2>4. mktime(y, m, d, s) = Norm(n, s)
      BY <2>2, <2>3, SMT DEF mktime
    <2> QED BY <2>4, NormTypes
  <1>2. PICK y \in Int, m \in Int, d \in Int :
          y = (f \div 512) + 80 /\ m = ((f \div 32) % 16) - 1 /\ d = f % 32
    BY SMT
  <1>3. fat_to_unix_date(f) = mktime(y, m, d, 0)
    BY <1>2, SMT DEF fat_to_unix_date
  <1>4. PICK s \in Int : s = (f \div 2048) * 3600 + ((f \div 32) % 64) * 60 + (f % 32) * 2
    BY SMT
  <1>5. fat_to_unix_time(f) = mktime(0, 0, 0, s)
    BY <1>4, SMT DEF fat_to_unix_time
  <1> QED BY <1>1, <1>3, <1>5, SMT

\* Stamps add up to stamps.
LEMMA PlusTypes ==
  ASSUME NEW s \in Moments, NEW t \in Moments
  PROVE  Plus(s, t) \in Moments
  <1>1. s.day \in Int /\ s.sec \in Int /\ t.day \in Int /\ t.sec \in Int
    BY Bounds, SMT DEF Moments
  <1>2. s.day + t.day \in Int /\ s.sec + t.sec \in Int
    BY <1>1, SMT
  <1> QED BY <1>2, NormTypes DEF Plus

\* The handle fat_lookup_path fills.
LEMMA HandleDecoded ==
  ASSUME NEW e \in EntryS
  PROVE  /\ HandleOfEntry(e) \in HandleS
         /\ HandleOfEntry(e).flags = {"OPEN"} /\ HandleOfEntry(e).first = TRUE
         /\ HandleOfEntry(e).accessed = fat_to_unix_date(e.adate)
  <1>1. /\ e.cdate \in Int /\ e.ctime \in Int /\ e.mdate \in Int /\ e.adate \in Int
        /\ e.fine \in {0, 100}
    BY Bounds, SMT DEF EntryS
  <1>2. /\ fat_to_unix_date(e.cdate) \in Moments /\ fat_to_unix_time(e.ctime) \in Moments
        /\ fat_to_unix_date(e.mdate) \in Moments /\ fat_to_unix_time(e.mdate) \in Moments
        /\ fat_to_unix_date(e.adate) \in Moments
    BY <1>1, FieldDecoded
  <1>3. [day |-> 0, sec |-> e.fine] \in Moments
    <2>1. 0 \in Seconds /\ 100 \in Seconds
      BY Bounds, SMT
    <2> QED BY <1>1, <2>1 DEF Moments
  <1>4. /\ HandleOfEntry(e).created \in Moments /\ HandleOfEntry(e).modified \in Moments
    BY <1>2, <1>3, PlusTypes DEF HandleOfEntry
  <1> QED BY <1>2, <1>4 DEF HandleOfEntry, HandleS, HandleFlags

\* The entry fat_flush_fileinfo stores.
LEMMA EntryStored ==
  ASSUME NEW h \in HandleS
  PROVE  /\ EntryOfHandle(h) \in EntryS /\ EntryOfHandle(h) # Never
         /\ EntryOfHandle(h).adate = DateField(h.accessed.day)
         /\ EntryOfHandle(h).mdate = DateField(h.modified.day)
         /\ EntryOfHandle(h).cdate = DateField(h.created.day)
         /\ ShowsTime(EntryOfHandle(h).mtime, h.modified)
         /\ ShowsTime(EntryOfHandle(h).ctime, h.created)
  <1>1. h.created \in Moments /\ h.modified \in Moments /\ h.accessed \in Moments
    BY DEF HandleS
  <1>2. (h.created.sec % 2) * 100 \in {0, 100}
    <2>1. h.created.sec \in Int
      BY <1>1, Bounds, SMT DEF Moments
    <2> QED BY <2>1, SMT
  <1>3. EntryOfHandle(h) \in EntryS
    BY <1>1, <1>2, StampStored DEF EntryOfHandle, EntryS
  <1>4. EntryOfHandle(h) # Never
    BY <1>3, NeverAssumption
  <1> QED BY <1>1, <1>3, <1>4, StampStored DEF EntryOfHandle

\* The readings of the clock.
LEMMA TimeIsStamp ==
  ASSUME ClockInFat, now \in DOMAIN Clock
  PROVE  Time \in Stamps /\ Time \in Moments /\ Time.day \in Calendar /\ Time.day # EpochShown
  <1>1. Clock[now] \in [day : Nat, sec : Seconds]
    <2>1. DOMAIN Clock = 1 .. Len(Clock)
      BY ClockAssumption
    <2>2. now \in 1 .. Len(Clock)
      BY <2>1
    <2>3. \A S : Clock \in Seq(S) => Clock[now] \in S
      BY <2>2
    <2> QED BY <2>3, ClockAssumption
  <1>2. Clock[now] \in Moments
    BY <1>1 DEF Moments
  <1> QED BY <1>2 DEF ClockInFat, Stamps, Time

\* At the start nothing is stored, and the handle is closed.
LEMMA StampStart == ASSUME ClockInFat, TimeInit PROVE StampInv
  <1>1. now \in DOMAIN Clock
    <2>1. Clock \in Seq([day : Nat, sec : Seconds]) /\ Clock # <<>>
      BY ClockAssumption
    <2>2. \A S : Clock \in Seq(S) /\ Clock # <<>> => 1 \in DOMAIN Clock
      OBVIOUS
    <2> QED BY <2>1, <2>2 DEF TimeInit
  <1>2. handle = Closed /\ Closed.flags = {} /\ Closed.first = FALSE /\ Closed.accessed = Epoch
    BY DEF TimeInit, Closed
  <1>3. Closed \in HandleS
    BY EpochStored DEF Closed, HandleS
  <1>4. made \in MadeS
    BY DEF TimeInit, MadeS
  <1>5. entry = Never /\ made.read = Never
    BY DEF TimeInit
  <1>6. StampTypes
    BY <1>1, <1>2, <1>3, <1>4, <1>5 DEF StampTypes
  <1>7. ReadInv
    BY <1>2, <1>5 DEF ReadInv
  <1>8. WriteInv
    BY <1>2, <1>5 DEF WriteInv
  <1> QED BY <1>6, <1>7, <1>8 DEF StampInv

\* Waiting changes the clock alone.
LEMMA WaitStep == ASSUME StampInv, Wait PROVE StampInv'
  <1>1. now' \in DOMAIN Clock
    <2>1. Clock \in Seq([day : Nat, sec : Seconds])
      BY ClockAssumption
    <2>2. DOMAIN Clock = 1 .. Len(Clock) /\ Len(Clock) \in Nat
      BY <2>1
    <2>3. now \in 1 .. Len(Clock) /\ now < Len(Clock) /\ now' = now + 1
      BY <2>2 DEF StampInv, StampTypes, Wait
    <2>4. now' \in 1 .. Len(Clock)
      BY <2>2, <2>3, SMT
    <2> QED BY <2>2, <2>4
  <1>2. UNCHANGED <<entry, handle, made>>
    BY DEF Wait
  <1>3. IsOpen' = IsOpen
    BY <1>2 DEF IsOpen
  <1>4. StampTypes'
    BY <1>1, <1>2, <1>3 DEF StampInv, StampTypes
  <1>5. ReadInv'
    BY <1>2, <1>3 DEF StampInv, ReadInv
  <1>6. WriteInv'
    BY <1>2 DEF StampInv, WriteInv
  <1> QED BY <1>4, <1>5, <1>6 DEF StampInv

\* A new file was never read: its stamp of the last read is the epoch.
LEMMA OpenNewStep == ASSUME ClockInFat, StampInv, OpenNew PROVE StampInv'
  <1>1. Time \in Stamps /\ Time \in Moments
    BY TimeIsStamp DEF StampInv, StampTypes
  <1>2. entry = Never /\ entry' = Never /\ now' = now /\ handle = Closed
    BY DEF OpenNew, StampInv, StampTypes
  <1>3. /\ handle'.flags = {"OPEN", "NEW"} /\ handle'.first = FALSE /\ handle'.created = Time
        /\ handle'.modified = Epoch /\ handle'.accessed = Epoch /\ handle' \in HandleS
    BY <1>1, EpochStored DEF OpenNew, Closed, HandleS, HandleFlags
  <1>4. made' = [made EXCEPT !.opened = Time] /\ made \in MadeS
    BY DEF OpenNew, StampInv, StampTypes
  <1>5. /\ made'.opened = Time /\ made'.read = made.read /\ made' \in MadeS
    BY <1>1, <1>4 DEF MadeS
  <1>6. made.read = Never
    BY <1>2 DEF StampInv, ReadInv, Closed
  <1>7. IsOpen'
    BY <1>3 DEF IsOpen
  <1>8. StampTypes'
    BY <1>2, <1>3, <1>5, <1>7 DEF StampInv, StampTypes
  <1>9. ReadInv'
    BY <1>2, <1>3, <1>5, <1>6 DEF ReadInv
  <1>10. WriteInv'
    BY <1>1, <1>2, <1>3, <1>5 DEF WriteInv
  <1> QED BY <1>8, <1>9, <1>10 DEF StampInv

\* A closed handle, and the stamp of the last read in the entry.
LEMMA EntryDecoded ==
  ASSUME StampInv, ~IsOpen, entry # Never
  PROVE  /\ handle = Closed /\ entry \in EntryS
         /\ HandleOfEntry(entry) \in HandleS /\ HandleOfEntry(entry).flags = {"OPEN"}
         /\ HandleOfEntry(entry).accessed.day \in Calendar
         /\ entry.adate = DateField(HandleOfEntry(entry).accessed.day)
         /\ made.read # Never => /\ HandleOfEntry(entry).accessed.day = made.read.day
                                /\ entry.adate = DateField(made.read.day)
  <1>1. handle = Closed /\ entry \in EntryS /\ made \in MadeS
    BY DEF StampInv, StampTypes
  <1>2. /\ HandleOfEntry(entry) \in HandleS /\ HandleOfEntry(entry).flags = {"OPEN"}
        /\ HandleOfEntry(entry).accessed = fat_to_unix_date(entry.adate)
    BY <1>1, HandleDecoded
  <1>3. /\ HandleOfEntry(entry).accessed.day \in Calendar
        /\ entry.adate = DateField(HandleOfEntry(entry).accessed.day)
    BY <1>2 DEF StampInv, ReadInv
  <1>4. ASSUME made.read # Never
        PROVE  /\ HandleOfEntry(entry).accessed.day = made.read.day
               /\ entry.adate = DateField(made.read.day)
    <2>1. entry.adate = DateField(made.read.day)
      BY <1>1, <1>4 DEF StampInv, ReadInv, Closed
    <2>2. made.read.day \in Calendar
      BY <1>1, <1>4 DEF MadeS, Stamps
    <2> QED BY <1>3, <2>1, <2>2, DayIsUnique
  <1> QED BY <1>1, <1>2, <1>3, <1>4

\* The stored file is opened: the day of the last read is decoded.
LEMMA OpenOldStep == ASSUME StampInv, OpenOld PROVE StampInv'
  <1>1. ~IsOpen /\ entry # Never /\ UNCHANGED <<entry, now, made>>
    BY DEF OpenOld
  <1>2. /\ handle = Closed
        /\ handle' \in HandleS /\ handle'.flags = {"OPEN"} /\ handle'.accessed.day \in Calendar
        /\ entry.adate = DateField(handle'.accessed.day)
        /\ made.read # Never => /\ handle'.accessed.day = made.read.day
                               /\ entry.adate = DateField(made.read.day)
    BY <1>1, EntryDecoded DEF OpenOld
  <1>3. IsOpen'
    BY <1>2 DEF IsOpen
  <1>4. StampTypes'
    BY <1>1, <1>2, <1>3 DEF StampInv, StampTypes
  <1>5. ReadInv'
    <2>1. LET day == fat_to_unix_date(entry.adate).day
          IN  day \in Calendar /\ entry.adate = DateField(day)
      BY <1>1 DEF StampInv, ReadInv
    <2> QED BY <1>1, <1>2, <2>1 DEF ReadInv
  <1>6. WriteInv'
    BY <1>1, <1>2 DEF StampInv, WriteInv, Closed
  <1> QED BY <1>4, <1>5, <1>6 DEF StampInv

\* ... and truncated: it keeps the stamp of the last read.
LEMMA OpenTruncStep == ASSUME ClockInFat, StampInv, OpenTrunc PROVE StampInv'
  <1>0. Time \in Stamps /\ Time \in Moments
    BY TimeIsStamp DEF StampInv, StampTypes
  <1>1. /\ ~IsOpen /\ entry # Never /\ UNCHANGED <<entry, now>>
        /\ made' = [made EXCEPT !.opened = Time] /\ made \in MadeS
    BY DEF OpenTrunc, StampInv, StampTypes
  <1>2. /\ handle = Closed
        /\ HandleOfEntry(entry) \in HandleS
        /\ HandleOfEntry(entry).accessed.day \in Calendar
        /\ made.read # Never => /\ HandleOfEntry(entry).accessed.day = made.read.day
                               /\ entry.adate = DateField(made.read.day)
    BY <1>1, EntryDecoded
  <1>3. /\ handle'.flags = {"OPEN", "NEW", "FS_DIRTY"} /\ handle'.first = FALSE
        /\ handle'.created = Time /\ handle'.accessed = HandleOfEntry(entry).accessed
        /\ handle' \in HandleS
    BY <1>0, <1>2 DEF OpenTrunc, HandleS, HandleFlags
  <1>4. /\ made'.opened = Time /\ made'.read = made.read /\ made'.written = made.written
        /\ made'.created = made.created /\ made'.storedBy = made.storedBy /\ made' \in MadeS
    BY <1>0, <1>1 DEF MadeS
  <1>5. IsOpen'
    BY <1>3 DEF IsOpen
  <1>6. StampTypes'
    BY <1>1, <1>3, <1>4, <1>5 DEF StampInv, StampTypes
  <1>7. ReadInv'
    <2>1. LET day == fat_to_unix_date(entry.adate).day
          IN  day \in Calendar /\ entry.adate = DateField(day)
      BY <1>1 DEF StampInv, ReadInv
    <2> QED BY <1>1, <1>2, <1>3, <1>4, <2>1 DEF ReadInv
  <1>8. WriteInv'
    BY <1>0, <1>1, <1>2, <1>3, <1>4 DEF StampInv, WriteInv, Closed
  <1> QED BY <1>6, <1>7, <1>8 DEF StampInv

\* A write marks the handle for storing, and leaves the stamp of the last read.
LEMMA WriteStep == ASSUME ClockInFat, StampInv, Write PROVE StampInv'
  <1>0. Time \in Stamps /\ Time \in Moments
    BY TimeIsStamp DEF StampInv, StampTypes
  <1>1. /\ IsOpen /\ UNCHANGED <<entry, now>> /\ handle \in HandleS
        /\ made' = [made EXCEPT !.written = Time] /\ made \in MadeS
    BY DEF Write, StampInv, StampTypes
  <1>2. /\ handle'.flags = (handle.flags \cup {"WROTE"}) \cup {"FS_DIRTY"}
        /\ handle'.first = TRUE /\ handle'.created = handle.created
        /\ handle'.modified = Time /\ handle'.accessed = handle.accessed
        /\ handle' \in HandleS
    BY <1>0, <1>1 DEF Write, fat_update_mtime, HandleS, HandleFlags
  <1>3. /\ made'.written = Time /\ made'.read = made.read /\ made'.opened = made.opened
        /\ made'.created = made.created /\ made'.storedBy = made.storedBy /\ made' \in MadeS
    BY <1>0, <1>1 DEF MadeS
  <1>4. IsOpen'
    BY <1>1, <1>2 DEF IsOpen
  <1>5. StampTypes'
    BY <1>1, <1>2, <1>3, <1>4 DEF StampInv, StampTypes
  <1>6. ReadInv'
    BY <1>1, <1>2, <1>3 DEF StampInv, ReadInv
  <1>7. WriteInv'
    BY <1>0, <1>1, <1>2, <1>3 DEF StampInv, WriteInv
  <1> QED BY <1>5, <1>6, <1>7 DEF StampInv

\* A read on the day of the last one leaves the handle alone: its stamp already
\* shows the day, since no day of the clock is stored as the epoch is.
LEMMA ReadStep == ASSUME ClockInFat, StampInv, Read PROVE StampInv'
  <1>0. /\ Time \in Stamps /\ Time \in Moments /\ Time.day \in Calendar
        /\ Time.day # EpochShown
    BY TimeIsStamp DEF StampInv, StampTypes
  <1>1. /\ IsOpen /\ handle.first /\ UNCHANGED <<entry, now>> /\ handle \in HandleS
        /\ handle.accessed \in Moments
        /\ made' = [made EXCEPT !.read = Time] /\ made \in MadeS
        /\ handle' = fat_update_atime(handle)
    BY DEF Read, StampInv, StampTypes, HandleS
  <1>3. /\ made'.written = made.written /\ made'.read = Time /\ made'.opened = made.opened
        /\ made'.created = made.created /\ made'.storedBy = made.storedBy /\ made' \in MadeS
    BY <1>0, <1>1 DEF MadeS
  <1>4. LET day == fat_to_unix_date(entry.adate).day
        IN  entry # Never => day \in Calendar /\ entry.adate = DateField(day)
    BY DEF StampInv, ReadInv
  <1>5. CASE fat_from_unix_date(handle.accessed) = fat_from_unix_date(Time)
    <2>1. handle' = handle
      BY <1>1, <1>5 DEF fat_update_atime
    <2>2. IsOpen'
      BY <1>1, <2>1 DEF IsOpen
    <2>3. DateField(handle.accessed.day) = DateField(Time.day)
      BY <1>0, <1>1, <1>5, StampStored
    <2>4. handle.accessed.day = Time.day
      <3>1. CASE handle.accessed = Epoch
        BY <1>0, <2>3, <3>1, EpochStored, DayIsUnique
      <3>2. CASE handle.accessed.day \in Calendar
        BY <1>0, <2>3, <3>2, DayIsUnique
      <3> QED BY <3>1, <3>2 DEF StampInv, ReadInv
    <2>5. StampTypes'
      BY <1>1, <1>3, <2>1, <2>2 DEF StampInv, StampTypes
    <2>6. ReadInv'
      BY <1>1, <1>3, <1>4, <2>1, <2>4 DEF StampInv, ReadInv
    <2>7. WriteInv'
      BY <1>1, <1>3, <2>1 DEF StampInv, WriteInv
    <2> QED BY <2>5, <2>6, <2>7 DEF StampInv
  <1>6. CASE fat_from_unix_date(handle.accessed) # fat_from_unix_date(Time)
    <2>1. /\ handle'.flags = handle.flags \cup {"FS_DIRTY"} /\ handle'.first = handle.first
          /\ handle'.created = handle.created /\ handle'.modified = handle.modified
          /\ handle'.accessed = Time /\ handle' \in HandleS
      BY <1>0, <1>1, <1>6 DEF fat_update_atime, HandleS, HandleFlags
    <2>2. IsOpen'
      BY <1>1, <2>1 DEF IsOpen
    <2>3. StampTypes'
      BY <1>1, <1>3, <2>1, <2>2 DEF StampInv, StampTypes
    <2>4. ReadInv'
      BY <1>0, <1>1, <1>3, <1>4, <2>1 DEF ReadInv
    <2>5. WriteInv'
      BY <1>1, <1>3, <2>1 DEF StampInv, WriteInv
    <2> QED BY <2>3, <2>4, <2>5 DEF StampInv
  <1> QED BY <1>5, <1>6

\* Closing a handle that is not stored leaves the entry as it is.
LEMMA CloseUnstored ==
  ASSUME StampInv, Close, ~("FS_DIRTY" \in handle.flags /\ handle.first)
  PROVE  StampInv'
  <1>1. handle' = Closed /\ UNCHANGED <<entry, made, now>> /\ IsOpen
    BY DEF Close
  <1>2. Closed \in HandleS /\ Closed.flags = {} /\ Closed.first = FALSE /\ Closed.accessed = Epoch
    BY EpochStored DEF Closed, HandleS
  <1>3. ~IsOpen'
    BY <1>1, <1>2 DEF IsOpen
  <1>4. StampTypes'
    BY <1>1, <1>2 DEF StampInv, StampTypes
  <1>5. ReadInv'
    BY <1>1, <1>2, <1>3 DEF StampInv, ReadInv
  <1>6. WriteInv'
    BY <1>1, <1>2 DEF StampInv, WriteInv
  <1> QED BY <1>4, <1>5, <1>6 DEF StampInv

\* Closing a handle that is stored puts its stamps into the entry.
LEMMA CloseStored ==
  ASSUME StampInv, Close, "FS_DIRTY" \in handle.flags, handle.first
  PROVE  StampInv'
  <1>1. /\ handle' = Closed /\ UNCHANGED now /\ IsOpen /\ entry' = EntryOfHandle(handle)
        /\ made' = [made EXCEPT !.storedBy = handle.flags, !.stores = @ + 1,
                                 !.created = IF "NEW" \in handle.flags THEN made.opened ELSE @]
        /\ made \in MadeS /\ handle \in HandleS
    BY DEF Close, StampInv, StampTypes
  <1>2. Closed \in HandleS /\ Closed.flags = {} /\ Closed.first = FALSE /\ Closed.accessed = Epoch
    BY EpochStored DEF Closed, HandleS
  <1>3. ~IsOpen'
    BY <1>1, <1>2 DEF IsOpen
  <1>4. /\ made'.storedBy = handle.flags /\ made'.read = made.read
        /\ made'.written = made.written /\ made' \in MadeS
        /\ "NEW" \in handle.flags => made'.created = made.opened
    <2>1. /\ made.stores \in Nat /\ made.opened \in Stamps \cup {Never}
          /\ made.created \in Stamps \cup {Never} /\ handle.flags \subseteq HandleFlags
      BY <1>1 DEF MadeS, HandleS
    <2>2. made.stores + 1 \in Nat
      BY <2>1, SMT
    <2>3. PICK n \in Nat, c \in Stamps \cup {Never} :
            /\ n = made.stores + 1 /\ c = IF "NEW" \in handle.flags THEN made.opened ELSE made.created
      BY <2>1, <2>2
    <2>4. made' = [made EXCEPT !.storedBy = handle.flags, !.stores = n, !.created = c]
      BY <1>1, <2>3
    <2> QED BY <1>1, <2>1, <2>3, <2>4 DEF MadeS
  <1>5. /\ entry' \in EntryS /\ entry' # Never
        /\ entry'.adate = DateField(handle.accessed.day)
        /\ entry'.mdate = DateField(handle.modified.day)
        /\ entry'.cdate = DateField(handle.created.day)
        /\ ShowsTime(entry'.mtime, handle.modified)
        /\ ShowsTime(entry'.ctime, handle.created)
    BY <1>1, EntryStored
  <1>6. StampTypes'
    BY <1>1, <1>2, <1>4, <1>5 DEF StampInv, StampTypes
  <1>7. ReadInv'
    <2>1. LET day == fat_to_unix_date(entry'.adate).day
          IN  day \in Calendar /\ entry'.adate = DateField(day)
      <3>1. CASE handle.accessed = Epoch
        BY <1>5, <3>1, EpochStored, DayStored
      <3>2. CASE handle.accessed.day \in Calendar
        BY <1>5, <3>2, DayStored
      <3> QED BY <3>1, <3>2 DEF StampInv, ReadInv
    <2>2. made.read # Never => handle.accessed.day = made.read.day
      BY <1>1 DEF StampInv, ReadInv
    <2> QED BY <1>1, <1>2, <1>3, <1>4, <1>5, <2>1, <2>2 DEF ReadInv
  <1>8. WriteInv'
    <2>1. ASSUME "WROTE" \in handle.flags
          PROVE  ShowsDate(entry'.mdate, made'.written) /\ ShowsTime(entry'.mtime, made'.written)
      <3>1. handle.modified = made.written /\ handle.modified \in Stamps
        BY <2>1 DEF StampInv, WriteInv
      <3>2. handle.modified \in Moments /\ handle.modified.day \in Calendar
        BY <3>1 DEF Stamps
      <3> QED BY <1>4, <1>5, <3>1, <3>2, DayStored
    <2>2. ASSUME "NEW" \in handle.flags
          PROVE  ShowsDate(entry'.cdate, made'.created) /\ ShowsTime(entry'.ctime, made'.created)
      <3>1. handle.created = made.opened /\ handle.created \in Stamps
        BY <2>2 DEF StampInv, WriteInv
      <3>2. handle.created \in Moments /\ handle.created.day \in Calendar
        BY <3>1 DEF Stamps
      <3> QED BY <1>4, <1>5, <2>2, <3>1, <3>2, DayStored
    <2> QED BY <1>1, <1>2, <1>4, <2>1, <2>2 DEF WriteInv
  <1> QED BY <1>6, <1>7, <1>8 DEF StampInv

\* A step that leaves the stamps alone.
LEMMA StampStutter == ASSUME StampInv, UNCHANGED timeVars PROVE StampInv'
  <1>1. UNCHANGED <<entry, handle, now, made>>
    BY DEF timeVars
  <1> QED BY <1>1 DEF StampInv, StampTypes, ReadInv, WriteInv, IsOpen

\* The inductive invariant of the stamps.
LEMMA StampInvariant == ASSUME ClockInFat PROVE Spec => []StampInv
  <1>1. Init => StampInv
    BY StampStart DEF Init
  <1>2. ASSUME StampInv, [Next]_<<nameVars, timeVars, part>>
        PROVE  StampInv'
    <2>1. CASE TimeNext
      <3>1. CASE Wait
        BY <1>2, <3>1, WaitStep
      <3>2. CASE OpenNew
        BY <1>2, <3>2, OpenNewStep
      <3>3. CASE OpenOld
        BY <1>2, <3>3, OpenOldStep
      <3>4. CASE OpenTrunc
        BY <1>2, <3>4, OpenTruncStep
      <3>5. CASE Write
        BY <1>2, <3>5, WriteStep
      <3>6. CASE Read
        BY <1>2, <3>6, ReadStep
      <3>7. CASE Close
        BY <1>2, <3>7, CloseStored, CloseUnstored
      <3> QED BY <2>1, <3>1, <3>2, <3>3, <3>4, <3>5, <3>6, <3>7 DEF TimeNext
    <2>2. CASE UNCHANGED timeVars
      BY <1>2, <2>2, StampStutter
    <2> QED BY <1>2, <2>1, <2>2 DEF Next
  <1> QED BY <1>1, <1>2, PTL DEF Spec

\* fat_update_atime (gristle.c:134), fat_flush_fileinfo (:698), fat_lookup_path
\* (:926): for every clock within the calendar of FAT, the entry of a closed file
\* shows the day of the last read that returned data, and an open handle holds it.
THEOREM AccessStampTracked == ASSUME ClockInFat PROVE Spec => []AccessTracked
  <1>1. ASSUME StampInv
        PROVE  AccessTracked
    <2>1. SUFFICES ASSUME made.read # Never
                   PROVE  /\ IsOpen => handle.accessed.day = made.read.day
                          /\ ~IsOpen => ShowsDate(entry.adate, made.read)
      BY DEF AccessTracked
    <2>2. IsOpen => handle.accessed.day = made.read.day
      BY <1>1, <2>1 DEF StampInv, ReadInv
    <2>3. ASSUME ~IsOpen
          PROVE  ShowsDate(entry.adate, made.read)
      <3>1. handle.first = FALSE
        BY <1>1, <2>3 DEF StampInv, StampTypes, Closed
      <3>2. entry.adate = DateField(made.read.day)
        BY <1>1, <2>1, <3>1 DEF StampInv, ReadInv
      <3>3. made.read \in Moments /\ made.read.day \in Calendar
        BY <1>1, <2>1 DEF StampInv, StampTypes, MadeS, Stamps
      <3> QED BY <3>2, <3>3, DayStored
    <2> QED BY <2>2, <2>3
  <1> QED BY <1>1, StampInvariant, PTL

\* fat_update_mtime (gristle.c:156), fat_open with O_TRUNC (:1363),
\* fat_flush_fileinfo (:698): for every clock within the calendar of FAT, the
\* entry shows the last write of the handle that stored it, and the creation if
\* that handle made or truncated the file.
THEOREM StampsOfWriter == ASSUME ClockInFat PROVE Spec => []WriterStamps
  <1>1. ASSUME StampInv
        PROVE  WriterStamps
    <2>1. SUFFICES ASSUME ~IsOpen, entry # Never
                   PROVE  WriterStamps
      BY DEF WriterStamps
    <2>2. handle.flags = {}
      BY <1>1, <2>1 DEF StampInv, StampTypes, Closed
    <2> QED BY <1>1, <2>1, <2>2 DEF StampInv, WriteInv, WriterStamps
  <1> QED BY <1>1, StampInvariant, PTL
=============================================================================
