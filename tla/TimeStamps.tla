------------------------------ MODULE TimeStamps ------------------------------
(***************************************************************************)
(* The time stamp of a file: f12 put reads the clock (common.c) and packs  *)
(* it into the entry as UTC, f12 list unpacks it again by means of mktime  *)
(* (libfat12/metadata.c).                                                  *)
(*                                                                         *)
(* An instant is [day |-> days since 1970, sec |-> second of that day].    *)
(* gmtime, mktime and localtime belong to the C library.                   *)
(***************************************************************************)
EXTENDS Integers, FiniteSets

CONSTANTS
    Instants,  \* times of the clock, with ms, its milliseconds
    Delays,    \* milliseconds between the two readings of the clock
    Zones      \* time zones, see SummerTime

VARIABLES
    phase,    \* "start", "clock", "created", "packed", "first", "read"
    zone,
    clock,    \* what gettimeofday has answered
    now,      \* the clock when time is called
    created,  \* the time stamp of the new file
    entry,    \* the date, the time and the fine resolution in the entry
    timeinfo, \* of lf12_read_entry_timestamp
    answer    \* what it returns, to 10 ms

stampVars == <<phase, zone, clock, now, created, entry, timeinfo, answer>>
-----------------------------------------------------------------------------
(***************************************************************************)
(* The calendar.                                                           *)
(***************************************************************************)
IsLeap(y) == y % 4 = 0 /\ (y % 100 # 0 \/ y % 400 = 0)

DaysUpTo(y) == (y - 1) \div 4 - (y - 1) \div 100 + (y - 1) \div 400

YearStart(y) == 365 * (y - 1970) + DaysUpTo(y) - DaysUpTo(1970)

MonthStart(y, m) ==
    <<0, 31, 59, 90, 120, 151, 181, 212, 243, 273, 304, 334>>[m]
        + IF IsLeap(y) /\ m > 2 THEN 1 ELSE 0

\* Months out of 1 .. 12 count into the neighbouring years, as mktime has it.
DayNumber(y, m, d) ==
    LET year == y + (m - 1) \div 12
        month == 1 + ((m - 1) % 12)
    IN  YearStart(year) + MonthStart(year, month) + d - 1

Calendar(day) ==
    LET year == CHOOSE y \in (1969 + day \div 366) .. (1970 + day \div 365) :
                    YearStart(y) <= day /\ day < YearStart(y + 1)
        inYear == day - YearStart(year)
        month == CHOOSE m \in 1 .. 12 :
                    /\ MonthStart(year, m) <= inYear
                    /\ m = 12 \/ inYear < MonthStart(year, m + 1)
    IN  [year |-> year, month |-> month, mday |-> inYear - MonthStart(year, month) + 1]

Later(instant, seconds) ==
    [day |-> instant.day + (instant.sec + seconds) \div 86400,
     sec |-> (instant.sec + seconds) % 86400]

Precedes(a, b) == a.day < b.day \/ (a.day = b.day /\ a.sec <= b.sec)

\* Fields of a time that need not be normal: tm_hour may be over 23.
Instant(tm) ==
    Later([day |-> DayNumber(tm.year, tm.month, tm.mday), sec |-> 0],
          tm.hour * 3600 + tm.min * 60 + tm.sec)

\* A zone has an offset from UTC in seconds, another one in summer, and the
\* instants between which it is summer.
SummerTime(z, instant) ==
    \E p \in z.summers : Precedes(p[1], instant) /\ ~Precedes(p[2], instant)

Offset(z, instant) == IF SummerTime(z, instant) THEN z.summer ELSE z.standard

Localtime(z, instant) ==
    LET local == Later(instant, Offset(z, instant))
        date == Calendar(local.day)
    IN  [year |-> date.year, month |-> date.month, mday |-> date.mday,
         hour |-> local.sec \div 3600, min |-> (local.sec % 3600) \div 60,
         sec |-> local.sec % 60,
         isdst |-> SummerTime(z, instant), gmtoff |-> Offset(z, instant)]

\* mktime takes the fields for summer time when tm_isdst says so, and for
\* standard time when it does not.
Mktime(z, tm) == Later(Instant(tm), -(IF tm.isdst THEN z.summer ELSE z.standard))
-----------------------------------------------------------------------------
Nothing == [day |-> 0, sec |-> 0]

StampInit ==
    /\ phase = "start"
    /\ zone \in Zones
    /\ clock = [day |-> 0, sec |-> 0, ms |-> 0]
    /\ now = Nothing
    /\ created = [day |-> 0, sec |-> 0, ms |-> 0]
    /\ entry = [date |-> 0, time |-> 0, msecs |-> 0]
    /\ timeinfo = Localtime(zone, Nothing)
    /\ answer = [day |-> 0, sec |-> 0, cs |-> 0]

\* time_usec asks for the time twice: the microseconds are those of gettimeofday,
\* the seconds those of time, which is called later.  Both are taken to read one clock
\* that does not go back (a kernel that answers time from its last tick may be some
\* milliseconds behind).
GetTimeOfDay ==
    /\ phase = "start"
    /\ phase' = "clock"
    /\ clock' \in Instants
    /\ UNCHANGED <<zone, now, created, entry, timeinfo, answer>>

SecondReading(delay) == Later(clock, (clock.ms + delay) \div 1000)

\* (Variant with a fault: time is called first.)
CombinedTimeFirst(delay) ==
    [day |-> clock.day, sec |-> clock.sec, ms |-> (clock.ms + delay) % 1000]

Combined(delay) ==
    [day |-> SecondReading(delay).day, sec |-> SecondReading(delay).sec, ms |-> clock.ms]

Time ==
    /\ phase = "clock"
    /\ phase' = "created"
    /\ \E delay \in Delays : now' = SecondReading(delay) /\ created' = Combined(delay)
    /\ UNCHANGED <<zone, clock, entry, timeinfo, answer>>

\* lf12_generate_entry_timestamp.
PackedYear(y) == (y - 1980) % 128

Packed(instant) ==
    LET date == Calendar(instant.day)
    IN  [date |-> date.mday + 32 * date.month + 512 * PackedYear(date.year),
         time |-> (instant.sec % 60) \div 2 + 32 * ((instant.sec % 3600) \div 60)
                    + 2048 * (instant.sec \div 3600),
         msecs |-> (instant.ms + 1000 * (instant.sec % 2)) \div 10]

Generate ==
    /\ phase = "created"
    /\ phase' = "packed"
    /\ entry' = Packed(created)
    /\ UNCHANGED <<zone, clock, now, created, timeinfo, answer>>

\* lf12_read_entry_timestamp up to the first call of mktime, which replaces the
\* fields by the local time they stand for.
Unpacked(date, time) ==
    [year |-> date \div 512 + 1980, month |-> (date \div 32) % 16, mday |-> date % 32,
     hour |-> time \div 2048, min |-> (time \div 32) % 64, sec |-> 2 * (time % 32),
     isdst |-> FALSE, gmtoff |-> 0]

FirstMktime ==
    /\ phase = "packed"
    /\ phase' = "first"
    /\ LET fields == Unpacked(entry.date, entry.time)
       IN  timeinfo' = Localtime(zone, Mktime(zone, fields))
    /\ UNCHANGED <<zone, clock, now, created, entry, answer>>

\* The second call.  Hours, minutes and seconds are set again, moved by the
\* offset; the day stays as the first call has left it.  (Variant with a fault:
\* they are set again as they were read.)
RestoredUnmoved(tm, date, time) ==
    LET fields == Unpacked(date, time)
    IN  [tm EXCEPT !.hour = fields.hour, !.min = fields.min, !.sec = fields.sec]

Restored(tm, date, time) ==
    LET fields == Unpacked(date, time)
        sign == IF tm.gmtoff < 0 THEN -1 ELSE 1
        offset == sign * tm.gmtoff
    IN  [tm EXCEPT !.hour = fields.hour + sign * (offset \div 3600),
                   !.min = fields.min + sign * ((offset % 3600) \div 60),
                   !.sec = fields.sec + sign * (offset % 60)]

SecondMktime ==
    /\ phase = "first"
    /\ phase' = "read"
    /\ LET instant == Mktime(zone, Restored(timeinfo, entry.date, entry.time))
       IN  answer' = [day |-> instant.day, sec |-> instant.sec + entry.msecs \div 100,
                      cs |-> entry.msecs % 100]
    /\ UNCHANGED <<zone, clock, now, created, entry, timeinfo>>

StampNext == GetTimeOfDay \/ Time \/ Generate \/ FirstMktime \/ SecondMktime

StampSpec == StampInit /\ [][StampNext]_stampVars
-----------------------------------------------------------------------------
CONSTANT Landmarks  \* instants whose stamps others are compared with

\* The moments a stamp can hold: those of the years 1980 to 2107.
Representable(i) == YearStart(1980) <= i.day /\ i.day < YearStart(2108)

ASSUME InstantsAssumption ==
    /\ Instants \union Landmarks \subseteq [day : Nat, sec : Nat, ms : Nat]
    /\ \A i \in Instants \union Landmarks : i.sec < 86400 /\ i.ms < 1000
    /\ Delays \subseteq Nat
    /\ \A i \in Landmarks : Representable(i)
    /\ \A i \in Instants, delay \in Delays :
        Representable(i) /\ Representable(Later(i, (i.ms + delay) \div 1000))

\* Offsets are less than a day and, like the instants at which they change, whole
\* minutes, as those of all zones are since 1980.
ASSUME ZonesAssumption ==
    \A z \in Zones :
        /\ \A offset \in {z.standard, z.summer} :
            offset \in Int /\ -86400 < offset /\ offset < 86400 /\ offset % 60 = 0
        /\ \A p \in z.summers : \A i \in {p[1], p[2]} :
            i.day \in Int /\ i.sec \in Nat /\ i.sec % 60 = 0

\* The stamp of a new file is not older than the command's first look at the
\* clock, and less than a second ahead of its second one: when a second begins
\* between the two, the old microseconds are added to the new second.
StampNearMoment ==
    phase = "created" =>
        LET passed == [day |-> now.day, sec |-> now.sec + 1]
        IN  /\ Precedes(clock, created)
            /\ created.day = clock.day /\ created.sec = clock.sec => created.ms >= clock.ms
            /\ ~Precedes(passed, created)

\* The stamp an entry can hold of the moment of its creation.
Exact == [day |-> created.day, sec |-> created.sec, cs |-> created.ms \div 10]

\* lf12_read_entry_timestamp gives the stamp back, in every zone and on the days
\* on which the offset changes, with one exception: where the stored time, read
\* as standard time, falls in summer and the change to summer time carries it
\* over midnight, the first mktime moves the day and the answer is a day late, or
\* a day early in a zone that sets its clocks back for its summer time.
ReadsBack ==
    phase = "read" =>
        LET standard == Later([day |-> created.day, sec |-> created.sec], -zone.standard)
            carried == IF SummerTime(zone, standard)
                       THEN (created.sec + (zone.summer - zone.standard)) \div 86400 ELSE 0
        IN  answer = [Exact EXCEPT !.day = @ + carried]

\* Moments and stamps are compared to the resolution of 10 ms; stamps word by word.
MomentBelow(i, j) ==
    \/ ~Precedes(j, i)
    \/ i.day = j.day /\ i.sec = j.sec /\ i.ms \div 10 < j.ms \div 10

StampBelow(s, t) ==
    \/ s.date < t.date
    \/ s.date = t.date /\ s.time < t.time
    \/ s.date = t.date /\ s.time = t.time /\ s.msecs < t.msecs

\* The stamp of a new file next to one of another moment.  It is not below that of
\* any moment up to the command's first look at the clock, and not above that of any
\* moment in a later second than its second look.  In between the order is that of
\* the moments if no second begins between the two looks.  Otherwise it need not be: a
\* file put at 9.999 and stamped 10.999 looks newer than one that is put at 10.5.
StampsKeepOrder ==
    phase = "packed" =>
        \A other \in Landmarks :
            LET stamp == Packed(other)
            IN  /\ ~MomentBelow(clock, other) => ~StampBelow(entry, stamp)
                /\ ~Precedes(other, now) => ~StampBelow(stamp, entry)
                /\ now.day = clock.day /\ now.sec = clock.sec =>
                    (StampBelow(stamp, entry) <=> MomentBelow(other, clock))

\* lf12_read_entry_timestamp: "This function should return a timestamp with the
\* exact time stored in the entry".
ReturnsExactTime == phase = "read" => answer = Exact
===============================================================================
