----------------------------- MODULE MCTimeStamps -----------------------------
(***************************************************************************)
(* Days on which the offset of a zone changes or is about to, a leap day,  *)
(* a day in each season and the ends of the years 1980 to 2107; all hours  *)
(* with their ends and middles; zones ahead of UTC and behind it, north    *)
(* and south of the equator, with offsets of half hours, with the summer   *)
(* time of the year 2020.                                                  *)
(***************************************************************************)
EXTENDS TimeStamps

Date(y, m, d) == DayNumber(y, m, d)
UtcTime(y, m, d, hour) == [day |-> Date(y, m, d), sec |-> hour * 3600]

Days == {Date(1980, 1, 1), Date(2020, 2, 29), Date(2020, 3, 8), Date(2020, 3, 28),
         Date(2020, 3, 29), Date(2020, 4, 4), Date(2020, 5, 20), Date(2020, 10, 3),
         Date(2020, 10, 24), Date(2020, 10, 25), Date(2020, 11, 1),
         Date(2020, 12, 31), Date(2021, 1, 1), Date(2050, 1, 1), Date(2107, 12, 30)}

Seconds == {hour * 3600 + second : hour \in 0 .. 23, second \in {0, 1799, 1800, 3599}}

AllInstants == [day : Days, sec : Seconds, ms : {0, 999}]

SomeInstants ==
    [day : Days, sec : {0, 43199, 43200, 86399}, ms : {0, 999}]

Zone(standard, summer, summers) ==
    [standard |-> standard * 60, summer |-> summer * 60, summers |-> summers]

\* UTC, Central Europe, New York, India, Newfoundland, Sydney, Lord Howe Island, and
\* Ireland, whose standard time is that of the summer.
AllZones ==
    {Zone(0, 0, {}),
     Zone(60, 120, {<<UtcTime(2020, 3, 29, 1), UtcTime(2020, 10, 25, 1)>>}),
     Zone(-300, -240, {<<UtcTime(2020, 3, 8, 7), UtcTime(2020, 11, 1, 6)>>}),
     Zone(330, 330, {}),
     Zone(-210, -150, {<<[day |-> Date(2020, 3, 8), sec |-> 19800],
                         [day |-> Date(2020, 11, 1), sec |-> 16200]>>}),
     Zone(600, 660, {<<UtcTime(2019, 10, 5, 16), UtcTime(2020, 4, 4, 16)>>,
                     <<UtcTime(2020, 10, 3, 16), UtcTime(2021, 4, 3, 16)>>}),
     Zone(630, 660, {<<[day |-> Date(2019, 10, 5), sec |-> 55800], UtcTime(2020, 4, 4, 15)>>,
                     <<[day |-> Date(2020, 10, 3), sec |-> 55800], UtcTime(2021, 4, 3, 15)>>}),
     Zone(60, 0, {<<UtcTime(2019, 10, 27, 1), UtcTime(2020, 3, 29, 1)>>,
                  <<UtcTime(2020, 10, 25, 1), UtcTime(2021, 3, 28, 1)>>})}
===============================================================================
