------------------------------- MODULE Calendar -------------------------------
(***************************************************************************)
(* The holiday table and the two day counts made from it                   *)
(* (app/services/calendar_engine.py, with the routes that edit holidays    *)
(* and the import of EFDP-Holidays.xlsx).  Leave is charged by             *)
(* count_leave_days, official duty by count_working_days.                  *)
(***************************************************************************)
EXTENDS Integers, FiniteSets, FiniteSetsExt

CONSTANTS
    Day,          \* calendar days, numbered so that Monday is 0 modulo 7
    YearOf,       \* the year each day belongs to
    WeekendDays,  \* WEEKEND_DAYS, as date.weekday() numbers
    HolidaySheet  \* lines of the workbook: [date, year]

ASSUME CalendarAssumption ==
    /\ Day \subseteq Int
    /\ \A d1, d2 \in Day : d1..d2 \subseteq Day
    /\ YearOf \in [Day -> Int]
    /\ \A d1, d2 \in Day : d1 <= d2 => YearOf[d1] <= YearOf[d2]
    /\ WeekendDays \subseteq 0..6
    /\ HolidaySheet \subseteq [date : Day, year : Int]

VARIABLE holidays  \* holiday_date -> the year column of its row

Year == {YearOf[d] : d \in Day}
DateRange == {r \in Day \X Day : r[1] <= r[2]}

-----------------------------------------------------------------------------

MutantYears(start, end) == {YearOf[start]}
\* The years whose holidays a count looks up.
Years(start, end) == YearOf[start]..YearOf[end]

HolidaySet(years) == {d \in DOMAIN holidays : holidays[d] \in years}

IsWeekend(d) == d % 7 \in WeekendDays

WorkingDates(start, end) ==
    {d \in start..end : ~IsWeekend(d) /\ d \notin HolidaySet(Years(start, end))}

CountWorkingDays(start, end) == Cardinality(WorkingDates(start, end))

MutantLeaveDatesOuter(start, end) ==
    {d \in start..end :
        /\ d \notin HolidaySet(Years(start, end))
        /\ IsWeekend(d) => d < Max(WorkingDates(start, end))}
MutantLeaveDatesInside(start, end) ==
    {d \in start..end :
        /\ d \notin HolidaySet(Years(start, end))
        /\ Min(WorkingDates(start, end)) < d /\ d < Max(WorkingDates(start, end))}
\* A weekend day counts when it lies between the first and the last working day
\* of the range, a holiday never.
LeaveDates(start, end) ==
    {d \in start..end :
        /\ d \notin HolidaySet(Years(start, end))
        /\ IsWeekend(d) => Min(WorkingDates(start, end)) < d /\ d < Max(WorkingDates(start, end))}

CountLeaveDays(start, end) ==
    IF WorkingDates(start, end) = {} THEN 0 ELSE Cardinality(LeaveDates(start, end))

-----------------------------------------------------------------------------

WriteHoliday(date, year) ==
    holidays' = [d \in DOMAIN holidays \cup {date} |->
                    IF d = date THEN year ELSE holidays[d]]

\* POST /holidays and the admin page: one row for a date.
CreateHoliday(date) ==
    /\ date \notin DOMAIN holidays
    /\ WriteHoliday(date, YearOf[date])

DeleteHoliday(date) ==
    holidays' = [d \in DOMAIN holidays \ {date} |-> holidays[d]]

\* seed_holidays takes the year from the sheet.
SeedHoliday(line) == WriteHoliday(line.date, line.year)

Init == holidays = <<>>

Next ==
    \/ \E date \in Day : CreateHoliday(date)
    \/ \E date \in DOMAIN holidays : DeleteHoliday(date)
    \/ \E line \in HolidaySheet : SeedHoliday(line)

Spec == Init /\ [][Next]_holidays

-----------------------------------------------------------------------------
(***************************************************************************)
(* Properties                                                              *)
(***************************************************************************)

\* Each line of the sheet carries the year of its date, as the shipped one does.
SheetAgrees == \A line \in HolidaySheet : line.year = YearOf[line.date]

\* Which days a leave should be charged for, day by day, over the whole holiday
\* table: working days, and weekend days with a working day of the leave on
\* either side.
ShouldCount(d, start, end) ==
    LET working(x) == ~IsWeekend(x) /\ x \notin DOMAIN holidays IN
    \/ working(d)
    \/ /\ IsWeekend(d) /\ d \notin DOMAIN holidays
       /\ \E before \in start..(d - 1) : working(before)
       /\ \E after \in (d + 1)..end : working(after)

\* count_leave_days follows that rule; in particular no recorded holiday is
\* missed for being in another year than the start of the leave (OD-04), as
\* long as the sheet gives each date its own year (SheetAgrees).
LeaveDaysMatchRule ==
    \A r \in DateRange :
        CountLeaveDays(r[1], r[2]) = Cardinality({d \in r[1]..r[2] : ShouldCount(d, r[1], r[2])})

\* Splitting a leave in two never makes it longer, and costs the same when it is
\* cut between two working days, across the end of a year too.
SplitIsFair ==
    \A r \in DateRange : \A cut \in r[1]..(r[2] - 1) :
        LET parts == CountLeaveDays(r[1], cut) + CountLeaveDays(cut + 1, r[2])
            whole == CountLeaveDays(r[1], r[2])
        IN  /\ parts <= whole
            /\ {cut, cut + 1} \subseteq WorkingDates(cut, cut + 1) => parts = whole

\* A leave is charged at least its working days and at most its length, and
\* nothing exactly when it has no working day (the case submit refuses).
WorkingWithinLeave ==
    \A r \in DateRange :
        /\ CountWorkingDays(r[1], r[2]) <= CountLeaveDays(r[1], r[2])
        /\ CountLeaveDays(r[1], r[2]) <= r[2] - r[1] + 1
        /\ CountWorkingDays(r[1], r[2]) = 0 <=> CountLeaveDays(r[1], r[2]) = 0
=============================================================================
