SPECIFICATION Spec
CONSTANTS
    Day = {0, 1, 2, 3, 4, 5, 6, 7, 8, 9}
    YearOf <- MCYearOf
    WeekendDays = {4, 5}
    HolidaySheet <- MCSheet
INVARIANTS
    LeaveDaysMatchRule
    SplitIsFair
    WorkingWithinLeave
