SPECIFICATION Spec
CONSTANTS
    hod = hod
    dean = dean
    w1 = w1
    w2 = w2
    reason = reason
    doubt = doubt
    none = none
    Employee = {hod, dean}
    Approver = {hod, dean}
    Worker = {w1, w2}
    LastInstant = 3
    LocalDate <- MCLocalDate
    DutyYear = {1, 2}
    MaxDuties = 3
    Note = {reason, doubt}
    None = none
CONSTRAINT Focus
SYMMETRY Symmetry
INVARIANTS
    RegisterTypeOK
    HoursAgree
    AttendanceAudited
    DutyKeysDense
    DutyVerdictStands
    DecidedByRivals
PROPERTIES
    FirstCheckInStands
    ImplementsBook
