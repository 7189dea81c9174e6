SPECIFICATION SessionSpec
CONSTANTS
    ann = ann
    root = root
    casual = casual
    annual = annual
    s1 = s1
    s2 = s2
    s3 = s3
    w1 = w1
    w2 = w2
    none = none
    Worker = {w1, w2}
    Employee = {root}
    Role <- MCRole
    LeaveType = {casual, annual}
    Annual = annual
    SubmissionId = {s1, s2}
    Day = {1, 2}
    YearOf <- MCYearOf
    LeaveTypeRow <- MayDeduct
    Workbook <- BlankLine
    NoOne = none
SYMMETRY Workers
CONSTRAINT Focus
INVARIANTS
    SessionTypeOK
    KeysDense
    LastVerdictStands
    SettledByRivals
PROPERTIES
    FirstSubmissionStands
    ImplementsBook
    CurrentIsAtomic
