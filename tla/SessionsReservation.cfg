SPECIFICATION SessionSpec
CONSTANTS
    ann = ann
    root = root
    casual = casual
    annual = annual
    s1 = s1
    s2 = s2
    s3 = s3
    w1 = w1
    w2 = w2
    none = none
    Worker = {w1, w2}
    Employee = {root}
    Role <- MCRole
    LeaveType = {casual}
    Annual = annual
    SubmissionId = {s1, s2, s3}
    Day = {1, 2}
    YearOf <- MCYearOf
    LeaveTypeRow <- Settled
    Workbook = {}
    NoOne = none
SYMMETRY Symmetry
INVARIANTS
    ReservationsHeld
