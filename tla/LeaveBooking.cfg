SPECIFICATION Spec
CONSTANTS
    ann = ann
    bob = bob
    root = root
    casual = casual
    annual = annual
    s1 = s1
    s2 = s2
    s3 = s3
    none = none
    Employee = {ann, root}
    Role <- MCRole
    LeaveType = {casual, annual}
    Annual = annual
    SubmissionId = {s1, s2}
    Day = {2, 3}
    YearOf <- MCYearOf
    LeaveTypeRow <- OneDay
    Workbook <- BlankLine
    NoOne = none
CONSTRAINT Plain
SYMMETRY Symmetry
INVARIANTS
    TypeOK
    OwnLedgerBalanced
    NoDoubleBooking
    NoCoverCycle
    KeysDense
    AuditTellsStatus
PROPERTIES
    DecisionIsFinal
