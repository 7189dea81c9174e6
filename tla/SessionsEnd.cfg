SPECIFICATION MailSpec
CONSTANTS
    ann = ann
    root = root
    casual = casual
    annual = annual
    s1 = s1
    w1 = w1
    w2 = w2
    none = none
    Routed = TRUE
    Worker = {w1, w2}
    Employee = {ann, root}
    Role <- MCRole
    LeaveType = {casual, annual}
    Annual = annual
    SubmissionId = {s1}
    Day = {1}
    YearOf <- MCYearOf
    LeaveTypeRow <- Deducting
    Workbook = {}
    NoOne = none

PROPERTIES
    EveryHandlerEnds

INVARIANTS
    NobodyUninformed
    LogTellsTrail
    AnnouncedWillCommit
