SPECIFICATION FairSlaSpec
CONSTANTS
    head = head
    root = root
    casual = casual
    s1 = s1
    s2 = s2
    p1 = p1
    p2 = p2
    none = none
    Employee = {head, root}
    Role <- MCRole
    Department <- MCDepartment
    LeaveType = {casual}
    Annual = none
    SubmissionId = {s1}
    Day = {1}
    YearOf <- MCYearOf
    LeaveTypeRow <- MCRow
    Workbook = {}
    NoOne = none
    Process = {p1, p2}
    MaxAborts = 1
INVARIANTS
    SlaTypeOK
    RemindersBounded
PROPERTIES
    EveryOverdueStepReminded
