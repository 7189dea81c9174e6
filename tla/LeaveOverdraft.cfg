SPECIFICATION Spec
CONSTANTS
    ann = ann
    bob = bob
    root = root
    casual = casual
    annual = annual
    s1 = s1
    s2 = s2
    s3 = s3
    none = none
    Employee = {root}
    Role <- MCRole
    LeaveType = {casual, annual}
    Annual = annual
    SubmissionId = {s1, s2}
    Day = {3, 4}
    YearOf <- MCYearOf
    LeaveTypeRow <- TwoDays
    Workbook = {}
    NoOne = none
SYMMETRY Symmetry
INVARIANTS
    NoOverdraft
