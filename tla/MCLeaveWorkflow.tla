--------------------------- MODULE MCLeaveWorkflow ---------------------------
(***************************************************************************)
(* Small instances of LeaveWorkflow for TLC.                               *)
(***************************************************************************)
EXTENDS LeaveRefinement, TLC

CONSTANTS ann, bob, root, casual, annual, s1, s2, s3, none

\* ann is a teaching assistant, bob on the staff, root the administrator.
MCRole == [e \in Employee |-> CASE e = ann -> "TeachingAssistant"
                                [] e = root -> "Admin"
                                [] OTHER -> "Staff"]

\* Days 1 and 2 end one year, day 3 begins the next.
MCYearOf == [d \in Day |-> IF d <= 2 THEN 1 ELSE 2]
OneYear == [d \in Day |-> 1]

\* One line of the workbook, with blank AnnualUsed and AnnualPending columns.
BlankLine == {[employee |-> root, year |-> 2,
               balance |-> [entitled |-> 1, used |-> 0, pending |-> 0]]}

Rows(caps, length, flags, activity) ==
    [annual_cap : caps, max_consecutive_days : {length},
     deducts_from_annual : flags, is_active : activity]

\* A cap may be edited to nothing, or below two days, while requests rely on more.
OneDay == Rows({1}, 1, BOOLEAN, {TRUE}) \cup Rows({0}, 1, {FALSE}, {TRUE})
            \cup Rows({1}, 1, {FALSE}, {FALSE})
TwoDays == Rows({1, 2}, 2, BOOLEAN, {TRUE})

\* The annual leave need not deduct from itself: either way it is charged once.
Plain == ~leave_types[annual].deducts_from_annual

Symmetry == Permutations(SubmissionId)
=============================================================================
