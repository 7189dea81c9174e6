--------------------------- MODULE MCLeaveSessions ---------------------------
(***************************************************************************)
(* Small instances of LeaveSessions for TLC.                               *)
(***************************************************************************)
EXTENDS LeaveSessions, TLC

CONSTANTS ann, root, casual, annual, s1, s2, s3, w1, w2, none

\* ann is on the staff, root the administrator.
MCRole == [e \in Employee |-> IF e = root THEN "Admin" ELSE "Staff"]
MCYearOf == [d \in Day |-> 1]
BlankLine == {[employee |-> root, year |-> 1,
               balance |-> [entitled |-> 1, used |-> 0, pending |-> 0]]}

Settled == {[annual_cap |-> 2, max_consecutive_days |-> 1,
             deducts_from_annual |-> FALSE, is_active |-> TRUE]}
Deducting == {[annual_cap |-> 1, max_consecutive_days |-> 1,
               deducts_from_annual |-> TRUE, is_active |-> TRUE]}

MayDeduct == Deducting \cup {[annual_cap |-> 1, max_consecutive_days |-> 1,
                             deducts_from_annual |-> FALSE, is_active |-> TRUE]}

\* s1 charges a type that may start and stop deducting from the annual leave, s2
\* the annual leave; they start a day apart and may overlap.  s1 is decided through
\* either step and cancelled, s2 approved.
Focus ==
    /\ leave_types[annual].deducts_from_annual
    /\ \A w \in Worker : session[w] # Idle =>
            /\ session[w].submission = s1 <=> session[w].row.leave_type = casual
            /\ session[w].submission = s1 <=> session[w].row.start_date = 1
            /\ session[w].submission = s2 =>
                    session[w].step = 1 /\ session[w].verdict \in {"Submitted", "Approved"}
Workers == Permutations(Worker)

Symmetry == Permutations(SubmissionId) \cup Permutations(Worker)
=============================================================================
