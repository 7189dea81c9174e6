------------------------------ MODULE MCSlaSweep ------------------------------
(***************************************************************************)
(* Small instances of SlaSweep for TLC: the head of the department and an  *)
(* administrator, leave of one type on one day or two.                     *)
(***************************************************************************)
EXTENDS SlaSweep

CONSTANTS head, root, casual, s1, s2, p1, p2, none

MCRole == [e \in Employee |-> IF e = root THEN "Admin" ELSE "HeadOfDepartment"]
MCDepartment == [e \in Employee |-> "Civil"]
MCYearOf == [d \in Day |-> 1]
MCRow == {[annual_cap |-> 2, max_consecutive_days |-> 1,
           deducts_from_annual |-> FALSE, is_active |-> TRUE]}
=============================================================================
