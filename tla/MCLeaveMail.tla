----------------------------- MODULE MCLeaveMail -----------------------------
(***************************************************************************)
(* A small instance of LeaveMail for TLC.                                  *)
(***************************************************************************)
EXTENDS LeaveMail, TLC

CONSTANTS root, casual, annual, s1, w1, w2, none, ann

\* ann is a teaching assistant and must name a substitute, root the administrator.
MCRole == [e \in Employee |-> IF e = root THEN "Admin" ELSE "TeachingAssistant"]
MCYearOf == [d \in Day |-> 1]
Deducting == {[annual_cap |-> 1, max_consecutive_days |-> 1,
               deducts_from_annual |-> TRUE, is_active |-> TRUE]}
=============================================================================
