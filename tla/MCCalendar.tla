----------------------------- MODULE MCCalendar -----------------------------
(***************************************************************************)
(* Ten days over a new year for TLC, with the workbook's own weekend.      *)
(***************************************************************************)
EXTENDS Calendar

\* Days 0 to 4 end one year; day 4 is a Friday, day 5 a Saturday.
MCYearOf == [d \in Day |-> IF d <= 4 THEN 1 ELSE 2]
\* The lines of the shipped workbook carry the year of their date.
MCSheet == {[date |-> d, year |-> MCYearOf[d]] : d \in {3, 5, 6}}
=============================================================================
