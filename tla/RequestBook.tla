------------------------------ MODULE RequestBook ------------------------------
(***************************************************************************)
(* What leave requests and official duties promise alike, however many     *)
(* handlers race: a book in which a request is entered once, under the     *)
(* next number of its year, and in which nothing is ever struck out.  Each *)
(* verdict is added below the earlier ones, and the request shows the one  *)
(* added last.  There are no sessions, reads or unique keys here: filing a *)
(* request and giving a verdict are single steps.                          *)
(***************************************************************************)
EXTENDS Integers, Sequences, FiniteSets

CONSTANT Verdict  \* what may be decided about a request

VARIABLE book  \* id -> what was asked, when, its verdicts and the one it shows

Entered == DOMAIN book
OfYear(year) == {id \in Entered : book[id].year = year}

BookInit == book = <<>>

Enter(id, request, year) ==
    /\ id \notin Entered
    /\ book' = [i \in Entered \cup {id} |->
                    IF i = id
                    THEN [request |-> request, year |-> year,
                          number |-> Cardinality(OfYear(year)) + 1,
                          verdicts |-> <<>>, shows |-> <<>>]
                    ELSE book[i]]

Settle(id, ruling) ==
    /\ id \in Entered
    /\ ruling \in Verdict
    /\ book' = [book EXCEPT ![id].verdicts = Append(@, ruling), ![id].shows = <<ruling>>]

\* Which request it is, its content and the verdict are found in the state after
\* the step.
BookNext ==
    \E id \in Entered' :
        \/ Enter(id, book'[id].request, book'[id].year)
        \/ book'[id].shows # <<>> /\ Settle(id, book'[id].shows[1])

BookSpec == BookInit /\ [][BookNext]_book
=============================================================================
