----------------------------- MODULE MCRegisters -----------------------------
(***************************************************************************)
(* A small instance of Registers for TLC: four instants, midnight after    *)
(* the second, and two sessions.                                           *)
(***************************************************************************)
EXTENDS Registers, TLC

CONSTANTS hod, dean, w1, w2, reason, doubt, none

MCLocalDate == [i \in Instant |-> IF i <= 1 THEN 1 ELSE 2]

\* Handlers of the two registers, those of two people's attendance and the
\* decisions on two duties share no row, key or audited entity, and duties do
\* not look at the clock.  A behaviour exercises the attendance of one person,
\* or duties at instant 0 of which one is decided.
InPhase(phase) == {w \in Worker : session[w].phase = phase}
Present ==
    {k[1] : k \in DOMAIN attendance}
    \cup {session[w].key[1] : w \in UNION {InPhase(p) : p \in {"Dated", "Stamped", "Found"}}}
Judged ==
    {i \in DOMAIN official_duties : official_duties[i].status # "Pending"}
    \cup {session[w].duty : w \in InPhase("Deciding")}
OnDuty == official_duties # <<>> \/ InPhase("Numbered") # {}
Focus ==
    /\ Cardinality(Present) <= 1
    /\ Cardinality(Judged) <= 1
    /\ OnDuty => Present = {} /\ now = 0

Symmetry == Permutations(Worker) \cup Permutations(Employee) \cup Permutations(Note)
=============================================================================
