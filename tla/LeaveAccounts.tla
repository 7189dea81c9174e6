----------------------------- MODULE LeaveAccounts -----------------------------
(***************************************************************************)
(* What the balances promise (ADR-07), without balances: days are claimed  *)
(* from accounts, and a claim is granted only where the days that earlier  *)
(* claims left are enough.  There are no counters here; what an account    *)
(* has left follows from the claims themselves.                            *)
(***************************************************************************)
EXTENDS Integers, FiniteSets

CONSTANTS
    Account,  \* what days are claimed from
    Claimant  \* names of claims

VARIABLES
    entitlement, \* account -> days it is worth
    claims       \* name -> claim

accountVars == <<entitlement, claims>>

Made == DOMAIN claims
InForce == {c \in Made : claims[c].state # "returned"}
Against(a) == {c \in InForce : a \in claims[c].accounts}

\* Days claimed from an account, as the cardinality of a set of pairs.
Claimed(a) == Cardinality(UNION {{c} \X (1..claims[c].days) : c \in Against(a)})

Extended(c, claim) == [d \in Made \cup {c} |-> IF d = c THEN claim ELSE claims[d]]

-----------------------------------------------------------------------------

AccountsInit ==
    /\ entitlement \in [Account -> Nat]
    /\ claims = <<>>

\* A request of n days is granted a claim on all of the accounts, or on none.
Hold(c, accounts, n) ==
    /\ c \notin Made
    /\ \A a \in accounts : Claimed(a) + n <= entitlement[a]
    /\ claims' = Extended(c, [accounts |-> accounts, days |-> n, state |-> "held"])
    /\ UNCHANGED entitlement

\* A claim that is held is used up or returned, once, with all its days.
Settle(c, state) ==
    /\ claims[c].state = "held"
    /\ claims' = [claims EXCEPT ![c].state = state]
    /\ UNCHANGED entitlement

\* What an account is worth changes only while nobody has claimed from it.
Revalue ==
    /\ entitlement' \in [Account -> Nat]
    /\ \A a \in Account :
            entitlement'[a] # entitlement[a] => \A c \in Made : a \notin claims[c].accounts
    /\ UNCHANGED claims

\* The accounts and the days of a claim are found in the state after the step.
AccountsNext ==
    \/ \E c \in Claimant :
        \/ c \in Made' /\ Hold(c, claims'[c].accounts, claims'[c].days)
        \/ c \in Made /\ \E state \in {"used", "returned"} : Settle(c, state)
    \/ Revalue

AccountsSpec == AccountsInit /\ [][AccountsNext]_accountVars
=============================================================================
