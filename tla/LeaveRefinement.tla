---------------------------- MODULE LeaveRefinement ----------------------------
(***************************************************************************)
(* The leave engine with its counters implements LeaveAccounts: a request  *)
(* is a claim, pending_days and used_days are hidden.                      *)
(***************************************************************************)
EXTENDS LeaveWorkflow

StateOf ==
    [Pending |-> "held", Approved |-> "used", Rejected |-> "returned", Cancelled |-> "returned"]

Entitlement == [a \in Account |-> BalanceOf(a).entitled]

Claims ==
    [s \in Submitted |->
        [accounts |-> Charged(leave_requests[s]),
         days |-> leave_requests[s].working_days,
         state |-> StateOf[leave_requests[s].status]]]

Accounts == INSTANCE LeaveAccounts WITH
    Claimant <- SubmissionId,
    entitlement <- Entitlement,
    claims <- Claims

\* However the engine counts, what it does is to grant claims: a request is
\* accepted only if every balance it draws on covers it beside all requests
\* accepted before, it is used or returned whole and once, on the accounts it was
\* granted on, and no entitlement moves under a request that relies on it.
ImplementsAccounts == Accounts!AccountsSpec
=============================================================================
