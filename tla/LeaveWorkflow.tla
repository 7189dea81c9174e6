---------------------------- MODULE LeaveWorkflow ----------------------------
(***************************************************************************)
(* The leave engine (app/services/leave_engine.py with balance_engine.py,  *)
(* keys.py and audit.py, behind the routers leave_requests.py and web.py)  *)
(* when requests to the server follow one another: a handler is one        *)
(* action, and a handler that raises rolls its transaction back, so it is  *)
(* no step at all.  Overlapping transactions are LeaveSessions' subject.   *)
(*                                                                         *)
(* A table is a function from the keys of its rows to the rows.  The       *)
(* application never deletes from these tables.                            *)
(*                                                                         *)
(* An operator named Mutant... is the definition after it with a plausible *)
(* bug; PROJECT.json says which property notices.  No action uses one.     *)
(***************************************************************************)
EXTENDS Integers, Sequences, FiniteSets

CONSTANTS
    Employee,      \* accounts allowed to log in
    Role,          \* the role of each employee
    LeaveType,     \* rows of leave_types
    Annual,        \* the type whose code is the annual one; need not exist
    SubmissionId,  \* idempotency keys clients may send
    Day,           \* calendar days, consecutive integers
    YearOf,        \* the year each day belongs to
    LeaveTypeRow,  \* rows an administrator may give a leave type
    Workbook,      \* lines of EFDP-Employees.xlsx that carry an entitlement
    NoOne          \* a substitute_id that is absent

Year == {YearOf[d] : d \in Day}
Account == Employee \X LeaveType \X Year
BalanceRow == [entitled : Nat, used : Nat, pending : Nat]
WorkbookLine == [employee : Employee, year : Year, balance : BalanceRow]
Status == {"Pending", "Approved", "Rejected", "Cancelled"}
Decision == {"Approved", "Rejected"}
StepStatus == {"Pending"} \cup Decision
Stage == {1, 2}
AuditAction == {"Submitted", "Stage1Approved", "Stage1Rejected", "Cancelled"}

LeaveRequestRow ==
    [applicant : Employee, leave_type : LeaveType, start_date : Day,
     end_date : Day, request_year : Year, working_days : Nat \ {0},
     substitute : Employee \cup {NoOne}, number : Nat, status : Status]

ASSUME DomainAssumption ==
    /\ Day \subseteq Int
    /\ LeaveTypeRow \subseteq [annual_cap : Nat, max_consecutive_days : Nat,
                                deducts_from_annual : BOOLEAN, is_active : BOOLEAN]
    /\ Workbook \subseteq WorkbookLine
    /\ NoOne \notin Employee
    /\ Employee # {} /\ Day # {} 
    /\ YearOf \in [Day -> Int]
    /\ Role \in [Employee -> STRING]

VARIABLES
    leave_types,     \* LeaveType -> row; only administrators change it
    leave_requests,  \* submission id -> row
    approval_steps,  \* submission id -> stage -> status of that step
    leave_balances,  \* account -> row, opened on first use
    audit_log        \* submission id -> actions audited for the request

vars == <<leave_types, leave_requests, approval_steps, leave_balances, audit_log>>

Submitted == DOMAIN leave_requests

\* The table after a transaction inserted or updated these rows of it.
Write(table, rows) ==
    [k \in DOMAIN table \cup DOMAIN rows |->
        IF k \in DOMAIN rows THEN rows[k] ELSE table[k]]
Insert(table, key, row) == Write(table, [k \in {key} |-> row])

(***************************************************************************)
(* Balances                                                                *)
(***************************************************************************)

MutantFollowsCap(a) ==
    [entitled |-> leave_types[a[2]].annual_cap,
     used |-> IF a \in DOMAIN leave_balances THEN leave_balances[a].used ELSE 0,
     pending |-> IF a \in DOMAIN leave_balances THEN leave_balances[a].pending ELSE 0]
\* get_or_create_balance: an account without a row opens with the cap the
\* leave type has at that moment.
BalanceOf(a) ==
    IF a \in DOMAIN leave_balances
    THEN leave_balances[a]
    ELSE [entitled |-> leave_types[a[2]].annual_cap, used |-> 0, pending |-> 0]

MutantReserveIgnoresPending(b, n) == b.used + n <= b.entitled
CanReserve(b, n) == b.used + b.pending + n <= b.entitled
Reserve(b, n) == [b EXCEPT !.pending = @ + n]
MutantReleaseUnclamped(b, n) == [b EXCEPT !.pending = @ - n]
ReleasePending(b, n) == [b EXCEPT !.pending = IF @ >= n THEN @ - n ELSE 0]
MutantCommitKeepsPending(b, n) == [b EXCEPT !.used = @ + n]
CommitPendingToUsed(b, n) == [ReleasePending(b, n) EXCEPT !.used = @ + n]

Primary(r) == <<r.applicant, r.leave_type, r.request_year>>
Secondary(r) == <<r.applicant, Annual, r.request_year>>

\* The accounts a handler moves for a request.  Submission, decision and
\* cancellation each evaluate the deducts_from_annual flag the type has then.
Charged(r) ==
    {Primary(r)} \cup
    (IF leave_types[r.leave_type].deducts_from_annual /\ Annual \in LeaveType
     THEN {Secondary(r)} ELSE {})

\* get_or_create_balance for each account of r, then the balance operation.
Reserved(r) == [a \in Charged(r) |-> Reserve(BalanceOf(a), r.working_days)]
Released(r) == [a \in Charged(r) |-> ReleasePending(BalanceOf(a), r.working_days)]
Committed(r) == [a \in Charged(r) |-> CommitPendingToUsed(BalanceOf(a), r.working_days)]

(***************************************************************************)
(* Requests                                                                *)
(***************************************************************************)

Active == {"Pending", "Approved"}
MutantOverlapStrict(f1, u1, f2, u2) == f1 < u2 /\ f2 < u1
Overlap(f1, u1, f2, u2) == f1 <= u2 /\ f2 <= u1

\* The overlap query of submit_leave_request, run for the applicant and again
\* for the substitute.
IsAway(e, from, until) ==
    \E s \in Submitted :
        /\ leave_requests[s].applicant = e
        /\ leave_requests[s].status \in Active
        /\ Overlap(leave_requests[s].start_date, leave_requests[s].end_date, from, until)

OfYear(y) == {s \in Submitted : leave_requests[s].request_year = y}

\* next_request_key counts the keys already issued for the year.
MutantNumberAcrossYears(y) == Cardinality(Submitted) + 1
NextRequestNumber(y) == Cardinality(OfYear(y)) + 1

MutantCoverUnchecked(sub, e, from, until) ==
    /\ Role[e] = "TeachingAssistant" => sub # NoOne
    /\ sub # e

\* Which substitute the engine accepts for this applicant.
MayCover(sub, e, from, until) ==
    /\ Role[e] = "TeachingAssistant" => sub # NoOne
    /\ sub # e
    /\ sub # NoOne => ~IsAway(sub, from, until)

\* The audit action is Stage{current_stage}{decision}; current_stage stays 1.
DecisionAction(decision) ==
    IF decision = "Approved" THEN "Stage1Approved" ELSE "Stage1Rejected"

-----------------------------------------------------------------------------

\* The row of a submission.  n is what count_leave_days returns; the holiday
\* table is editable at any time, so any count up to the length of the range
\* can occur.
NewRequest(e, t, sub, from, until, n) ==
    [applicant |-> e, leave_type |-> t, start_date |-> from, end_date |-> until,
     request_year |-> YearOf[from], working_days |-> n, substitute |-> sub,
     number |-> NextRequestNumber(YearOf[from]), status |-> "Pending"]

\* The checks before the balances.  A known submission id returns the stored
\* request and changes nothing.
Validated(s, r) ==
    /\ s \notin Submitted
    /\ leave_types[r.leave_type].is_active
    /\ r.start_date <= r.end_date
    /\ r.working_days <= leave_types[r.leave_type].max_consecutive_days
    /\ ~IsAway(r.applicant, r.start_date, r.end_date)
    /\ MayCover(r.substitute, r.applicant, r.start_date, r.end_date)

\* submit_leave_request, behind POST /leave-requests and the web form.
Submit(s, r) ==
    /\ Validated(s, r)
    /\ \A a \in Charged(r) : CanReserve(BalanceOf(a), r.working_days)
    /\ leave_balances' = Write(leave_balances, Reserved(r))
    /\ leave_requests' = Insert(leave_requests, s, r)
    /\ approval_steps' = Insert(approval_steps, s, [k \in Stage |-> "Pending"])
    /\ audit_log' = Insert(audit_log, s, <<"Submitted">>)
    /\ UNCHANGED leave_types

MutantDecideAgain(r, actor) ==
    Role[actor] \in {"Admin", "ViceDean", "HeadOfDepartment"}
MayDecide(r, actor) ==
    /\ r.status = "Pending"
    /\ Role[actor] \in {"Admin", "ViceDean", "HeadOfDepartment"}

\* decide_step.  One decision settles the request whatever the stage; steps[0]
\* of an unordered query is written, so either step may receive the verdict.
Decide(s, actor, decision, k) ==
    LET r == leave_requests[s] IN
    /\ MayDecide(r, actor)
    /\ approval_steps' = [approval_steps EXCEPT ![s][k] = decision]
    /\ leave_requests' = [leave_requests EXCEPT ![s].status = decision]
    /\ leave_balances' = Write(leave_balances, IF decision = "Approved"
                                               THEN Committed(r) ELSE Released(r))
    /\ audit_log' = [audit_log EXCEPT ![s] = Append(@, DecisionAction(decision))]
    /\ UNCHANGED leave_types

MutantCancelApproved(r, actor) ==
    /\ actor = r.applicant \/ Role[actor] = "Admin"
    /\ r.status \in Active
MayCancel(r, actor) ==
    /\ actor = r.applicant \/ Role[actor] = "Admin"
    /\ r.status = "Pending"

\* cancel_request.  The approval steps stay as they are.
Cancel(s, actor) ==
    LET r == leave_requests[s] IN
    /\ MayCancel(r, actor)
    /\ leave_balances' = Write(leave_balances, Released(r))
    /\ leave_requests' = [leave_requests EXCEPT ![s].status = "Cancelled"]
    /\ audit_log' = [audit_log EXCEPT ![s] = Append(@, "Cancelled")]
    /\ UNCHANGED <<leave_types, approval_steps>>

\* PATCH /leave-types/{id} and the toggle of the admin page: any fields.
UpdateLeaveType(t, row) ==
    /\ leave_types' = [leave_types EXCEPT ![t] = row]
    /\ UNCHANGED <<leave_requests, approval_steps, leave_balances, audit_log>>

\* seed_employees writes the annual balance of a workbook line that has an
\* entitlement, whether or not the row exists.
SeededAccount(line) == <<line.employee, Annual, line.year>>
SeedBalance(line) ==
    /\ Annual \in LeaveType
    /\ leave_balances' = Insert(leave_balances, SeededAccount(line), line.balance)
    /\ UNCHANGED <<leave_types, leave_requests, approval_steps, audit_log>>

-----------------------------------------------------------------------------

Init ==
    /\ leave_types \in [LeaveType -> LeaveTypeRow]
    /\ leave_requests = <<>>
    /\ approval_steps = <<>>
    /\ leave_balances = <<>>
    /\ audit_log = <<>>

SubmitAny ==
    \E s \in SubmissionId, e \in Employee, t \in LeaveType,
       sub \in Employee \cup {NoOne}, from \in Day, until \in Day :
        \E n \in 1..(until - from + 1) : Submit(s, NewRequest(e, t, sub, from, until, n))

DecideAny ==
    \E s \in Submitted, actor \in Employee, decision \in Decision, k \in Stage :
        Decide(s, actor, decision, k)

CancelAny == \E s \in Submitted, actor \in Employee : Cancel(s, actor)

Next ==
    \/ SubmitAny
    \/ DecideAny
    \/ CancelAny
    \/ \E t \in LeaveType, row \in LeaveTypeRow : UpdateLeaveType(t, row)
    \/ \E line \in Workbook : SeedBalance(line)

Spec == Init /\ [][Next]_vars

\* A deployment in which nobody changes deducts_from_annual once the system is
\* in use, and the workbook only opens annual accounts that have no row yet.
StableNext ==
    \/ SubmitAny
    \/ DecideAny
    \/ CancelAny
    \/ \E t \in LeaveType, row \in LeaveTypeRow :
        /\ row.deducts_from_annual = leave_types[t].deducts_from_annual
        /\ UpdateLeaveType(t, row)
    \/ \E line \in Workbook :
        /\ SeededAccount(line) \notin DOMAIN leave_balances
        /\ line.balance.used = 0 /\ line.balance.pending = 0
        /\ SeedBalance(line)

StableSpec == Init /\ [][StableNext]_vars

-----------------------------------------------------------------------------
(***************************************************************************)
(* Properties                                                              *)
(***************************************************************************)

\* Rows have their column types; in particular no handler drives used_days or
\* pending_days below zero (balance_engine clamps a release at zero).
TypeOK ==
    /\ leave_types \in [LeaveType -> LeaveTypeRow]
    /\ Submitted \subseteq SubmissionId
    /\ leave_requests \in [Submitted -> LeaveRequestRow]
    /\ approval_steps \in [Submitted -> [Stage -> StepStatus]]
    /\ DOMAIN leave_balances \subseteq Account
    /\ leave_balances \in [DOMAIN leave_balances -> BalanceRow]
    /\ audit_log \in [Submitted -> Seq(AuditAction)]

\* One pair for each working day of each request of S, so that the sum of the
\* working days of S is a cardinality.
DayUnits(S) == UNION {{s} \X (1..leave_requests[s].working_days) : s \in S}
TotalDays(S) == Cardinality(DayUnits(S))

\* The requests in the given status that charge account a.
Charging(a, status) ==
    {s \in Submitted : a \in Charged(leave_requests[s]) /\ leave_requests[s].status = status}

AccountOK(a) ==
    LET b == BalanceOf(a) IN
    /\ b.pending = TotalDays(Charging(a, "Pending"))
    /\ b.used = TotalDays(Charging(a, "Approved"))
    /\ b.used + b.pending <= b.entitled

\* ADR-07 across the whole history: pending_days is what the pending requests
\* reserve, used_days what the approved ones took, nothing leaks or is released
\* twice over submissions, decisions and cancellations, and no account is
\* overdrawn.  It needs the deducts_from_annual flags to stay put (StableSpec).
LedgerBalanced == \A a \in Account : AccountOK(a)

\* Accounts of the other types keep their ledger whatever administrators edit
\* and however often the workbook is loaded (Spec).
OwnLedgerBalanced == \A a \in Account : a[2] # Annual => AccountOK(a)

\* entitled - used - pending >= 0, as ADR-07 and balance_engine.py promise it.
NoOverdraft ==
    \A a \in DOMAIN leave_balances :
        leave_balances[a].used + leave_balances[a].pending <= leave_balances[a].entitled

DaysOff(s) == leave_requests[s].start_date .. leave_requests[s].end_date

\* Nobody is booked twice for one day by requests that are pending or approved,
\* over any sequence of submissions, cancellations and rejections.
NoDoubleBooking ==
    \A s1, s2 \in Submitted :
        /\ s1 # s2
        /\ leave_requests[s1].applicant = leave_requests[s2].applicant
        /\ leave_requests[s1].status \in Active
        /\ leave_requests[s2].status \in Active
        => DaysOff(s1) \cap DaysOff(s2) = {}

Covers(s1, s2) ==
    /\ leave_requests[s1].substitute = leave_requests[s2].applicant
    /\ DaysOff(s1) \cap DaysOff(s2) # {}

\* The substitute rule (BR-03) never goes round in a circle: among the active
\* requests of any group, one has a substitute who is not away with the group.
NoCoverCycle ==
    \A S \in SUBSET {s \in Submitted : leave_requests[s].status \in Active} :
        S # {} => \E s1 \in S : \A s2 \in S : ~Covers(s1, s2)

\* The keys LR-<year>-<number> of a year are 1, 2, ... without a gap or a twin.
KeysDense ==
    \A y \in Year :
        {leave_requests[s].number : s \in OfYear(y)} = 1..Cardinality(OfYear(y))

\* The audit trail and the approval steps tell the same story as the status: a
\* decided request has one verdict in each, any other has none.
AuditTellsStatus ==
    \A s \in Submitted :
        LET status == leave_requests[s].status
            decided == {k \in Stage : approval_steps[s][k] # "Pending"}
        IN  /\ audit_log[s] =
                IF status = "Pending" THEN <<"Submitted">>
                ELSE <<"Submitted", IF status = "Cancelled" THEN status
                                    ELSE DecisionAction(status)>>
            /\ IF status \in Decision
               THEN \E k \in Stage : decided = {k} /\ approval_steps[s][k] = status
               ELSE decided = {}

\* A request that left Pending is never decided, cancelled or edited again, and
\* no row ever changes anything but its status.
DecisionIsFinal ==
    [][\A s \in Submitted :
        /\ s \in Submitted'
        /\ leave_requests'[s] = [leave_requests[s] EXCEPT !.status = leave_requests'[s].status]
        /\ leave_requests[s].status # "Pending" =>
              /\ leave_requests'[s] = leave_requests[s]
              /\ approval_steps'[s] = approval_steps[s]
              /\ audit_log'[s] = audit_log[s]]_vars
=============================================================================
