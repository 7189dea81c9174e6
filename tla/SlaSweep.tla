------------------------------- MODULE SlaSweep -------------------------------
(***************************************************************************)
(* Who is asked to decide a leave request, and the hourly job that reminds *)
(* them: _resolve_assignee in leave_engine.py, sla_sweep in scheduler.py   *)
(* and the notification log, over the leave engine of LeaveWorkflow.       *)
(*                                                                         *)
(* Mail leaves at once; the watermark last_reminder_at and the log entry   *)
(* of a reminder are committed when the sweep has been through every step  *)
(* it found.  No code writes approval_delegations, so nobody is delegated. *)
(***************************************************************************)
EXTENDS LeaveWorkflow

CONSTANTS
    Department, \* the department of each employee
    Process,    \* server processes, each with a scheduler of its own
    MaxAborts   \* bound on the sweeps that end early

ASSUME SlaAssumption == IsFiniteSet(Process)

VARIABLES
    active,           \* employees whose employment_status is Active
    assigned,         \* submission id -> stage -> assigned_to
    overdue,          \* steps whose sla_due_at has passed
    reminded,         \* steps with last_reminder_at
    dispatched,       \* step -> reminders that have left
    notification_log, \* step -> those of them with a committed row in NotificationLog
    sweep,            \* process -> its run of sla_sweep
    aborts            \* sweeps that ended early

sweepVars ==
    <<active, assigned, overdue, reminded, dispatched, notification_log, sweep, aborts>>
slaVars == <<vars, sweepVars>>

Step == Submitted \X Stage
Asleep == [running |-> FALSE, todo |-> {}, sent |-> {}]

Assignee(step) == assigned[step[1]][step[2]]
StatusOf(step) == approval_steps[step[1]][step[2]]

-----------------------------------------------------------------------------
(***************************************************************************)
(* Routing                                                                 *)
(***************************************************************************)

Faculty == {a \in active : Role[a] \in {"ViceDean", "Admin"}}
Heads(e) == {a \in active : Role[a] = "HeadOfDepartment" /\ Department[a] = Department[e]}

\* _resolve_assignee takes the first row of a query without an order.
Assignees(e, k) ==
    LET found == IF k = 1 /\ Heads(e) # {} THEN Heads(e) ELSE Faculty
    IN  IF found = {} THEN {NoOne} ELSE found

SubmitRouted ==
    \E s \in SubmissionId, e \in active, t \in LeaveType,
       sub \in Employee \cup {NoOne}, from \in Day, until \in Day :
        /\ \E n \in 1..(until - from + 1) : Submit(s, NewRequest(e, t, sub, from, until, n))
        /\ \E head \in Assignees(e, 1), dean \in Assignees(e, 2) :
            assigned' = Insert(assigned, s, [k \in Stage |-> IF k = 1 THEN head ELSE dean])
        /\ UNCHANGED <<active, overdue, reminded, dispatched, notification_log, sweep, aborts>>

Settle ==
    /\ \E s \in Submitted, actor \in active :
        \/ \E decision \in Decision, k \in Stage : Decide(s, actor, decision, k)
        \/ Cancel(s, actor)
    /\ UNCHANGED sweepVars

\* An administrator deactivates an employee or takes the employee back.  The
\* steps assigned to the employee stay as they are.
ChangeStatus(admin, e) ==
    /\ admin \in active /\ Role[admin] = "Admin"
    /\ active' = IF e \in active THEN active \ {e} ELSE active \cup {e}
    /\ UNCHANGED <<vars, assigned, overdue, reminded, dispatched, notification_log, sweep, aborts>>

-----------------------------------------------------------------------------
(***************************************************************************)
(* The sweep                                                               *)
(***************************************************************************)

\* sla_due_at passes.  The two stages have service levels of their own.
BecomeOverdue(step) ==
    /\ step \notin overdue
    /\ overdue' = overdue \cup {step}
    /\ UNCHANGED <<vars, active, assigned, reminded, dispatched, notification_log, sweep, aborts>>

MutantFound == {step \in overdue : StatusOf(step) = "Pending"}
\* The query of sla_sweep.  It looks at the step, not at its request.
Found == {step \in overdue : StatusOf(step) = "Pending" /\ step \notin reminded}

\* Every hour, and when the process starts.  One run at a time in a process.
StartSweep(p) ==
    /\ ~sweep[p].running
    /\ sweep' = [sweep EXCEPT ![p] = [running |-> TRUE, todo |-> Found, sent |-> {}]]
    /\ UNCHANGED <<vars, active, assigned, overdue, reminded, dispatched, notification_log, aborts>>

MutantRemaining(x, step) == IF Assignee(step) = NoOne THEN {} ELSE x.todo \ {step}
\* A step nobody is assigned to is passed over.
Remaining(x, step) == x.todo \ {step}

MutantMailed(x, step) == x.sent \cup {step}
Mailed(x, step) == IF Assignee(step) = NoOne THEN x.sent ELSE x.sent \cup {step}

\* One more of each of these steps.
Count(table, step) == IF step \in DOMAIN table THEN table[step] ELSE 0
Counted(table, steps) ==
    [step \in DOMAIN table \cup steps |->
        Count(table, step) + (IF step \in steps THEN 1 ELSE 0)]

\* One step of the loop: notifications.send, whatever becomes of the mail; its
\* row and the watermark stay in the session.
Remind(p, step) ==
    LET x == sweep[p] IN
    /\ step \in x.todo
    /\ sweep' = [sweep EXCEPT ![p] = [running |-> TRUE, todo |-> Remaining(x, step),
                                      sent |-> Mailed(x, step)]]
    /\ dispatched' = Counted(dispatched, Mailed(x, step) \ x.sent)
    /\ UNCHANGED <<vars, active, assigned, overdue, reminded, notification_log, aborts>>

\* The commit after the loop.
FinishSweep(p) ==
    LET x == sweep[p] IN
    /\ x.running
    /\ x.todo = {}
    /\ reminded' = reminded \cup x.sent
    /\ notification_log' = Counted(notification_log, x.sent)
    /\ sweep' = [sweep EXCEPT ![p] = Asleep]
    /\ UNCHANGED <<vars, active, assigned, overdue, dispatched, aborts>>

\* The process ends or the database fails in the middle of a sweep: watermarks
\* and log entries are gone, mail that has left is not.
AbortSweep(p) ==
    /\ sweep[p].running
    /\ aborts < MaxAborts
    /\ aborts' = aborts + 1
    /\ sweep' = [sweep EXCEPT ![p] = Asleep]
    /\ UNCHANGED <<vars, active, assigned, overdue, reminded, dispatched, notification_log>>

-----------------------------------------------------------------------------

SlaInit ==
    /\ Init
    /\ active = Employee
    /\ assigned = <<>>
    /\ overdue = {}
    /\ reminded = {}
    /\ dispatched = <<>>
    /\ notification_log = <<>>
    /\ sweep = [p \in Process |-> Asleep]
    /\ aborts = 0

Proceed(p) ==
    \/ StartSweep(p)
    \/ \E step \in sweep[p].todo : Remind(p, step)
    \/ FinishSweep(p)

SlaNext ==
    \/ SubmitRouted
    \/ Settle
    \/ \E admin, e \in Employee : ChangeStatus(admin, e)
    \/ \E step \in Step : BecomeOverdue(step)
    \/ \E p \in Process : Proceed(p) \/ AbortSweep(p)

SlaSpec == SlaInit /\ [][SlaNext]_slaVars

\* APScheduler runs the job every hour, and the loop of a run ends.
SlaFairness == \A p \in Process : WF_slaVars(Proceed(p))

FairSlaSpec == SlaSpec /\ SlaFairness

-----------------------------------------------------------------------------
(***************************************************************************)
(* Properties                                                              *)
(***************************************************************************)

\* The added columns keep their types; whoever is mailed is an employee.
SlaTypeOK ==
    /\ active \subseteq Employee
    /\ assigned \in [Submitted -> [Stage -> Employee \cup {NoOne}]]
    /\ overdue \subseteq Step
    /\ \A p \in Process : sweep[p].todo \subseteq Step /\ sweep[p].sent \subseteq Step
    /\ \A step \in reminded \cup UNION {sweep[p].sent : p \in Process} :
            Assignee(step) \in Employee

\* The processes whose sweep has mailed this step and is not over.
Sending(step) == {p \in Process : step \in sweep[p].sent}
OnRecord(step) == Count(notification_log, step) + Cardinality(Sending(step))

\* How far the watermark stops reminder spam (US-12): a step has its watermark
\* exactly when the log has a reminder of it; the reminders on record, those a
\* running sweep is about to commit among them, are one a process at most; and
\* only sweeps that were cut short have sent any beside these, one each.
RemindersBounded ==
    /\ DOMAIN notification_log = reminded
    /\ \A step \in Step :
        /\ OnRecord(step) <= Cardinality(Process)
        /\ Count(dispatched, step) \in OnRecord(step)..(OnRecord(step) + aborts)

\* "Sends exactly one reminder to an approver whose step has passed its SLA"
\* (scheduler.py) and "Every dispatch attempt is written to NotificationLog
\* regardless of outcome" (notifications.py): by the first nobody is reminded of
\* a step twice, by the second the log has, or is about to have, both reminders.
\* This says no more than that one of the two holds.
RepeatsOnRecord ==
    \A step \in Step : Count(dispatched, step) > 1 => Count(dispatched, step) = OnRecord(step)

Unreminded(s, k) ==
    /\ s \in Submitted
    /\ <<s, k>> \in overdue \ reminded
    /\ assigned[s][k] # NoOne
    /\ approval_steps[s][k] = "Pending"

\* A step that is overdue and assigned does not wait for ever: its approver is
\* reminded or the step is decided, though sweeps are cut short and other
\* steps of the table have nobody to remind.
EveryOverdueStepReminded ==
    \A s \in SubmissionId, k \in Stage : Unreminded(s, k) ~> ~Unreminded(s, k)

\* What the reminder says, that the request "is still pending your decision":
\* a sweep sets out to remind approvers of pending requests only.
RemindersAreDue ==
    [][\A p \in Process :
        ~sweep[p].running =>
            \A step \in sweep'[p].todo :
                Assignee(step) # NoOne => leave_requests[step[1]].status = "Pending"]_slaVars
=============================================================================
