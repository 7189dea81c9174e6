---------------------------- MODULE LeaveSessions ----------------------------
(***************************************************************************)
(* The leave engine when several requests to the server are open at once.  *)
(* Each handler runs in a database session of its own (get_db), under      *)
(* PostgreSQL's READ COMMITTED: a query sees what is committed when it     *)
(* runs, an UPDATE or INSERT holds its row or unique key until the session *)
(* ends, and rows are written back with the values computed from what the  *)
(* handler read, column by column.  Nothing is read FOR UPDATE.            *)
(*                                                                         *)
(* The variables of LeaveWorkflow are the committed tables.  The queries a *)
(* handler makes before its first balance are one read here.               *)
(***************************************************************************)
EXTENDS LeaveWorkflow

CONSTANT Worker  \* database sessions the server may have open at once

\* The pool of connections is finite.
ASSUME SessionAssumption == IsFiniteSet(Worker)

VARIABLE session \* worker -> its open transaction

sessionVars == <<vars, session>>

Verdict == {"Submitted", "Cancelled"} \cup Decision
Lock == ({"balance"} \X Account) \cup ({"request", "submission"} \X SubmissionId)
            \cup ({"step"} \X (SubmissionId \X Stage)) \cup ({"number"} \X (Year \X Nat))

Idle == [phase |-> "Idle", held |-> {}]

\* phase    "Open" until a decision has written its step, "Reading" while the
\*          balances are read, "Numbered" once a submission has its key
\* charged  the accounts the handler moves, by the flag as it read it
\* was      the balances read so far, with the values read
\* fresh    those of them the handler creates
\* held     rows and unique keys the transaction has written
Open(phase, verdict, s, k, row, charged) ==
    [phase |-> phase, verdict |-> verdict, submission |-> s, step |-> k, row |-> row,
     charged |-> charged, was |-> <<>>, fresh |-> {}, held |-> {}]

-----------------------------------------------------------------------------
(***************************************************************************)
(* What an open transaction x is about to do                               *)
(***************************************************************************)

Unread(x) == x.charged \ DOMAIN x.was

MutantKeepPending(x, b) ==
    IF x.verdict = "Submitted" THEN Reserve(b, x.row.working_days)
    ELSE IF x.verdict = "Approved" THEN CommitPendingToUsed(b, x.row.working_days)
    ELSE IF x.verdict = "Cancelled" THEN ReleasePending(b, x.row.working_days)
    ELSE b
\* The balance the handler computes from the one it read.
Moved(x, b) ==
    IF x.verdict = "Submitted" THEN Reserve(b, x.row.working_days)
    ELSE IF x.verdict = "Approved" THEN CommitPendingToUsed(b, x.row.working_days)
    ELSE ReleasePending(b, x.row.working_days)

\* Balance rows the session has inserted or changed.
Dirty(x) == {a \in DOMAIN x.was : a \in x.fresh \/ Moved(x, x.was[a]) # x.was[a]}

\* Rows and keys the next flush writes: a new balance at once; before any
\* later query what a submission or a cancellation changed (autoflush), while a
\* decision changes its balances after its last query, just before the commit.
\* The order of the statements inside one flush is SQLAlchemy's, so any.
Flush(x) ==
    IF x.phase = "Open" THEN {<<"step", <<x.submission, x.step>>>>}
    ELSE IF x.phase = "Numbered"
    THEN {<<"submission", x.submission>>, <<"number", <<x.row.request_year, x.row.number>>>>}
    ELSE IF x.phase = "Reading"
    THEN {<<"balance", a>> : a \in IF x.verdict \in Decision /\ Unread(x) # {}
                                   THEN x.fresh ELSE Dirty(x)}
         \cup (IF x.verdict # "Submitted" /\ Unread(x) = {}
               THEN {<<"request", x.submission>>} ELSE {})
    ELSE {}

Wanted(w) == Flush(session[w]) \ session[w].held
HeldBy(w, l) == l \in session[w].held
Free(w, l) == \A v \in Worker \ {w} : ~HeldBy(v, l)

BalanceTaken(x, l) ==
    l[1] = "balance" /\ l[2] \in x.fresh /\ l[2] \in DOMAIN leave_balances
SubmissionTaken(l) == l[1] = "submission" /\ l[2] \in Submitted
NumberTaken(l) ==
    l[1] = "number" /\ \E s \in OfYear(l[2][1]) : leave_requests[s].number = l[2][2]

MutantTakenNumber(x, l) == BalanceTaken(x, l) \/ SubmissionTaken(l)
MutantTakenSubmission(x, l) == BalanceTaken(x, l) \/ NumberTaken(l)
\* The key of a row x inserts is in the table by now: an IntegrityError.
Taken(x, l) == BalanceTaken(x, l) \/ SubmissionTaken(l) \/ NumberTaken(l)

\* reserve raises for a balance the submission has read.
Insufficient(x) ==
    /\ x.phase = "Reading" /\ x.verdict = "Submitted"
    /\ \E a \in DOMAIN x.was : ~CanReserve(x.was[a], x.row.working_days)

\* Each of these sessions waits for a row another of them holds; waits says for
\* which rows.
Deadlocked(w, waits) ==
    \E W \in SUBSET Worker :
        /\ w \in W
        /\ \A v \in W : /\ waits[v] # {}
                        /\ \A l \in waits[v] : \E u \in W \ {v} : HeldBy(u, l)

-----------------------------------------------------------------------------
(***************************************************************************)
(* Steps                                                                   *)
(***************************************************************************)

\* The handler's checks pass on what is committed now.
OpenSubmit(w, s, r) ==
    /\ session[w] = Idle
    /\ Validated(s, r)
    /\ session' = [session EXCEPT ![w] = Open("Reading", "Submitted", s, 1, r, Charged(r))]
    /\ UNCHANGED vars

OpenDecide(w, s, actor, decision, k) ==
    /\ session[w] = Idle
    /\ MayDecide(leave_requests[s], actor)
    /\ session' = [session EXCEPT ![w] = Open("Open", decision, s, k, leave_requests[s], {})]
    /\ UNCHANGED vars

OpenCancel(w, s, actor) ==
    /\ session[w] = Idle
    /\ MayCancel(leave_requests[s], actor)
    /\ session' = [session EXCEPT ![w] = Open("Reading", "Cancelled", s, 1, leave_requests[s],
                                              Charged(leave_requests[s]))]
    /\ UNCHANGED vars

\* An UPDATE or INSERT that goes through.
Acquire(w, l) ==
    /\ l \in Wanted(w)
    /\ Free(w, l)
    /\ ~Insufficient(session[w])
    /\ ~Taken(session[w], l)
    /\ session' = [session EXCEPT ![w].held = @ \cup {l}]
    /\ UNCHANGED vars

\* A decision whose step is flushed reads the leave type.
ReadType(w) ==
    /\ session[w].phase = "Open"
    /\ Wanted(w) = {}
    /\ session' = [session EXCEPT ![w].phase = "Reading",
                                  ![w].charged = Charged(session[w].row)]
    /\ UNCHANGED vars

\* The query of get_or_create_balance, the request's own type first.
ReadBalance(w) ==
    LET x == session[w]
        own == Primary(x.row)
        a == IF own \in Unread(x) THEN own ELSE Secondary(x.row)
    IN  /\ x.phase = "Reading"
        /\ Unread(x) # {}
        /\ Wanted(w) = {}
        /\ ~Insufficient(x)
        /\ session' = [session EXCEPT
                ![w].was = Insert(@, a, BalanceOf(a)),
                ![w].fresh = IF a \in DOMAIN leave_balances THEN @ ELSE @ \cup {a}]
        /\ UNCHANGED vars

\* next_request_key counts the committed keys of the year.
Number(w) ==
    LET x == session[w] IN
    /\ x.phase = "Reading" /\ x.verdict = "Submitted"
    /\ Unread(x) = {}
    /\ Wanted(w) = {}
    /\ ~Insufficient(x)
    /\ session' = [session EXCEPT ![w].phase = "Numbered",
                                  ![w].row.number = NextRequestNumber(x.row.request_year)]
    /\ UNCHANGED vars

Complete(x) ==
    IF x.verdict = "Submitted" THEN x.phase = "Numbered"
    ELSE x.phase = "Reading" /\ Unread(x) = {}

\* The columns the handler changed overwrite the row as it is now.
Merged(x, a) ==
    LET now == Moved(x, x.was[a]) IN
    IF a \in x.fresh THEN now
    ELSE [leave_balances[a] EXCEPT
            !.used = IF now.used # x.was[a].used THEN now.used ELSE @,
            !.pending = IF now.pending # x.was[a].pending THEN now.pending ELSE @]

MutantFirstVerdict(x) ==
    IF leave_requests[x.submission].status = "Pending" THEN x.verdict
    ELSE leave_requests[x.submission].status
\* UPDATE leave_requests SET status = ... WHERE id = ..., whatever it is now.
NewStatus(x) == x.verdict

MutantAuditEntry(x) ==
    IF x.verdict = "Submitted" THEN x.verdict ELSE DecisionAction(x.verdict)
\* What audit.record is given.
AuditEntry(x) == IF x.verdict \in Decision THEN DecisionAction(x.verdict) ELSE x.verdict

Commit(w) ==
    LET x == session[w]
        s == x.submission
    IN  /\ session[w] # Idle
        /\ Complete(x)
        /\ Wanted(w) = {}
        /\ leave_balances' = Write(leave_balances, [a \in Dirty(x) |-> Merged(x, a)])
        /\ IF x.verdict = "Submitted"
           THEN /\ leave_requests' = Insert(leave_requests, s, x.row)
                /\ approval_steps' = Insert(approval_steps, s, [k \in Stage |-> "Pending"])
                /\ audit_log' = Insert(audit_log, s, <<"Submitted">>)
           ELSE /\ leave_requests' = [leave_requests EXCEPT ![s].status = NewStatus(x)]
                /\ approval_steps' = IF x.verdict \in Decision
                                     THEN [approval_steps EXCEPT ![s][x.step] = x.verdict]
                                     ELSE approval_steps
                /\ audit_log' = [audit_log EXCEPT ![s] = Append(@, AuditEntry(x))]
        /\ session' = [session EXCEPT ![w] = Idle]
        /\ UNCHANGED leave_types

MutantRollBackLeavesOpen(w) == UNCHANGED <<vars, session>>
\* async with AsyncSessionLocal(): leaving it without a commit drops all of it.
RollBack(w) ==
    /\ session' = [session EXCEPT ![w] = Idle]
    /\ UNCHANGED vars

\* The handler raises, or PostgreSQL breaks a deadlock at its cost.
FailOn(w, waits) ==
    /\ \/ Insufficient(session[w])
       \/ \E l \in waits[w] : Free(w, l) /\ Taken(session[w], l)
       \/ Deadlocked(w, waits)
    /\ RollBack(w)

Fail(w) == FailOn(w, [v \in Worker |-> Wanted(v)])

\* The process dies or the client is gone; nothing of the session remains.
Crash(w) == session[w] # Idle /\ RollBack(w)

\* Transactions of one statement, or of a script nobody else waits for.
Maintain(w) ==
    /\ session[w] = Idle
    /\ \/ \E t \in LeaveType, row \in LeaveTypeRow : UpdateLeaveType(t, row)
       \/ \E line \in Workbook : Free(w, <<"balance", SeededAccount(line)>>) /\ SeedBalance(line)
    /\ UNCHANGED session

OpenAny(w) ==
    \/ \E s \in SubmissionId, e \in Employee, t \in LeaveType,
          sub \in Employee \cup {NoOne}, from \in Day, until \in Day :
        \E n \in 1..(until - from + 1) :
            OpenSubmit(w, s, NewRequest(e, t, sub, from, until, n))
    \/ \E s \in Submitted, actor \in Employee :
        \/ \E decision \in Decision, k \in Stage : OpenDecide(w, s, actor, decision, k)
        \/ OpenCancel(w, s, actor)

Advance(w) ==
    \/ \E l \in Wanted(w) : Acquire(w, l)
    \/ ReadType(w)
    \/ ReadBalance(w)
    \/ Number(w)
    \/ Commit(w)
    \/ Fail(w)

SessionInit == Init /\ session = [w \in Worker |-> Idle]

SessionNext == \E w \in Worker : OpenAny(w) \/ Advance(w) \/ Crash(w) \/ Maintain(w)

SessionSpec == SessionInit /\ [][SessionNext]_sessionVars

\* The event loop resumes every handler whose query has answered, and
\* PostgreSQL grants a row to those who wait for it in turn.
Fairness == \A w \in Worker : SF_sessionVars(Advance(w))

FairSpec == SessionSpec /\ Fairness

-----------------------------------------------------------------------------
(***************************************************************************)
(* When racing handlers are as good as atomic ones                         *)
(***************************************************************************)

\* What the handler of x has checked and read is what is committed now.
Current(x) ==
    /\ IF x.verdict = "Submitted" THEN Validated(x.submission, x.row)
       ELSE leave_requests[x.submission] = x.row
    /\ x.charged = Charged(x.row)
    /\ \A a \in DOMAIN x.was : x.was[a] = BalanceOf(a)

\* Interleavings in which no commit overtakes what another session still relies on.
IsolatedNext == SessionNext /\ \A w \in Worker : Commit(w) => Current(session[w])
IsolatedSpec == SessionInit /\ [][IsolatedNext]_sessionVars

\* The open requests concern different people: no applicant of one is the applicant
\* or the substitute of another.
Apart ==
    \A v, w \in Worker :
        /\ v # w /\ session[v] # Idle /\ session[w] # Idle
        => session[v].row.applicant \notin {session[w].row.applicant, session[w].row.substitute}

\* A deployment in which those who handle one person's leave take turns, and leave
\* types and the workbook are edited while nobody files or decides.
ApartNext ==
    /\ SessionNext
    /\ Apart'
    /\ \A w \in Worker : Maintain(w) => \A v \in Worker : session[v] = Idle
ApartSpec == SessionInit /\ [][ApartNext]_sessionVars

\* Nobody starts or stops a type deducting from the annual leave, or loads the workbook.
Undisturbed ==
    /\ \A t \in LeaveType :
            leave_types'[t].deducts_from_annual = leave_types[t].deducts_from_annual
    /\ \A line \in Workbook : ~SeedBalance(line)

-----------------------------------------------------------------------------
(***************************************************************************)
(* Properties                                                              *)
(***************************************************************************)

\* The tables keep their types whatever the interleaving, and a row or key is
\* being written by one session at a time.
SessionTypeOK ==
    /\ TypeOK
    /\ \A w \in Worker : session[w].held \subseteq Lock
    /\ \A w1, w2 \in Worker : w1 # w2 => session[w1].held \cap session[w2].held = {}

\* The handlers are the atomic steps of LeaveWorkflow: reads, flushes, failures and
\* crashes are stuttering.  It takes that no commit overtakes what another session
\* still relies on (IsolatedSpec, ApartSpec).
ImplementsWorkflow == Spec

\* In every interleaving, whatever went wrong before: a handler that at its commit
\* would still read and check what it did (Current) changes the tables as the whole
\* handler of LeaveWorkflow does in one step.  What it flushed early, the balances
\* and the number it computed from older reads and the columns its UPDATEs leave
\* out make no difference, and nothing of a handler is left out.
CurrentIsAtomic ==
    [][\A w \in Worker :
        /\ session[w] # Idle /\ session'[w] = Idle
        /\ Current(session[w])
        => [Next]_vars]_sessionVars

\* A retry that races its original never replaces the stored request nor is
\* recorded a second time (ADR-08); the row changes in its status alone.
FirstSubmissionStands ==
    [][\A s \in Submitted :
        /\ s \in Submitted'
        /\ leave_requests'[s] = [leave_requests[s] EXCEPT !.status = leave_requests'[s].status]
        /\ Head(audit_log'[s]) = "Submitted"
        /\ \A i \in 2..Len(audit_log'[s]) : audit_log'[s][i] # "Submitted"]_sessionVars

\* The audit entry that stands for a status.
LastEntry(status) ==
    IF status \in Decision THEN DecisionAction(status)
    ELSE IF status = "Pending" THEN "Submitted" ELSE status

\* When decisions and cancellations of a request race, the status is the one
\* the audit trail records last, in the order of the commits (occurred_at is
\* the start of a transaction and may order racing entries otherwise).  Approval
\* steps may keep the verdict of an earlier commit: each verdict among them is
\* in the trail, and that of a decided request is among them.
LastVerdictStands ==
    \A s \in Submitted :
        LET status == leave_requests[s].status
            trail == audit_log[s]
            steps == approval_steps[s]
        IN  /\ trail[Len(trail)] = LastEntry(status)
            /\ status \in Decision => \E k \in Stage : steps[k] = status
            /\ \A k \in Stage : steps[k] # "Pending" =>
                    \E i \in 2..Len(trail) : trail[i] = DecisionAction(steps[k])

\* The handlers that have found request s pending and are about to settle it.
Rivals(s) ==
    {w \in Worker : /\ session[w] # Idle
                    /\ session[w].submission = s
                    /\ session[w].verdict # "Submitted"}

\* A settled request is settled again only by handlers that had found it pending
\* before: its verdicts, with those still under way, are never more than the
\* sessions, and none is added once these have ended.
SettledByRivals ==
    \A s \in Submitted :
        leave_requests[s].status # "Pending" =>
            Len(audit_log[s]) - 1 + Cardinality(Rivals(s)) <= Cardinality(Worker)

\* A request and its trail as an entry of the book.
Pages ==
    [s \in Submitted |->
        [request |-> [leave_requests[s] EXCEPT !.status = "Pending"],
         year |-> leave_requests[s].request_year,
         number |-> leave_requests[s].number,
         verdicts |-> Tail(audit_log[s]),
         shows |-> IF leave_requests[s].status = "Pending" THEN <<>>
                   ELSE <<LastEntry(leave_requests[s].status)>>]]

Book == INSTANCE RequestBook WITH
    Verdict <- AuditAction \ {"Submitted"},
    book <- Pages

\* However handlers race, fail and retry, each commit is one entry or one verdict
\* in the book: it takes the next number of the year though that was counted
\* before others committed, no verdict of the trail is lost to a later one, and
\* no request shows a verdict other than the one recorded with it.
ImplementsBook == Book!BookSpec

\* "pending_days is reserved at submission" (balance_engine.py): a balance holds
\* at least the days of the pending requests that charge it.
ReservationsHeld ==
    \A a \in DOMAIN leave_balances :
        TotalDays(Charging(a, "Pending")) <= leave_balances[a].pending

\* No handler hangs: whatever rows the others hold, it commits or fails.
EveryHandlerEnds == \A w \in Worker : session[w] # Idle ~> session[w] = Idle
=============================================================================
