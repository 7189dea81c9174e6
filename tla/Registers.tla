------------------------------ MODULE Registers ------------------------------
(***************************************************************************)
(* The two registers of presence: the daily attendance (check-in and       *)
(* check-out, attendance_service.py) and the official duties               *)
(* (duty_engine.py), with several requests to the server open at once.     *)
(*                                                                         *)
(* Sessions work as in LeaveSessions.  Each handler here writes one row,   *)
(* so its flush and its commit are one step: until the commit nobody sees  *)
(* the row, and whoever wants the same row or key waits for the commit.    *)
(***************************************************************************)
EXTENDS Integers, Sequences, FiniteSets

CONSTANTS
    Employee,    \* accounts allowed to log in
    Approver,    \* those of them who may decide a duty
    Worker,      \* database sessions the server may have open at once
    LastInstant, \* bound of the clock
    LocalDate,   \* date of each instant in settings.APP_TIMEZONE
    DutyYear,    \* years in which duties start
    MaxDuties,   \* bound of the duty table
    Note,        \* notes long enough to be the reason of a rejection
    None         \* a NULL column or an absent note

Instant == 0..LastInstant
LocalDay == {LocalDate[i] : i \in Instant}
Decision == {"Approved", "Rejected"}

ASSUME RegisterAssumption ==
    /\ LastInstant \in Nat /\ MaxDuties \in Nat
    /\ IsFiniteSet(Worker)
    /\ Approver \subseteq Employee
    /\ LocalDate \in [Instant -> Int]
    /\ None \notin Note \cup Employee \cup Int

VARIABLES
    now,             \* the clock, which no handler sets
    attendance,      \* <<employee, date>> -> row, created by the first check-in
    official_duties, \* rows in the order of their ids
    audit_log,       \* entity -> audited entries, in the order of the commits
    session          \* worker -> its open transaction

tables == <<attendance, official_duties, audit_log>>
registerVars == <<now, tables, session>>

AttendanceRow == [check_in : Instant, check_out : Instant \cup {None},
                  total_hours : Int \cup {None}, status : {"Incomplete", "Present"}]
DutyRow == [owner : Employee, duty_year : DutyYear, number : Nat \ {0},
            status : {"Pending"} \cup Decision, approved_by : Employee \cup {None},
            decision_note : Note \cup {None}]
Entry == [action : {"CheckIn", "CheckOut", "Submitted"} \cup Decision,
          actor : Employee, at : Instant \cup {None}, note : Note \cup {None}]

Idle == [phase |-> "Idle"]

Put(table, key, row) ==
    [k \in DOMAIN table \cup {key} |-> IF k = key THEN row ELSE table[k]]

\* audit.record: one more entry for the entity.
Record(entity, entry) ==
    audit_log' = Put(audit_log, entity,
                     IF entity \in DOMAIN audit_log
                     THEN Append(audit_log[entity], entry) ELSE <<entry>>)

Ends(w) == session' = [session EXCEPT ![w] = Idle]

-----------------------------------------------------------------------------
(***************************************************************************)
(* Attendance                                                              *)
(***************************************************************************)

\* today_local(), the first line of check_in and of check_out.
Begin(w, e, action) ==
    /\ session[w] = Idle
    /\ session' = [session EXCEPT ![w] = [phase |-> "Dated", action |-> action,
                                          key |-> <<e, LocalDate[now]>>]]
    /\ UNCHANGED <<now, tables>>

\* now_utc(): the instant that will be stored, taken before the row is read.
Stamp(w) ==
    LET x == session[w] IN
    /\ x.phase = "Dated"
    /\ session' = [session EXCEPT ![w] = [phase |-> "Stamped", action |-> x.action,
                                          key |-> x.key, at |-> now]]
    /\ UNCHANGED <<now, tables>>

\* The guards of both handlers on the row get_today_attendance finds.
MayStamp(x) ==
    IF x.action = "CheckIn" THEN x.key \notin DOMAIN attendance
    ELSE x.key \in DOMAIN attendance /\ attendance[x.key].check_out = None

\* get_today_attendance: the handler goes on with the row it found, or refuses.
Look(w) ==
    LET x == session[w] IN
    /\ x.phase = "Stamped"
    /\ session' = [session EXCEPT ![w] =
            IF ~MayStamp(x) THEN Idle
            ELSE [phase |-> "Found", action |-> x.action, key |-> x.key, at |-> x.at,
                  arrived |-> IF x.action = "CheckIn" THEN x.at
                              ELSE attendance[x.key].check_in]]
    /\ UNCHANGED <<now, tables>>

MutantClashes(x) == FALSE
\* uq_attendance_employee_date refuses a second row for the day.
Clashes(x) == x.action = "CheckIn" /\ x.key \in DOMAIN attendance

NewRow(x) == [check_in |-> x.at, check_out |-> None, total_hours |-> None,
              status |-> "Incomplete"]

MutantLeave(x) ==
    [attendance[x.key] EXCEPT !.check_out = IF @ = None THEN x.at ELSE @,
                              !.total_hours = x.at - x.arrived, !.status = "Present"]
\* The columns a check-out writes over the row as it is now.
Leave(x) ==
    [attendance[x.key] EXCEPT !.check_out = x.at, !.total_hours = x.at - x.arrived,
                              !.status = "Present"]

\* The rest of check_in or check_out: flush, audit entry and commit.
CommitStamp(w) ==
    LET x == session[w] IN
    /\ x.phase = "Found"
    /\ ~Clashes(x)
    /\ attendance' = Put(attendance, x.key, IF x.action = "CheckIn" THEN NewRow(x) ELSE Leave(x))
    /\ Record(<<"Attendance", x.key>>,
              [action |-> x.action, actor |-> x.key[1], at |-> x.at, note |-> None])
    /\ Ends(w)
    /\ UNCHANGED <<now, official_duties>>

-----------------------------------------------------------------------------
(***************************************************************************)
(* Official duties                                                         *)
(***************************************************************************)

MutantDutyNumberFromZero(y) ==
    Cardinality({i \in DOMAIN official_duties : official_duties[i].duty_year = y})
MutantDutyNumberAcrossYears(y) == Len(official_duties) + 1
\* next_duty_key counts the keys already issued for the year.
NextDutyNumber(y) ==
    Cardinality({i \in DOMAIN official_duties : official_duties[i].duty_year = y}) + 1

\* submit_duty up to the key.  Duties may overlap one another and leave alike,
\* and a retry is a new duty: nothing in the table is looked up.
NumberDuty(w, e, y) ==
    /\ session[w] = Idle
    /\ Len(official_duties) < MaxDuties
    /\ session' = [session EXCEPT ![w] = [phase |-> "Numbered", owner |-> e, year |-> y,
                                          number |-> NextDutyNumber(y)]]
    /\ UNCHANGED <<now, tables>>

MutantIsIssued(y, n) == FALSE
\* duty_key is unique.
IsIssued(y, n) ==
    \E i \in DOMAIN official_duties :
        official_duties[i].duty_year = y /\ official_duties[i].number = n

CommitDuty(w) ==
    LET x == session[w] IN
    /\ x.phase = "Numbered"
    /\ ~IsIssued(x.year, x.number)
    /\ official_duties' = Append(official_duties,
            [owner |-> x.owner, duty_year |-> x.year, number |-> x.number,
             status |-> "Pending", approved_by |-> None, decision_note |-> None])
    /\ Record(<<"OfficialDuty", <<x.year, x.number>>>>,
              [action |-> "Submitted", actor |-> x.owner, at |-> None, note |-> None])
    /\ Ends(w)
    /\ UNCHANGED <<now, attendance>>

MutantDecideDutyAgain(i, actor, decision, note) ==
    /\ actor \in Approver
    /\ decision = "Rejected" => note # None
MayDecideDuty(i, actor, decision, note) ==
    /\ actor \in Approver
    /\ official_duties[i].status = "Pending"
    /\ decision = "Rejected" => note # None

\* The router reads the duty, decide_duty checks what was read.
ReadDuty(w, i, actor, decision, note) ==
    /\ session[w] = Idle
    /\ MayDecideDuty(i, actor, decision, note)
    /\ session' = [session EXCEPT ![w] = [phase |-> "Deciding", duty |-> i, actor |-> actor,
                                          decision |-> decision, note |-> note]]
    /\ UNCHANGED <<now, tables>>

MutantDecidedRow(x) ==
    [official_duties[x.duty] EXCEPT
        !.status = x.decision, !.approved_by = IF @ = None THEN x.actor ELSE @,
        !.decision_note = IF x.note = None THEN @ ELSE x.note]
\* The UPDATE names the columns that changed from what was read: an absent
\* note leaves decision_note as it is by now.
DecidedRow(x) ==
    [official_duties[x.duty] EXCEPT
        !.status = x.decision, !.approved_by = x.actor,
        !.decision_note = IF x.note = None THEN @ ELSE x.note]

CommitDecision(w) ==
    LET x == session[w] IN
    /\ x.phase = "Deciding"
    /\ official_duties' = [official_duties EXCEPT ![x.duty] = DecidedRow(x)]
    /\ Record(<<"OfficialDuty", <<official_duties[x.duty].duty_year,
                                  official_duties[x.duty].number>>>>,
              [action |-> x.decision, actor |-> x.actor, at |-> None, note |-> x.note])
    /\ Ends(w)
    /\ UNCHANGED <<now, attendance>>

-----------------------------------------------------------------------------

\* A refused INSERT, a lost connection or the end of the process.
RollBack(w) ==
    /\ session[w] # Idle
    /\ Ends(w)
    /\ UNCHANGED <<now, tables>>

Tick ==
    /\ now < LastInstant
    /\ now' = now + 1
    /\ UNCHANGED <<tables, session>>

Init ==
    /\ now = 0
    /\ attendance = <<>>
    /\ official_duties = <<>>
    /\ audit_log = <<>>
    /\ session = [w \in Worker |-> Idle]

Next ==
    \/ Tick
    \/ \E w \in Worker :
        \/ \E e \in Employee, action \in {"CheckIn", "CheckOut"} : Begin(w, e, action)
        \/ Stamp(w)
        \/ Look(w)
        \/ CommitStamp(w)
        \/ \E e \in Employee, y \in DutyYear : NumberDuty(w, e, y)
        \/ CommitDuty(w)
        \/ \E i \in DOMAIN official_duties, actor \in Employee, decision \in Decision,
              note \in Note \cup {None} : ReadDuty(w, i, actor, decision, note)
        \/ CommitDecision(w)
        \/ RollBack(w)

Spec == Init /\ [][Next]_registerVars

-----------------------------------------------------------------------------
(***************************************************************************)
(* Properties                                                              *)
(***************************************************************************)

\* The tables keep their column types, and every row has an audit entry.
RegisterTypeOK ==
    /\ now \in Instant
    /\ DOMAIN attendance \subseteq Employee \X LocalDay
    /\ attendance \in [DOMAIN attendance -> AttendanceRow]
    /\ official_duties \in Seq(DutyRow)
    /\ audit_log \in [DOMAIN audit_log -> Seq(Entry)]
    /\ DOMAIN audit_log =
            ({"Attendance"} \X DOMAIN attendance)
            \cup ({"OfficialDuty"} \X {<<official_duties[i].duty_year, official_duties[i].number>> :
                                        i \in DOMAIN official_duties})

\* One arrival a day: when two check-ins of one person race past midnight or
\* are sent twice, the first one committed stays, and a day that has been
\* completed never becomes incomplete again.
FirstCheckInStands ==
    [][\A k \in DOMAIN attendance :
        /\ k \in DOMAIN attendance'
        /\ attendance'[k].check_in = attendance[k].check_in
        /\ attendance[k].status = "Present" => attendance'[k].status = "Present"]_registerVars

\* The hours logged are those between the two stamps of the row, also when
\* check-outs race and each writes what it computed.
HoursAgree ==
    \A k \in DOMAIN attendance :
        LET row == attendance[k] IN
        IF row.status = "Present"
        THEN row.check_out # None /\ row.total_hours = row.check_out - row.check_in
        ELSE row.check_out = None /\ row.total_hours = None

\* The audit trail of a day begins with its one check-in, at the time in the
\* row, and the check-out in the row is the one recorded last.
AttendanceAudited ==
    \A k \in DOMAIN attendance :
        LET trail == audit_log[<<"Attendance", k>>]
            row == attendance[k]
        IN  /\ trail[1].action = "CheckIn" /\ trail[1].at = row.check_in
            /\ \A i \in 2..Len(trail) : trail[i].action = "CheckOut"
            /\ row.check_out = IF Len(trail) = 1 THEN None ELSE trail[Len(trail)].at

\* The keys OD-<year>-<number> of a year are 1, 2, ... without gap or twin.
DutyKeysDense ==
    \A y \in DutyYear :
        LET ofYear == {i \in DOMAIN official_duties : official_duties[i].duty_year = y}
        IN  {official_duties[i].number : i \in ofYear} = 1..Cardinality(ofYear)

\* Whoever decides a duty last, also in a race, is its approver; the status is
\* his verdict, and a rejection shows his reason and nobody else's.
DutyVerdictStands ==
    \A i \in DOMAIN official_duties :
        LET duty == official_duties[i]
            trail == audit_log[<<"OfficialDuty", <<duty.duty_year, duty.number>>>>]
            last == trail[Len(trail)]
        IN  IF duty.status = "Pending" THEN Len(trail) = 1 /\ duty.approved_by = None
            ELSE /\ last.action = duty.status /\ last.actor = duty.approved_by
                 /\ duty.status = "Rejected" =>
                        duty.decision_note = last.note /\ last.note # None

\* The handlers that have found duty i pending and are about to decide it.
Deciders(i) == {w \in Worker : session[w].phase = "Deciding" /\ session[w].duty = i}

\* A decided duty is decided again only by handlers that had found it pending
\* before: its verdicts, with those still under way, are never more than the
\* sessions.
DecidedByRivals ==
    \A i \in DOMAIN official_duties :
        LET duty == official_duties[i]
            trail == audit_log[<<"OfficialDuty", <<duty.duty_year, duty.number>>>>]
        IN  duty.status # "Pending" =>
                Len(trail) - 1 + Cardinality(Deciders(i)) <= Cardinality(Worker)

\* A duty and its trail as an entry of the book of RequestBook; a verdict tells
\* the approver.
Pages ==
    [i \in DOMAIN official_duties |->
        LET duty == official_duties[i]
            trail == audit_log[<<"OfficialDuty", <<duty.duty_year, duty.number>>>>]
        IN  [request |-> duty.owner, year |-> duty.duty_year, number |-> duty.number,
             verdicts |-> [j \in 1..(Len(trail) - 1) |-> <<trail[j + 1].action, trail[j + 1].actor>>],
             shows |-> IF duty.status = "Pending" THEN <<>>
                       ELSE <<<<duty.status, duty.approved_by>>>>]]

Book == INSTANCE RequestBook WITH
    Verdict <- Decision \X Approver,
    book <- Pages

\* Duties are entered and decided as if the handlers took turns: each commit is
\* the next entry of its year or one verdict of one approver, and a duty shows the
\* verdict recorded last, though handlers count and check before others commit.
ImplementsBook == Book!BookSpec
=============================================================================
