---------------------------- MODULE RegistersProofs ----------------------------
(***************************************************************************)
(* Theorems about Registers for any employees, approvers, sessions, clock, *)
(* time zone and number of duties.                                         *)
(***************************************************************************)
EXTENDS Registers, FiniteSetTheorems, TLAPS

-----------------------------------------------------------------------------
(***************************************************************************)
(* The open sessions, and what they may rely on.                           *)
(***************************************************************************)

Stamping == {"CheckIn", "CheckOut"}

Dated == [phase : {"Dated"}, action : Stamping, key : Employee \X LocalDay]
Stamped == [phase : {"Stamped"}, action : Stamping, key : Employee \X LocalDay, at : Instant]
FoundRow == [phase : {"Found"}, action : Stamping, key : Employee \X LocalDay,
             at : Instant, arrived : Instant]
Numbered == [phase : {"Numbered"}, owner : Employee, year : DutyYear, number : Nat \ {0}]
Deciding == [phase : {"Deciding"}, duty : Nat, actor : Approver, decision : Decision,
             note : Note \cup {None}]
Session == {Idle} \cup Dated \cup Stamped \cup FoundRow \cup Numbered \cup Deciding

\* A check-out computes with the check-in of the row, which nothing changes; a
\* decision concerns a stored duty, and a rejection has a reason.
Relies(x) ==
    /\ x.phase = "Found" /\ x.action = "CheckOut" =>
            x.key \in DOMAIN attendance /\ x.arrived = attendance[x.key].check_in
    /\ x.phase = "Deciding" =>
            x.duty \in DOMAIN official_duties /\ (x.decision = "Rejected" => x.note # None)

RegisterInv ==
    /\ RegisterTypeOK
    /\ session \in [Worker -> Session]
    /\ \A w \in Worker : Relies(session[w])

\* A session's phase tells its fields.
LEMMA SessionPhase ==
    ASSUME NEW x \in Session
    PROVE  /\ x.phase = "Dated" => x \in Dated
           /\ x.phase = "Stamped" => x \in Stamped
           /\ x.phase = "Found" => x \in FoundRow
           /\ x.phase = "Numbered" => x \in Numbered
           /\ x.phase = "Deciding" => x \in Deciding
  BY DEF Session, Idle, Dated, Stamped, FoundRow, Numbered, Deciding

\* Record writes the trail of one entity and keeps the others.
LEMMA RecordEntry ==
    ASSUME RegisterTypeOK, NEW entity, NEW entry \in Entry, Record(entity, entry)
    PROVE  /\ DOMAIN audit_log' = DOMAIN audit_log \cup {entity}
           /\ audit_log' \in [DOMAIN audit_log' -> Seq(Entry)]
           /\ \A k \in DOMAIN audit_log : k # entity => audit_log'[k] = audit_log[k]
           /\ audit_log'[entity] = IF entity \in DOMAIN audit_log
                                   THEN Append(audit_log[entity], entry) ELSE <<entry>>
  <1> DEFINE trail == IF entity \in DOMAIN audit_log
                      THEN Append(audit_log[entity], entry) ELSE <<entry>>
  <1>1. audit_log \in [DOMAIN audit_log -> Seq(Entry)]
    BY DEF RegisterTypeOK
  <1>2. trail \in Seq(Entry)
    BY <1>1
  <1>3. audit_log' = Put(audit_log, entity, trail)
    BY DEF Record
  <1> HIDE DEF trail
  <1>4. /\ Put(audit_log, entity, trail) \in [DOMAIN audit_log \cup {entity} -> Seq(Entry)]
        /\ DOMAIN Put(audit_log, entity, trail) = DOMAIN audit_log \cup {entity}
        /\ Put(audit_log, entity, trail)[entity] = trail
        /\ \A k \in DOMAIN audit_log : k # entity => Put(audit_log, entity, trail)[k] = audit_log[k]
    BY <1>1, <1>2 DEF Put
  <1> QED BY <1>3, <1>4 DEF trail

-----------------------------------------------------------------------------
(***************************************************************************)
(* What the three commits write.                                           *)
(***************************************************************************)

\* A check-in or check-out writes the one row of its person and day.
LEMMA StampWrites ==
    ASSUME RegisterInv, NEW w \in Worker, CommitStamp(w)
    PROVE  LET x == session[w]
               entity == <<"Attendance", x.key>>
               entry == [action |-> x.action, actor |-> x.key[1], at |-> x.at, note |-> None]
           IN  /\ x \in FoundRow /\ entry \in Entry
               /\ DOMAIN attendance' = DOMAIN attendance \cup {x.key}
               /\ attendance' \in [DOMAIN attendance' -> AttendanceRow]
               /\ \A k \in DOMAIN attendance : k # x.key => attendance'[k] = attendance[k]
               /\ x.action = "CheckIn" =>
                    x.key \notin DOMAIN attendance /\ attendance'[x.key] = NewRow(x)
               /\ x.action = "CheckOut" =>
                    x.key \in DOMAIN attendance /\ attendance'[x.key] = Leave(x)
               /\ Record(entity, entry)
  <1> DEFINE x == session[w]
  <1> DEFINE row == IF x.action = "CheckIn" THEN NewRow(x) ELSE Leave(x)
  <1>1. x \in FoundRow
    BY SessionPhase DEF RegisterInv, CommitStamp
  <1>2. /\ x.action \in Stamping /\ x.key \in Employee \X LocalDay
        /\ x.at \in Instant /\ x.arrived \in Instant
    BY <1>1 DEF FoundRow
  <1>3. [action |-> x.action, actor |-> x.key[1], at |-> x.at, note |-> None] \in Entry
    BY <1>2 DEF Entry, Stamping
  <1>4. attendance \in [DOMAIN attendance -> AttendanceRow]
    BY DEF RegisterInv, RegisterTypeOK
  <1>5. x.action = "CheckOut" => x.key \in DOMAIN attendance
    BY <1>1 DEF RegisterInv, Relies, FoundRow
  <1>6. row \in AttendanceRow
    <2>1. CASE x.action = "CheckIn"
      BY <1>2, <2>1 DEF NewRow, AttendanceRow
    <2>2. CASE x.action = "CheckOut"
      <3>1. x.at - x.arrived \in Int
        BY <1>2, RegisterAssumption DEF Instant
      <3>2. attendance[x.key] \in AttendanceRow
        BY <1>4, <1>5, <2>2
      <3> QED BY <1>2, <2>2, <3>1, <3>2 DEF Leave, AttendanceRow
    <2> QED BY <1>2, <2>1, <2>2 DEF Stamping
  <1>7. attendance' = Put(attendance, x.key, row)
    BY DEF CommitStamp
  <1>8. x.action = "CheckIn" => x.key \notin DOMAIN attendance
    BY DEF CommitStamp, Clashes
  <1> HIDE DEF row
  <1>9. /\ DOMAIN attendance' = DOMAIN attendance \cup {x.key}
        /\ attendance' \in [DOMAIN attendance' -> AttendanceRow]
        /\ \A k \in DOMAIN attendance : k # x.key => attendance'[k] = attendance[k]
        /\ attendance'[x.key] = row
    BY <1>4, <1>6, <1>7 DEF Put
  <1>10. Record(<<"Attendance", x.key>>,
               [action |-> x.action, actor |-> x.key[1], at |-> x.at, note |-> None])
    BY DEF CommitStamp
  <1> QED BY <1>1, <1>2, <1>3, <1>5, <1>8, <1>9, <1>10 DEF row, Stamping

DutyEntity(i) ==
    <<"OfficialDuty", <<official_duties[i].duty_year, official_duties[i].number>>>>

\* A submission appends a duty whose key nobody has.
LEMMA DutyWrites ==
    ASSUME RegisterInv, NEW w \in Worker, CommitDuty(w)
    PROVE  LET x == session[w]
               new == Len(official_duties) + 1
               entry == [action |-> "Submitted", actor |-> x.owner, at |-> None, note |-> None]
           IN  /\ x \in Numbered /\ entry \in Entry
               /\ official_duties' \in Seq(DutyRow)
               /\ DOMAIN official_duties' = DOMAIN official_duties \cup {new}
               /\ new \notin DOMAIN official_duties
               /\ \A i \in DOMAIN official_duties : official_duties'[i] = official_duties[i]
               /\ official_duties'[new] =
                    [owner |-> x.owner, duty_year |-> x.year, number |-> x.number,
                     status |-> "Pending", approved_by |-> None, decision_note |-> None]
               /\ ~IsIssued(x.year, x.number)
               /\ Record(<<"OfficialDuty", <<x.year, x.number>>>>, entry)
  <1> DEFINE x == session[w]
  <1> DEFINE row == [owner |-> x.owner, duty_year |-> x.year, number |-> x.number,
                     status |-> "Pending", approved_by |-> None, decision_note |-> None]
  <1>1. x \in Numbered
    BY SessionPhase DEF RegisterInv, CommitDuty
  <1>2. x.owner \in Employee /\ x.year \in DutyYear /\ x.number \in Nat \ {0}
    BY <1>1 DEF Numbered
  <1>3. row \in DutyRow
    BY <1>2 DEF DutyRow
  <1>4. [action |-> "Submitted", actor |-> x.owner, at |-> None, note |-> None] \in Entry
    BY <1>2 DEF Entry
  <1>5. official_duties' = Append(official_duties, row) /\ official_duties \in Seq(DutyRow)
    BY DEF CommitDuty, RegisterInv, RegisterTypeOK
  <1> HIDE DEF row
  <1>6. /\ official_duties' \in Seq(DutyRow)
        /\ DOMAIN official_duties' = DOMAIN official_duties \cup {Len(official_duties) + 1}
        /\ Len(official_duties) + 1 \notin DOMAIN official_duties
        /\ \A i \in DOMAIN official_duties : official_duties'[i] = official_duties[i]
        /\ official_duties'[Len(official_duties) + 1] = row
    BY <1>3, <1>5
  <1> QED BY <1>1, <1>4, <1>6 DEF CommitDuty, row

\* A decision writes the columns of one duty that say so.
LEMMA DecisionWrites ==
    ASSUME RegisterInv, NEW w \in Worker, CommitDecision(w)
    PROVE  LET x == session[w]
               entry == [action |-> x.decision, actor |-> x.actor, at |-> None, note |-> x.note]
           IN  /\ x \in Deciding /\ entry \in Entry
               /\ x.duty \in DOMAIN official_duties
               /\ x.decision = "Rejected" => x.note # None
               /\ official_duties' \in Seq(DutyRow)
               /\ DOMAIN official_duties' = DOMAIN official_duties
               /\ \A i \in DOMAIN official_duties : i # x.duty => official_duties'[i] = official_duties[i]
               /\ official_duties'[x.duty] = DecidedRow(x)
               /\ Record(DutyEntity(x.duty), entry)
  <1> DEFINE x == session[w]
  <1>1. x \in Deciding
    BY SessionPhase DEF RegisterInv, CommitDecision
  <1>2. /\ x.actor \in Employee /\ x.decision \in Decision /\ x.note \in Note \cup {None}
        /\ x.phase = "Deciding"
    BY <1>1, RegisterAssumption DEF Deciding
  <1>3. x.duty \in DOMAIN official_duties /\ (x.decision = "Rejected" => x.note # None)
    BY <1>2 DEF RegisterInv, Relies
  <1>4. official_duties \in Seq(DutyRow)
    BY DEF RegisterInv, RegisterTypeOK
  <1>5. DecidedRow(x) \in DutyRow
    <2>1. official_duties[x.duty] \in DutyRow
      BY <1>3, <1>4
    <2> QED BY <1>2, <2>1 DEF DecidedRow, DutyRow
  <1>6. [action |-> x.decision, actor |-> x.actor, at |-> None, note |-> x.note] \in Entry
    BY <1>2 DEF Entry
  <1>7. official_duties' = [official_duties EXCEPT ![x.duty] = DecidedRow(x)]
    BY DEF CommitDecision
  <1>8. /\ official_duties' \in Seq(DutyRow)
        /\ DOMAIN official_duties' = DOMAIN official_duties
        /\ \A i \in DOMAIN official_duties : i # x.duty => official_duties'[i] = official_duties[i]
        /\ official_duties'[x.duty] = DecidedRow(x)
    BY <1>3, <1>4, <1>5, <1>7
  <1> QED BY <1>1, <1>3, <1>6, <1>8 DEF CommitDecision, DutyEntity

\* A decision leaves the key of every duty alone.
LEMMA DecisionKeeps ==
    ASSUME RegisterInv, NEW w \in Worker, CommitDecision(w)
    PROVE  /\ DOMAIN official_duties' = DOMAIN official_duties
           /\ \A i \in DOMAIN official_duties :
                /\ official_duties'[i].duty_year = official_duties[i].duty_year
                /\ official_duties'[i].number = official_duties[i].number
  <1> DEFINE x == session[w]
  <1>1. /\ x.duty \in DOMAIN official_duties
        /\ DOMAIN official_duties' = DOMAIN official_duties
        /\ \A i \in DOMAIN official_duties : i # x.duty => official_duties'[i] = official_duties[i]
        /\ official_duties'[x.duty] = DecidedRow(x)
    BY DecisionWrites
  <1>2. official_duties[x.duty] \in DutyRow
    BY <1>1 DEF RegisterInv, RegisterTypeOK
  <1>3. /\ DecidedRow(x).duty_year = official_duties[x.duty].duty_year
        /\ DecidedRow(x).number = official_duties[x.duty].number
    BY <1>2 DEF DecidedRow, DutyRow
  <1> QED BY <1>1, <1>3

-----------------------------------------------------------------------------
(***************************************************************************)
(* Type correctness.                                                       *)
(***************************************************************************)

\* The empty registers satisfy the invariant.
LEMMA InitRegister == Init => RegisterInv
  <1> SUFFICES ASSUME Init PROVE RegisterInv
    OBVIOUS
  <1>1. RegisterTypeOK
    <2>1. 0 \in Instant
      BY RegisterAssumption DEF Instant
    <2>2. DOMAIN attendance = {} /\ DOMAIN official_duties = {} /\ DOMAIN audit_log = {}
      BY DEF Init
    <2> QED BY <2>1, <2>2 DEF Init, RegisterTypeOK
  <1>2. session \in [Worker -> Session] /\ \A w \in Worker : session[w] = Idle
    BY DEF Init, Session
  <1>3. \A w \in Worker : Relies(session[w])
    BY <1>2 DEF Idle, Relies
  <1> QED BY <1>1, <1>2, <1>3 DEF RegisterInv

\* A step that leaves the tables alone opens one session on what it relies on.
LEMMA SessionStep ==
    ASSUME RegisterInv, NEW w \in Worker, NEW y \in Session, Relies(y),
           session' = [session EXCEPT ![w] = y], UNCHANGED <<now, tables>>
    PROVE  RegisterInv'
  <1>1. RegisterTypeOK'
    BY DEF RegisterInv, RegisterTypeOK, tables
  <1>2. session' \in [Worker -> Session]
    BY DEF RegisterInv
  <1>3. \A v \in Worker : Relies(session'[v])
    BY DEF RegisterInv
  <1>4. \A v \in Worker : Relies(session[v])'
    BY <1>3 DEF Relies, tables
  <1> QED BY <1>1, <1>2, <1>4 DEF RegisterInv

\* A session that ends writes nothing more, and the rows others rely on stay.
LEMMA CommitStep ==
    ASSUME RegisterInv, NEW w \in Worker, Ends(w), RegisterTypeOK',
           \A k \in DOMAIN attendance :
                k \in DOMAIN attendance' /\ attendance'[k].check_in = attendance[k].check_in,
           DOMAIN official_duties \subseteq DOMAIN official_duties'
    PROVE  RegisterInv'
  <1>1. session' \in [Worker -> Session]
    BY DEF RegisterInv, Ends, Session
  <1>2. \A v \in Worker : session'[v] = Idle \/ session'[v] = session[v]
    BY DEF RegisterInv, Ends
  <1>3. \A v \in Worker : Relies(session[v])'
    <2> SUFFICES ASSUME NEW v \in Worker PROVE Relies(session[v])'
      OBVIOUS
    <2>1. CASE session'[v] = Idle
      BY <2>1 DEF Relies, Idle
    <2>2. CASE session'[v] = session[v]
      BY <2>2 DEF Relies, RegisterInv
    <2> QED BY <1>2, <2>1, <2>2
  <1> QED BY <1>1, <1>3 DEF RegisterInv

\* The commit of a check-in or check-out keeps the invariant.
LEMMA StampStep ==
    ASSUME RegisterInv, NEW w \in Worker, CommitStamp(w)
    PROVE  RegisterInv'
  <1> DEFINE x == session[w]
  <1>1. /\ x \in FoundRow
        /\ DOMAIN attendance' = DOMAIN attendance \cup {x.key}
        /\ attendance' \in [DOMAIN attendance' -> AttendanceRow]
        /\ \A k \in DOMAIN attendance : k # x.key => attendance'[k] = attendance[k]
        /\ x.action = "CheckIn" =>
             x.key \notin DOMAIN attendance /\ attendance'[x.key] = NewRow(x)
        /\ x.action = "CheckOut" =>
             x.key \in DOMAIN attendance /\ attendance'[x.key] = Leave(x)
    BY StampWrites
  <1>2. /\ DOMAIN audit_log' = DOMAIN audit_log \cup {<<"Attendance", x.key>>}
        /\ audit_log' \in [DOMAIN audit_log' -> Seq(Entry)]
    <2>1. /\ Record(<<"Attendance", x.key>>,
                    [action |-> x.action, actor |-> x.key[1], at |-> x.at, note |-> None])
          /\ [action |-> x.action, actor |-> x.key[1], at |-> x.at, note |-> None] \in Entry
      BY StampWrites
    <2> QED BY <2>1, RecordEntry DEF RegisterInv
  <1>3. x.key \in Employee \X LocalDay /\ x.action \in Stamping
    BY <1>1 DEF FoundRow
  <1>4. RegisterTypeOK'
    <2>1. UNCHANGED <<now, official_duties>>
      BY DEF CommitStamp
    <2>2. DOMAIN attendance' \subseteq Employee \X LocalDay
      BY <1>1, <1>3 DEF RegisterInv, RegisterTypeOK
    <2>3. {"Attendance"} \X DOMAIN attendance' =
            ({"Attendance"} \X DOMAIN attendance) \cup {<<"Attendance", x.key>>}
      BY <1>1
    <2> HIDE DEF x
    <2> QED BY <1>1, <1>2, <2>1, <2>2, <2>3 DEF RegisterInv, RegisterTypeOK
  <1>5. \A k \in DOMAIN attendance :
            k \in DOMAIN attendance' /\ attendance'[k].check_in = attendance[k].check_in
    <2> SUFFICES ASSUME NEW k \in DOMAIN attendance
                 PROVE  k \in DOMAIN attendance' /\ attendance'[k].check_in = attendance[k].check_in
      OBVIOUS
    <2>1. CASE k # x.key
      BY <1>1, <2>1
    <2>2. CASE k = x.key
      <3>1. attendance'[k] = Leave(x)
        BY <1>1, <1>3, <2>2 DEF Stamping
      <3>2. attendance[k] \in AttendanceRow
        BY DEF RegisterInv, RegisterTypeOK
      <3> QED BY <1>1, <2>2, <3>1, <3>2 DEF Leave, AttendanceRow
    <2> QED BY <2>1, <2>2
  <1> QED BY <1>4, <1>5, CommitStep DEF CommitStamp

\* The commit of a submission keeps the invariant.
LEMMA DutyStep ==
    ASSUME RegisterInv, NEW w \in Worker, CommitDuty(w)
    PROVE  RegisterInv'
  <1> DEFINE x == session[w]
  <1> DEFINE new == Len(official_duties) + 1
  <1> DEFINE Keys == {<<official_duties[i].duty_year, official_duties[i].number>> :
                      i \in DOMAIN official_duties}
  <1>1. /\ official_duties' \in Seq(DutyRow)
        /\ DOMAIN official_duties' = DOMAIN official_duties \cup {new}
        /\ \A i \in DOMAIN official_duties : official_duties'[i] = official_duties[i]
        /\ official_duties'[new].duty_year = x.year /\ official_duties'[new].number = x.number
    <2>1. official_duties'[new] =
            [owner |-> x.owner, duty_year |-> x.year, number |-> x.number,
             status |-> "Pending", approved_by |-> None, decision_note |-> None]
      BY DutyWrites
    <2>2. /\ official_duties' \in Seq(DutyRow)
          /\ DOMAIN official_duties' = DOMAIN official_duties \cup {new}
          /\ \A i \in DOMAIN official_duties : official_duties'[i] = official_duties[i]
      BY DutyWrites
    <2> QED BY <2>1, <2>2
  <1>2. /\ DOMAIN audit_log' = DOMAIN audit_log \cup {<<"OfficialDuty", <<x.year, x.number>>>>}
        /\ audit_log' \in [DOMAIN audit_log' -> Seq(Entry)]
    <2>1. /\ Record(<<"OfficialDuty", <<x.year, x.number>>>>,
                    [action |-> "Submitted", actor |-> x.owner, at |-> None, note |-> None])
          /\ [action |-> "Submitted", actor |-> x.owner, at |-> None, note |-> None] \in Entry
      BY DutyWrites
    <2> QED BY <2>1, RecordEntry DEF RegisterInv
  <1>3. RegisterTypeOK'
    <2>1. UNCHANGED <<now, attendance>>
      BY DEF CommitDuty
    <2>2. Keys' = Keys \cup {<<x.year, x.number>>}
      <3> HIDE DEF x, new
      <3> QED BY <1>1
    <2>3. {"OfficialDuty"} \X Keys' = ({"OfficialDuty"} \X Keys) \cup {<<"OfficialDuty", <<x.year, x.number>>>>}
      BY <2>2
    <2>4. DOMAIN audit_log = ({"Attendance"} \X DOMAIN attendance) \cup ({"OfficialDuty"} \X Keys)
      BY DEF RegisterInv, RegisterTypeOK
    <2>5. DOMAIN audit_log' = ({"Attendance"} \X DOMAIN attendance') \cup ({"OfficialDuty"} \X Keys')
      <3> HIDE DEF Keys, x
      <3> QED BY <1>2, <2>1, <2>3, <2>4
    <2> QED BY <1>1, <1>2, <2>1, <2>5 DEF RegisterInv, RegisterTypeOK
  <1> QED BY <1>1, <1>3, CommitStep DEF CommitDuty, RegisterInv, RegisterTypeOK

\* The commit of a decision keeps the invariant.
LEMMA DecisionStep ==
    ASSUME RegisterInv, NEW w \in Worker, CommitDecision(w)
    PROVE  RegisterInv'
  <1> DEFINE x == session[w]
  <1> DEFINE Keys == {<<official_duties[i].duty_year, official_duties[i].number>> :
                      i \in DOMAIN official_duties}
  <1>1. /\ x.duty \in DOMAIN official_duties
        /\ official_duties' \in Seq(DutyRow)
        /\ DOMAIN official_duties' = DOMAIN official_duties
        /\ \A i \in DOMAIN official_duties : i # x.duty => official_duties'[i] = official_duties[i]
        /\ official_duties'[x.duty] = DecidedRow(x)
    BY DecisionWrites
  <1>2. \A i \in DOMAIN official_duties :
            /\ official_duties'[i].duty_year = official_duties[i].duty_year
            /\ official_duties'[i].number = official_duties[i].number
    BY DecisionKeeps
  <1>3. /\ DOMAIN audit_log' = DOMAIN audit_log \cup {DutyEntity(x.duty)}
        /\ audit_log' \in [DOMAIN audit_log' -> Seq(Entry)]
    <2>1. /\ Record(DutyEntity(x.duty),
                    [action |-> x.decision, actor |-> x.actor, at |-> None, note |-> x.note])
          /\ [action |-> x.decision, actor |-> x.actor, at |-> None, note |-> x.note] \in Entry
      BY DecisionWrites
    <2> QED BY <2>1, RecordEntry DEF RegisterInv
  <1>4. RegisterTypeOK'
    <2>1. UNCHANGED <<now, attendance>>
      BY DEF CommitDecision
    <2>2. Keys' = Keys
      BY <1>1, <1>2
    <2>3. DOMAIN audit_log = ({"Attendance"} \X DOMAIN attendance) \cup ({"OfficialDuty"} \X Keys)
      BY DEF RegisterInv, RegisterTypeOK
    <2>4. DutyEntity(x.duty) \in {"OfficialDuty"} \X Keys
      BY <1>1 DEF DutyEntity
    <2>5. DOMAIN audit_log' = ({"Attendance"} \X DOMAIN attendance') \cup ({"OfficialDuty"} \X Keys')
      <3> HIDE DEF Keys, x
      <3> QED BY <1>3, <2>1, <2>2, <2>3, <2>4
    <2> QED BY <1>1, <1>3, <2>1, <2>5 DEF RegisterInv, RegisterTypeOK
  <1> QED BY <1>1, <1>4, CommitStep DEF CommitDecision, RegisterInv, RegisterTypeOK

OfYear(y) == {i \in DOMAIN official_duties : official_duties[i].duty_year = y}

\* The duties of a year are finitely many, hence counted.
LEMMA DutiesOfYear ==
    ASSUME official_duties \in Seq(DutyRow), NEW y
    PROVE  IsFiniteSet(OfYear(y)) /\ Cardinality(OfYear(y)) \in Nat
  <1>1. DOMAIN official_duties = 1..Len(official_duties) /\ Len(official_duties) \in Nat
    OBVIOUS
  <1>2. IsFiniteSet(DOMAIN official_duties)
    BY <1>1, FS_Interval
  <1>3. IsFiniteSet(OfYear(y))
    BY <1>2, FS_Subset DEF OfYear
  <1> QED BY <1>3, FS_CardinalityType

\* Every step keeps the invariant.
LEMMA RegisterStep == RegisterInv /\ [Next]_registerVars => RegisterInv'
  <1> SUFFICES ASSUME RegisterInv, [Next]_registerVars PROVE RegisterInv'
    OBVIOUS
  <1>1. CASE Tick
    <2>1. now' \in Instant
      BY <1>1, RegisterAssumption DEF Tick, Instant, RegisterInv, RegisterTypeOK
    <2>2. RegisterTypeOK'
      BY <1>1, <2>1 DEF Tick, tables, RegisterInv, RegisterTypeOK
    <2>3. \A w \in Worker : Relies(session[w])'
      BY <1>1 DEF Tick, tables, RegisterInv, Relies
    <2> QED BY <1>1, <2>2, <2>3 DEF Tick, RegisterInv
  <1>2. ASSUME NEW w \in Worker, NEW e \in Employee, NEW action \in Stamping, Begin(w, e, action)
        PROVE  RegisterInv'
    <2> DEFINE y == [phase |-> "Dated", action |-> action, key |-> <<e, LocalDate[now]>>]
    <2>1. LocalDate[now] \in LocalDay
      BY DEF LocalDay, RegisterInv, RegisterTypeOK
    <2>2. y \in Dated
      BY <2>1 DEF Dated
    <2>3. y \in Session /\ Relies(y)
      BY <2>2 DEF Session, Relies
    <2>4. session' = [session EXCEPT ![w] = y] /\ UNCHANGED <<now, tables>>
      BY <1>2 DEF Begin
    <2> QED BY <2>3, <2>4, SessionStep
  <1>3. ASSUME NEW w \in Worker, Stamp(w)
        PROVE  RegisterInv'
    <2> DEFINE y == [phase |-> "Stamped", action |-> session[w].action,
                     key |-> session[w].key, at |-> now]
    <2>1. session[w] \in Dated
      BY <1>3, SessionPhase DEF RegisterInv, Stamp
    <2>2. y \in Stamped
      BY <2>1 DEF Dated, Stamped, RegisterInv, RegisterTypeOK
    <2>3. y \in Session /\ Relies(y)
      BY <2>2 DEF Session, Relies
    <2>4. session' = [session EXCEPT ![w] = y] /\ UNCHANGED <<now, tables>>
      BY <1>3 DEF Stamp
    <2> QED BY <2>3, <2>4, SessionStep
  <1>4. ASSUME NEW w \in Worker, Look(w)
        PROVE  RegisterInv'
    <2> DEFINE x == session[w]
    <2> DEFINE y == IF ~MayStamp(x) THEN Idle
                    ELSE [phase |-> "Found", action |-> x.action, key |-> x.key, at |-> x.at,
                          arrived |-> IF x.action = "CheckIn" THEN x.at
                                      ELSE attendance[x.key].check_in]
    <2>1. x \in Stamped
      BY <1>4, SessionPhase DEF RegisterInv, Look
    <2>2. /\ x.action \in Stamping /\ x.key \in Employee \X LocalDay /\ x.at \in Instant
      BY <2>1 DEF Stamped
    <2>3. y \in Session /\ Relies(y)
      <3>1. CASE ~MayStamp(x)
        BY <3>1 DEF Session, Relies, Idle
      <3>2. CASE MayStamp(x) /\ x.action = "CheckIn"
        BY <2>2, <3>2 DEF Session, FoundRow, Relies
      <3>3. CASE MayStamp(x) /\ x.action = "CheckOut"
        <4>1. x.key \in DOMAIN attendance
          BY <3>3 DEF MayStamp
        <4>2. attendance[x.key].check_in \in Instant
          BY <4>1 DEF RegisterInv, RegisterTypeOK, AttendanceRow
        <4> QED BY <2>2, <3>3, <4>1, <4>2 DEF Session, FoundRow, Relies
      <3> QED BY <2>2, <3>1, <3>2, <3>3 DEF Stamping
    <2>4. session' = [session EXCEPT ![w] = y] /\ UNCHANGED <<now, tables>>
      BY <1>4 DEF Look
    <2> QED BY <2>3, <2>4, SessionStep
  <1>5. ASSUME NEW w \in Worker, NEW e \in Employee, NEW year \in DutyYear, NumberDuty(w, e, year)
        PROVE  RegisterInv'
    <2> DEFINE y == [phase |-> "Numbered", owner |-> e, year |-> year,
                     number |-> NextDutyNumber(year)]
    <2>1. NextDutyNumber(year) \in Nat \ {0}
      <3>1. Cardinality(OfYear(year)) \in Nat
        BY DutiesOfYear DEF RegisterInv, RegisterTypeOK
      <3>2. NextDutyNumber(year) = Cardinality(OfYear(year)) + 1
        BY DEF NextDutyNumber, OfYear
      <3> QED BY <3>1, <3>2
    <2>2. y \in Numbered
      BY <2>1 DEF Numbered
    <2>3. y \in Session /\ Relies(y)
      BY <2>2 DEF Session, Relies
    <2>4. session' = [session EXCEPT ![w] = y] /\ UNCHANGED <<now, tables>>
      BY <1>5 DEF NumberDuty
    <2> QED BY <2>3, <2>4, SessionStep
  <1>6. ASSUME NEW w \in Worker, NEW i \in DOMAIN official_duties, NEW actor \in Employee,
               NEW decision \in Decision, NEW note \in Note \cup {None},
               ReadDuty(w, i, actor, decision, note)
        PROVE  RegisterInv'
    <2> DEFINE y == [phase |-> "Deciding", duty |-> i, actor |-> actor,
                     decision |-> decision, note |-> note]
    <2>1. i \in Nat
      BY DEF RegisterInv, RegisterTypeOK
    <2>2. y \in Deciding
      BY <1>6, <2>1 DEF Deciding, ReadDuty, MayDecideDuty
    <2>3. y \in Session /\ Relies(y)
      BY <1>6, <2>2 DEF Session, Relies, ReadDuty, MayDecideDuty
    <2>4. session' = [session EXCEPT ![w] = y] /\ UNCHANGED <<now, tables>>
      BY <1>6 DEF ReadDuty
    <2> QED BY <2>3, <2>4, SessionStep
  <1>7. ASSUME NEW w \in Worker, RollBack(w)
        PROVE  RegisterInv'
    <2>1. Idle \in Session /\ Relies(Idle)
      BY DEF Session, Relies, Idle
    <2>2. session' = [session EXCEPT ![w] = Idle] /\ UNCHANGED <<now, tables>>
      BY <1>7 DEF RollBack, Ends
    <2> QED BY <2>1, <2>2, SessionStep
  <1>8. CASE UNCHANGED registerVars
    <2>1. RegisterTypeOK'
      BY <1>8 DEF registerVars, tables, RegisterInv, RegisterTypeOK
    <2> QED BY <1>8, <2>1 DEF registerVars, tables, RegisterInv, Relies
  <1> QED BY <1>1, <1>2, <1>3, <1>4, <1>5, <1>6, <1>7, <1>8, StampStep, DutyStep, DecisionStep
          DEF Next, Stamping

\* The registers keep their types, and no row is without its audit trail.
THEOREM RegisterTypeTheorem == Spec => []RegisterTypeOK
  <1>1. RegisterInv => RegisterTypeOK
    BY DEF RegisterInv
  <1> QED BY <1>1, InitRegister, RegisterStep, PTL DEF Spec

-----------------------------------------------------------------------------
(***************************************************************************)
(* Attendance.                                                             *)
(***************************************************************************)

\* Whatever is not a commit of check_in or check_out leaves attendance alone.
LEMMA OtherSteps ==
    ASSUME [Next]_registerVars
    PROVE  \/ \E w \in Worker : CommitStamp(w) \/ CommitDuty(w) \/ CommitDecision(w)
           \/ UNCHANGED tables
  BY DEF Next, registerVars, tables, Tick, Begin, Stamp, Look, NumberDuty, ReadDuty, RollBack

\* One commit of a check-in or a check-out, seen from a row of the table.
LEMMA StampRow ==
    ASSUME RegisterInv, NEW w \in Worker, CommitStamp(w), NEW k \in DOMAIN attendance'
    PROVE  \/ /\ k \in DOMAIN attendance /\ attendance'[k] = attendance[k]
              /\ <<"Attendance", k>> \in DOMAIN audit_log
              /\ audit_log'[<<"Attendance", k>>] = audit_log[<<"Attendance", k>>]
           \/ /\ k \notin DOMAIN attendance
              /\ \E at \in Instant, e \in Employee :
                    /\ attendance'[k] = [check_in |-> at, check_out |-> None, total_hours |-> None,
                                         status |-> "Incomplete"]
                    /\ audit_log'[<<"Attendance", k>>] =
                         <<[action |-> "CheckIn", actor |-> e, at |-> at, note |-> None]>>
           \/ /\ k \in DOMAIN attendance
              /\ <<"Attendance", k>> \in DOMAIN audit_log
              /\ \E at \in Instant, e \in Employee :
                    /\ attendance'[k] = [attendance[k] EXCEPT !.check_out = at,
                            !.total_hours = at - attendance[k].check_in, !.status = "Present"]
                    /\ audit_log'[<<"Attendance", k>>] =
                         Append(audit_log[<<"Attendance", k>>],
                                [action |-> "CheckOut", actor |-> e, at |-> at, note |-> None])
  <1> DEFINE x == session[w]
  <1> DEFINE entry == [action |-> x.action, actor |-> x.key[1], at |-> x.at, note |-> None]
  <1>1. /\ x \in FoundRow /\ entry \in Entry
        /\ DOMAIN attendance' = DOMAIN attendance \cup {x.key}
        /\ \A i \in DOMAIN attendance : i # x.key => attendance'[i] = attendance[i]
        /\ x.action = "CheckIn" =>
             x.key \notin DOMAIN attendance /\ attendance'[x.key] = NewRow(x)
        /\ x.action = "CheckOut" =>
             x.key \in DOMAIN attendance /\ attendance'[x.key] = Leave(x)
        /\ Record(<<"Attendance", x.key>>, entry)
    BY StampWrites
  <1>2. /\ x.action \in Stamping /\ x.at \in Instant /\ x.key[1] \in Employee /\ x.phase = "Found"
    BY <1>1 DEF FoundRow
  <1>3. \A i : <<"Attendance", i>> \in DOMAIN audit_log <=> i \in DOMAIN attendance
    BY DEF RegisterInv, RegisterTypeOK
  <1>4. /\ \A i \in DOMAIN audit_log :
                i # <<"Attendance", x.key>> => audit_log'[i] = audit_log[i]
        /\ audit_log'[<<"Attendance", x.key>>] =
                IF <<"Attendance", x.key>> \in DOMAIN audit_log
                THEN Append(audit_log[<<"Attendance", x.key>>], entry) ELSE <<entry>>
    <2> HIDE DEF entry
    <2> QED BY <1>1, RecordEntry DEF RegisterInv
  <1>5. CASE k # x.key
    <2>1. k \in DOMAIN attendance /\ attendance'[k] = attendance[k]
      BY <1>1, <1>5
    <2>2. <<"Attendance", k>> \in DOMAIN audit_log /\ <<"Attendance", k>> # <<"Attendance", x.key>>
      BY <1>3, <1>5, <2>1
    <2> QED BY <1>4, <2>1, <2>2
  <1>6. CASE k = x.key /\ x.action = "CheckIn"
    <2>1. k \notin DOMAIN attendance /\ attendance'[k] = NewRow(x)
      BY <1>1, <1>6
    <2>2. audit_log'[<<"Attendance", k>>] = <<entry>>
      BY <1>3, <1>4, <1>6, <2>1
    <2> QED BY <1>2, <1>6, <2>1, <2>2 DEF NewRow
  <1>7. CASE k = x.key /\ x.action = "CheckOut"
    <2>1. k \in DOMAIN attendance /\ attendance'[k] = Leave(x)
      BY <1>1, <1>7
    <2>2. x.arrived = attendance[k].check_in
      BY <1>2, <1>7 DEF RegisterInv, Relies
    <2>3. <<"Attendance", k>> \in DOMAIN audit_log
      BY <1>3, <2>1
    <2>4. audit_log'[<<"Attendance", k>>] = Append(audit_log[<<"Attendance", k>>], entry)
      BY <1>4, <1>7, <2>3
    <2>5. Leave(x) = [attendance[k] EXCEPT !.check_out = x.at,
                            !.total_hours = x.at - attendance[k].check_in, !.status = "Present"]
      BY <1>7, <2>2 DEF Leave
    <2>6. attendance'[k] = [attendance[k] EXCEPT !.check_out = x.at,
                            !.total_hours = x.at - attendance[k].check_in, !.status = "Present"]
      BY <2>1, <2>5
    <2>7. audit_log'[<<"Attendance", k>>] =
            Append(audit_log[<<"Attendance", k>>],
                   [action |-> "CheckOut", actor |-> x.key[1], at |-> x.at, note |-> None])
      BY <1>7, <2>4
    <2> QED BY ONLY <1>2, <2>1, <2>3, <2>6, <2>7, Zenon
  <1> QED BY <1>2, <1>5, <1>6, <1>7 DEF Stamping

\* A check-out computes with the check-in that is still in the row.
LEMMA HoursStep == RegisterInv /\ HoursAgree /\ [Next]_registerVars => HoursAgree'
  <1> SUFFICES ASSUME RegisterInv, HoursAgree, [Next]_registerVars PROVE HoursAgree'
    OBVIOUS
  <1>1. CASE UNCHANGED attendance
    BY <1>1 DEF HoursAgree
  <1>2. ASSUME NEW w \in Worker, CommitStamp(w)
        PROVE  HoursAgree'
    <2> SUFFICES ASSUME NEW k \in DOMAIN attendance'
                 PROVE  IF attendance'[k].status = "Present"
                        THEN /\ attendance'[k].check_out # None
                             /\ attendance'[k].total_hours =
                                    attendance'[k].check_out - attendance'[k].check_in
                        ELSE attendance'[k].check_out = None /\ attendance'[k].total_hours = None
      BY DEF HoursAgree
    <2>1. CASE k \in DOMAIN attendance /\ attendance'[k] = attendance[k]
      BY <2>1 DEF HoursAgree
    <2>2. CASE \E at : attendance'[k] =
                    [check_in |-> at, check_out |-> None, total_hours |-> None, status |-> "Incomplete"]
      BY <2>2
    <2>3. ASSUME NEW at \in Instant, k \in DOMAIN attendance,
                 attendance'[k] = [attendance[k] EXCEPT !.check_out = at,
                            !.total_hours = at - attendance[k].check_in, !.status = "Present"]
          PROVE  /\ attendance'[k].status = "Present" /\ attendance'[k].check_out # None
                 /\ attendance'[k].total_hours = attendance'[k].check_out - attendance'[k].check_in
      <3>1. attendance[k] \in AttendanceRow
        BY <2>3 DEF RegisterInv, RegisterTypeOK
      <3>2. at # None
        BY RegisterAssumption DEF Instant
      <3> QED BY <2>3, <3>1, <3>2 DEF AttendanceRow
    <2> QED BY <1>2, <2>1, <2>2, <2>3, StampRow
  <1>3. ASSUME NEW w \in Worker, CommitDuty(w) \/ CommitDecision(w)
        PROVE  UNCHANGED attendance
    BY <1>3 DEF CommitDuty, CommitDecision
  <1> QED BY <1>1, <1>2, <1>3, OtherSteps DEF tables

\* The hours logged agree with the stamps, whatever check-outs race.
THEOREM HoursAgreeTheorem == Spec => []HoursAgree
  <1>1. Init => HoursAgree
    BY DEF Init, HoursAgree
  <1> QED BY <1>1, InitRegister, RegisterStep, HoursStep, PTL DEF Spec

\* A trail is never empty: with AttendanceAudited, what a next entry extends.
TrailsBegun == \A k \in DOMAIN audit_log : Len(audit_log[k]) > 0

\* What appending an entry to a trail, or starting one, gives.
LEMMA AppendedTrail ==
    ASSUME NEW trail \in Seq(Entry), NEW entry \in Entry
    PROVE  /\ Len(Append(trail, entry)) = Len(trail) + 1
           /\ Len(trail) \in Nat
           /\ Append(trail, entry)[Len(trail) + 1] = entry
           /\ \A i \in 1..Len(trail) : Append(trail, entry)[i] = trail[i]
           /\ Len(<<entry>>) = 1 /\ <<entry>>[1] = entry
  OBVIOUS

\* No trail is ever emptied.
LEMMA TrailsStep == RegisterInv /\ TrailsBegun /\ [Next]_registerVars => TrailsBegun'
  <1> SUFFICES ASSUME RegisterInv, TrailsBegun, [Next]_registerVars PROVE TrailsBegun'
    OBVIOUS
  <1>1. CASE UNCHANGED tables
    BY <1>1 DEF tables, TrailsBegun
  <1>2. ASSUME NEW entity, NEW entry \in Entry, Record(entity, entry)
        PROVE  TrailsBegun'
    <2> SUFFICES ASSUME NEW k \in DOMAIN audit_log' PROVE Len(audit_log'[k]) > 0
      BY DEF TrailsBegun
    <2>1. /\ DOMAIN audit_log' = DOMAIN audit_log \cup {entity}
          /\ \A i \in DOMAIN audit_log : i # entity => audit_log'[i] = audit_log[i]
          /\ audit_log'[entity] = IF entity \in DOMAIN audit_log
                                  THEN Append(audit_log[entity], entry) ELSE <<entry>>
      BY <1>2, RecordEntry DEF RegisterInv
    <2>2. \A i \in DOMAIN audit_log : audit_log[i] \in Seq(Entry)
      BY DEF RegisterInv, RegisterTypeOK
    <2>3. CASE k # entity
      BY <2>1, <2>3 DEF TrailsBegun
    <2>4. CASE k = entity /\ k \in DOMAIN audit_log
      BY <2>1, <2>2, <2>4, AppendedTrail
    <2>5. CASE k = entity /\ k \notin DOMAIN audit_log
      BY <2>1, <2>5
    <2> QED BY <2>3, <2>4, <2>5
  <1>3. ASSUME NEW w \in Worker, CommitStamp(w)
        PROVE  \E entity : \E entry \in Entry : Record(entity, entry)
    BY <1>3, StampWrites
  <1>4. ASSUME NEW w \in Worker, CommitDuty(w)
        PROVE  \E entity : \E entry \in Entry : Record(entity, entry)
    BY <1>4, DutyWrites
  <1>5. ASSUME NEW w \in Worker, CommitDecision(w)
        PROVE  \E entity : \E entry \in Entry : Record(entity, entry)
    BY <1>5, DecisionWrites
  <1> QED BY <1>1, <1>2, <1>3, <1>4, <1>5, OtherSteps

\* The entry and the row are written by the same commit.
LEMMA AuditedStep ==
    RegisterInv /\ TrailsBegun /\ AttendanceAudited /\ [Next]_registerVars => AttendanceAudited'
  <1> SUFFICES ASSUME RegisterInv, TrailsBegun, AttendanceAudited, [Next]_registerVars,
                      NEW k \in DOMAIN attendance'
               PROVE  LET trail == audit_log'[<<"Attendance", k>>]
                          row == attendance'[k]
                      IN  /\ trail[1].action = "CheckIn" /\ trail[1].at = row.check_in
                          /\ \A i \in 2..Len(trail) : trail[i].action = "CheckOut"
                          /\ row.check_out = IF Len(trail) = 1 THEN None ELSE trail[Len(trail)].at
    BY DEF AttendanceAudited
  <1> DEFINE entity == <<"Attendance", k>>
  <1>1. CASE /\ k \in DOMAIN attendance /\ attendance'[k] = attendance[k]
             /\ audit_log'[entity] = audit_log[entity]
    BY <1>1 DEF AttendanceAudited
  <1>2. ASSUME NEW at \in Instant, NEW e \in Employee,
               attendance'[k] = [check_in |-> at, check_out |-> None, total_hours |-> None,
                                 status |-> "Incomplete"],
               audit_log'[entity] = <<[action |-> "CheckIn", actor |-> e, at |-> at, note |-> None]>>
        PROVE  /\ audit_log'[entity][1].action = "CheckIn"
               /\ audit_log'[entity][1].at = attendance'[k].check_in
               /\ Len(audit_log'[entity]) = 1
               /\ attendance'[k].check_out = None
    BY <1>2
  <1>3. ASSUME NEW at \in Instant, NEW e \in Employee, k \in DOMAIN attendance,
               entity \in DOMAIN audit_log,
               attendance'[k] = [attendance[k] EXCEPT !.check_out = at,
                            !.total_hours = at - attendance[k].check_in, !.status = "Present"],
               audit_log'[entity] = Append(audit_log[entity],
                            [action |-> "CheckOut", actor |-> e, at |-> at, note |-> None])
        PROVE  /\ audit_log'[entity][1].action = "CheckIn"
               /\ audit_log'[entity][1].at = attendance'[k].check_in
               /\ \A i \in 2..Len(audit_log'[entity]) : audit_log'[entity][i].action = "CheckOut"
               /\ Len(audit_log'[entity]) # 1
               /\ attendance'[k].check_out = audit_log'[entity][Len(audit_log'[entity])].at
    <2> DEFINE trail == audit_log[entity]
    <2> DEFINE entry == [action |-> "CheckOut", actor |-> e, at |-> at, note |-> None]
    <2>1. entry \in Entry
      BY DEF Entry
    <2>2. trail \in Seq(Entry) /\ Len(trail) > 0
      BY <1>3 DEF RegisterInv, RegisterTypeOK, TrailsBegun
    <2>3. entry.action = "CheckOut" /\ entry.at = at
      OBVIOUS
    <2>4. /\ trail[1].action = "CheckIn" /\ trail[1].at = attendance[k].check_in
          /\ \A i \in 2..Len(trail) : trail[i].action = "CheckOut"
      BY <1>3 DEF AttendanceAudited
    <2>5. attendance'[k].check_in = attendance[k].check_in /\ attendance'[k].check_out = at
      <3>1. attendance[k] \in AttendanceRow
        BY <1>3 DEF RegisterInv, RegisterTypeOK
      <3> QED BY <1>3, <3>1 DEF AttendanceRow
    <2>6. audit_log'[entity] = Append(trail, entry)
      BY <1>3
    <2> HIDE DEF trail, entry, entity
    <2>7. /\ Len(Append(trail, entry)) = Len(trail) + 1
          /\ Len(trail) \in Nat
          /\ Append(trail, entry)[Len(trail) + 1] = entry
          /\ \A i \in 1..Len(trail) : Append(trail, entry)[i] = trail[i]
      BY <2>1, <2>2, AppendedTrail
    <2> QED BY <2>2, <2>3, <2>4, <2>5, <2>6, <2>7
  <1>4. CASE UNCHANGED tables
    BY <1>1, <1>4 DEF tables
  <1>5. ASSUME NEW w \in Worker, CommitDuty(w) \/ CommitDecision(w)
        PROVE  /\ k \in DOMAIN attendance /\ attendance'[k] = attendance[k]
               /\ audit_log'[entity] = audit_log[entity]
    <2>1. UNCHANGED attendance
      BY <1>5 DEF CommitDuty, CommitDecision
    <2>2. entity \in DOMAIN audit_log
      BY <2>1 DEF RegisterInv, RegisterTypeOK
    <2>3. \E key : \E entry \in Entry : Record(<<"OfficialDuty", key>>, entry)
      <3>1. CASE CommitDuty(w)
        BY <3>1, DutyWrites
      <3>2. CASE CommitDecision(w)
        BY <3>2, DecisionWrites DEF DutyEntity
      <3> QED BY <1>5, <3>1, <3>2
    <2>4. PICK key : \E entry \in Entry : Record(<<"OfficialDuty", key>>, entry)
      BY <2>3
    <2>5. entity # <<"OfficialDuty", key>>
      OBVIOUS
    <2>6. audit_log'[entity] = audit_log[entity]
      BY <2>2, <2>4, <2>5, RecordEntry DEF RegisterInv
    <2> QED BY <2>1, <2>6
  <1>6. ASSUME NEW w \in Worker, CommitStamp(w)
        PROVE  \/ /\ k \in DOMAIN attendance /\ attendance'[k] = attendance[k]
                  /\ audit_log'[entity] = audit_log[entity]
               \/ /\ audit_log'[entity][1].action = "CheckIn"
                  /\ audit_log'[entity][1].at = attendance'[k].check_in
                  /\ \A i \in 2..Len(audit_log'[entity]) : audit_log'[entity][i].action = "CheckOut"
                  /\ attendance'[k].check_out = IF Len(audit_log'[entity]) = 1 THEN None
                                        ELSE audit_log'[entity][Len(audit_log'[entity])].at
    <2>1. \/ /\ k \in DOMAIN attendance /\ attendance'[k] = attendance[k]
             /\ audit_log'[entity] = audit_log[entity]
          \/ \E at \in Instant : \E e \in Employee :
                /\ attendance'[k] = [check_in |-> at, check_out |-> None,
                                     total_hours |-> None, status |-> "Incomplete"]
                /\ audit_log'[entity] = <<[action |-> "CheckIn", actor |-> e, at |-> at,
                                          note |-> None]>>
          \/ \E at \in Instant : \E e \in Employee :
                /\ k \in DOMAIN attendance /\ entity \in DOMAIN audit_log
                /\ attendance'[k] = [attendance[k] EXCEPT !.check_out = at,
                            !.total_hours = at - attendance[k].check_in, !.status = "Present"]
                /\ audit_log'[entity] = Append(audit_log[entity],
                            [action |-> "CheckOut", actor |-> e, at |-> at, note |-> None])
      BY <1>6, StampRow, Zenon
    <2>2. CASE \E at \in Instant : \E e \in Employee :
                /\ attendance'[k] = [check_in |-> at, check_out |-> None,
                                     total_hours |-> None, status |-> "Incomplete"]
                /\ audit_log'[entity] = <<[action |-> "CheckIn", actor |-> e, at |-> at,
                                          note |-> None]>>
      <3>1. /\ audit_log'[entity][1].action = "CheckIn"
            /\ audit_log'[entity][1].at = attendance'[k].check_in
            /\ Len(audit_log'[entity]) = 1
            /\ attendance'[k].check_out = None
        BY <1>2, <2>2
      <3> HIDE DEF entity
      <3> QED BY <3>1
    <2>3. CASE \E at \in Instant : \E e \in Employee :
                /\ k \in DOMAIN attendance /\ entity \in DOMAIN audit_log
                /\ attendance'[k] = [attendance[k] EXCEPT !.check_out = at,
                            !.total_hours = at - attendance[k].check_in, !.status = "Present"]
                /\ audit_log'[entity] = Append(audit_log[entity],
                            [action |-> "CheckOut", actor |-> e, at |-> at, note |-> None])
      <3>1. /\ audit_log'[entity][1].action = "CheckIn"
            /\ audit_log'[entity][1].at = attendance'[k].check_in
            /\ \A i \in 2..Len(audit_log'[entity]) : audit_log'[entity][i].action = "CheckOut"
            /\ Len(audit_log'[entity]) # 1
            /\ attendance'[k].check_out = audit_log'[entity][Len(audit_log'[entity])].at
        <4> HIDE DEF entity
        <4> QED BY <1>3, <2>3, Zenon
      <3> HIDE DEF entity
      <3> QED BY <3>1
    <2> QED BY <2>1, <2>2, <2>3
  <1> QED BY <1>1, <1>4, <1>5, <1>6, OtherSteps

\* The trail of a day tells its row.
THEOREM AttendanceAuditedTheorem == Spec => []AttendanceAudited
  <1>1. Init => TrailsBegun /\ AttendanceAudited
    BY DEF Init, TrailsBegun, AttendanceAudited
  <1> QED BY <1>1, InitRegister, RegisterStep, TrailsStep, AuditedStep, PTL DEF Spec

\* Whoever checked in first stays, and a completed day stays complete.
THEOREM FirstCheckInTheorem == Spec => FirstCheckInStands
  <1> DEFINE Stands == \A k \in DOMAIN attendance :
        /\ k \in DOMAIN attendance'
        /\ attendance'[k].check_in = attendance[k].check_in
        /\ attendance[k].status = "Present" => attendance'[k].status = "Present"
  <1>1. RegisterInv /\ [Next]_registerVars => [Stands]_registerVars
    <2> SUFFICES ASSUME RegisterInv, [Next]_registerVars, NEW k \in DOMAIN attendance
                 PROVE  /\ k \in DOMAIN attendance'
                        /\ attendance'[k].check_in = attendance[k].check_in
                        /\ attendance[k].status = "Present" => attendance'[k].status = "Present"
      OBVIOUS
    <2>1. CASE UNCHANGED attendance
      BY <2>1
    <2>2. ASSUME NEW w \in Worker, CommitStamp(w)
          PROVE  /\ k \in DOMAIN attendance'
                 /\ attendance'[k].check_in = attendance[k].check_in
                 /\ attendance[k].status = "Present" => attendance'[k].status = "Present"
      <3>1. k \in DOMAIN attendance'
        BY <2>2, StampWrites
      <3>2. attendance[k] \in AttendanceRow
        BY DEF RegisterInv, RegisterTypeOK
      <3>3. \/ attendance'[k] = attendance[k]
            \/ \E at \in Instant : attendance'[k] = [attendance[k] EXCEPT !.check_out = at,
                            !.total_hours = at - attendance[k].check_in, !.status = "Present"]
        BY <2>2, <3>1, StampRow, Zenon
      <3> QED BY <3>1, <3>2, <3>3 DEF AttendanceRow
    <2>3. ASSUME NEW w \in Worker, CommitDuty(w) \/ CommitDecision(w)
          PROVE  UNCHANGED attendance
      BY <2>3 DEF CommitDuty, CommitDecision
    <2> QED BY <2>1, <2>2, <2>3, OtherSteps DEF tables
  <1> QED BY <1>1, InitRegister, RegisterStep, PTL DEF Spec, FirstCheckInStands

-----------------------------------------------------------------------------
(***************************************************************************)
(* Official duties.                                                        *)
(***************************************************************************)

\* What a session counted was the truth then, and keys are only added.
DenseInv ==
    /\ \A y \in DutyYear :
            {official_duties[i].number : i \in OfYear(y)} = 1..Cardinality(OfYear(y))
    /\ \A w \in Worker, y \in DutyYear :
            session[w].phase = "Numbered" /\ session[w].year = y =>
                session[w].number <= Cardinality(OfYear(y)) + 1

\* A number is either held since the step before or counted in this one.
LEMMA NumberedSession ==
    ASSUME RegisterInv, [Next]_registerVars, NEW w \in Worker, session'[w].phase = "Numbered"
    PROVE  \/ session'[w] = session[w]
           \/ UNCHANGED tables /\ session'[w].number = NextDutyNumber(session'[w].year)
  <1>1. CASE UNCHANGED session
    BY <1>1
  <1>2. ASSUME NEW v \in Worker, NEW y, y.phase # "Numbered",
               session' = [session EXCEPT ![v] = y]
        PROVE  session'[w] = session[w]
    BY <1>2 DEF RegisterInv
  <1>3. ASSUME NEW v \in Worker, NEW e \in Employee, NEW y \in DutyYear, NumberDuty(v, e, y)
        PROVE  \/ session'[w] = session[w]
               \/ UNCHANGED tables /\ session'[w].number = NextDutyNumber(session'[w].year)
    BY <1>3 DEF NumberDuty, RegisterInv
  <1>4. ASSUME NEW v \in Worker, Ends(v)
        PROVE  session'[w] = session[w]
    BY <1>2, <1>4 DEF Ends, Idle
  <1>5. ASSUME NEW v \in Worker, Look(v)
        PROVE  session'[w] = session[w]
    <2> DEFINE x == session[v]
    <2> DEFINE y == IF ~MayStamp(x) THEN Idle
                    ELSE [phase |-> "Found", action |-> x.action, key |-> x.key, at |-> x.at,
                          arrived |-> IF x.action = "CheckIn" THEN x.at
                                      ELSE attendance[x.key].check_in]
    <2>1. y.phase # "Numbered"
      BY DEF Idle
    <2>2. session' = [session EXCEPT ![v] = y]
      BY <1>5 DEF Look
    <2> QED BY <1>2, <2>1, <2>2
  <1>6. ASSUME NEW v \in Worker, NEW e \in Employee, NEW action \in Stamping, Begin(v, e, action)
        PROVE  session'[w] = session[w]
    BY <1>2, <1>6 DEF Begin
  <1>7. ASSUME NEW v \in Worker, Stamp(v)
        PROVE  session'[w] = session[w]
    BY <1>2, <1>7 DEF Stamp
  <1>8. ASSUME NEW v \in Worker, NEW i \in DOMAIN official_duties, NEW actor \in Employee,
               NEW decision \in Decision, NEW note \in Note \cup {None},
               ReadDuty(v, i, actor, decision, note)
        PROVE  session'[w] = session[w]
    BY <1>2, <1>8 DEF ReadDuty
  <1>9. ASSUME NEW v \in Worker,
               CommitStamp(v) \/ CommitDuty(v) \/ CommitDecision(v) \/ RollBack(v)
        PROVE  Ends(v)
    BY <1>9 DEF CommitStamp, CommitDuty, CommitDecision, RollBack
  <1> QED BY <1>1, <1>3, <1>4, <1>5, <1>6, <1>7, <1>8, <1>9
          DEF Next, Tick, registerVars, Stamping

\* The duties of a year after a duty is committed.
LEMMA DutyAdded ==
    ASSUME RegisterInv, NEW w \in Worker, CommitDuty(w), NEW y
    PROVE  LET new == Len(official_duties) + 1 IN
           /\ new \notin OfYear(y)
           /\ OfYear(y)' = IF y = session[w].year THEN OfYear(y) \cup {new} ELSE OfYear(y)
           /\ Cardinality(OfYear(y)') =
                Cardinality(OfYear(y)) + IF y = session[w].year THEN 1 ELSE 0
  <1> DEFINE new == Len(official_duties) + 1
  <1>1. /\ DOMAIN official_duties' = DOMAIN official_duties \cup {new}
        /\ new \notin DOMAIN official_duties
        /\ \A i \in DOMAIN official_duties : official_duties'[i] = official_duties[i]
    BY DutyWrites
  <1>2. official_duties'[new].duty_year = session[w].year
    <2>1. official_duties'[new] =
            [owner |-> session[w].owner, duty_year |-> session[w].year,
             number |-> session[w].number, status |-> "Pending", approved_by |-> None,
             decision_note |-> None]
      BY DutyWrites
    <2> QED BY <2>1
  <1> HIDE DEF new
  <1>3. new \notin OfYear(y)
    BY <1>1 DEF OfYear
  <1>4. OfYear(y)' = IF y = session[w].year THEN OfYear(y) \cup {new} ELSE OfYear(y)
    BY <1>1, <1>2 DEF OfYear
  <1>5. IsFiniteSet(OfYear(y)) /\ Cardinality(OfYear(y)) \in Nat
    BY DutiesOfYear DEF RegisterInv, RegisterTypeOK
  <1>6. Cardinality(OfYear(y) \cup {new}) = Cardinality(OfYear(y)) + 1
    BY <1>3, <1>5, FS_AddElement
  <1> QED BY <1>3, <1>4, <1>5, <1>6 DEF new

\* A number that is still free at the commit is the next one.
LEMMA NextIsTaken ==
    ASSUME RegisterInv, DenseInv, NEW w \in Worker, CommitDuty(w)
    PROVE  session[w].number = Cardinality(OfYear(session[w].year)) + 1
  <1> DEFINE x == session[w]
  <1> DEFINE numbers == {official_duties[i].number : i \in OfYear(x.year)}
  <1>1. x \in Numbered /\ ~IsIssued(x.year, x.number)
    BY DutyWrites
  <1>2. x.phase = "Numbered" /\ x.year \in DutyYear /\ x.number \in Nat \ {0}
    BY <1>1 DEF Numbered
  <1>3. x.number <= Cardinality(OfYear(x.year)) + 1
    BY <1>2 DEF DenseInv
  <1>4. x.number \notin numbers
    BY <1>1 DEF IsIssued, OfYear
  <1>5. numbers = 1..Cardinality(OfYear(x.year))
    BY <1>2 DEF DenseInv
  <1>6. Cardinality(OfYear(x.year)) \in Nat
    BY DutiesOfYear DEF RegisterInv, RegisterTypeOK
  <1> HIDE DEF numbers
  <1> QED BY <1>2, <1>3, <1>4, <1>5, <1>6

\* Keys stay dense.
LEMMA DenseStep == RegisterInv /\ DenseInv /\ [Next]_registerVars => DenseInv'
  <1> SUFFICES ASSUME RegisterInv, DenseInv, [Next]_registerVars PROVE DenseInv'
    OBVIOUS
  <1> DEFINE Numbers(y) == {official_duties[i].number : i \in OfYear(y)}
  <1>1. \A y : Cardinality(OfYear(y)) \in Nat
    BY DutiesOfYear DEF RegisterInv, RegisterTypeOK
  <1>2. ASSUME \A y : OfYear(y)' = OfYear(y),
               \A y \in DutyYear : Numbers(y)' = Numbers(y)
        PROVE  DenseInv'
    <2>1. ASSUME NEW w \in Worker, NEW y \in DutyYear,
                 session'[w].phase = "Numbered", session'[w].year = y
          PROVE  session'[w].number <= Cardinality(OfYear(y)) + 1
      <3>1. CASE session'[w] = session[w]
        BY <2>1, <3>1 DEF DenseInv
      <3>2. CASE session'[w].number = NextDutyNumber(y)
        <4>1. session'[w].number = Cardinality(OfYear(y)) + 1
          BY <3>2 DEF NextDutyNumber, OfYear
        <4> QED BY <1>1, <4>1
      <3> QED BY <2>1, <3>1, <3>2, NumberedSession
    <2>2. \A w \in Worker, y \in DutyYear :
            session'[w].phase = "Numbered" /\ session'[w].year = y =>
                session'[w].number <= Cardinality(OfYear(y)') + 1
      BY <1>2, <2>1
    <2>3. \A y \in DutyYear : Numbers(y)' = 1..Cardinality(OfYear(y)')
      BY <1>2 DEF DenseInv
    <2> QED BY <2>2, <2>3 DEF DenseInv
  <1>3. CASE UNCHANGED official_duties
    <2>1. \A y : OfYear(y)' = OfYear(y) /\ Numbers(y)' = Numbers(y)
      BY <1>3 DEF OfYear
    <2> QED BY <1>2, <2>1
  <1>4. ASSUME NEW w \in Worker, CommitDecision(w)
        PROVE  DenseInv'
    <2>1. /\ DOMAIN official_duties' = DOMAIN official_duties
          /\ \A i \in DOMAIN official_duties :
                /\ official_duties'[i].duty_year = official_duties[i].duty_year
                /\ official_duties'[i].number = official_duties[i].number
      BY <1>4, DecisionKeeps
    <2>2. \A y : OfYear(y)' = OfYear(y)
      BY <2>1 DEF OfYear
    <2>3. \A y : Numbers(y)' = Numbers(y)
      BY <2>1, <2>2 DEF OfYear
    <2> QED BY <1>2, <2>2, <2>3
  <1>5. ASSUME NEW w \in Worker, CommitDuty(w)
        PROVE  DenseInv'
    <2> DEFINE x == session[w]
    <2> DEFINE new == Len(official_duties) + 1
    <2>1. /\ x \in Numbered /\ ~IsIssued(x.year, x.number)
          /\ \A i \in DOMAIN official_duties : official_duties'[i] = official_duties[i]
      BY <1>5, DutyWrites
    <2>2. official_duties'[new].number = x.number
      <3>1. official_duties'[new] =
            [owner |-> x.owner, duty_year |-> x.year, number |-> x.number,
             status |-> "Pending", approved_by |-> None, decision_note |-> None]
        BY <1>5, DutyWrites
      <3> QED BY <3>1
    <2>3. /\ x.phase = "Numbered" /\ x.year \in DutyYear /\ x.number \in Nat \ {0}
      BY <2>1 DEF Numbered
    <2>4. x.number = Cardinality(OfYear(x.year)) + 1
      BY <1>5, NextIsTaken
    <2>5. ASSUME NEW y \in DutyYear
          PROVE  Numbers(y)' = 1..Cardinality(OfYear(y)')
      <3>1. Numbers(y) = 1..Cardinality(OfYear(y)) /\ Cardinality(OfYear(y)) \in Nat
        BY <1>1 DEF DenseInv
      <3>2. CASE y = x.year
        <4>1. /\ OfYear(y)' = OfYear(y) \cup {new}
              /\ Cardinality(OfYear(y)') = Cardinality(OfYear(y)) + 1
          BY <1>5, <3>2, DutyAdded
        <4>2. Numbers(y)' = Numbers(y) \cup {x.number}
          <5> HIDE DEF x, new
          <5> QED BY <2>1, <2>2, <4>1 DEF OfYear
        <4> HIDE DEF Numbers
        <4> QED BY <2>4, <3>1, <3>2, <4>1, <4>2
      <3>3. CASE y # x.year
        <4>1. /\ OfYear(y)' = OfYear(y)
              /\ Cardinality(OfYear(y)') = Cardinality(OfYear(y))
          BY <1>1, <1>5, <3>3, DutyAdded
        <4>2. Numbers(y)' = Numbers(y)
          BY <2>1, <4>1 DEF OfYear
        <4> QED BY <3>1, <4>1, <4>2
      <3> QED BY <3>2, <3>3
    <2>6. ASSUME NEW v \in Worker, NEW y \in DutyYear,
                 session'[v].phase = "Numbered", session'[v].year = y
          PROVE  session'[v].number <= Cardinality(OfYear(y)') + 1
      <3>1. session'[v] = session[v]
        <4>1. ~UNCHANGED tables
          <5>1. official_duties' # official_duties
            BY <1>5, DutyWrites
          <5> QED BY <5>1 DEF tables
        <4> QED BY <2>6, <4>1, NumberedSession
      <3>2. session'[v].number <= Cardinality(OfYear(y)) + 1
        BY <2>6, <3>1 DEF DenseInv
      <3>3. /\ Cardinality(OfYear(y)') = Cardinality(OfYear(y)) + IF y = x.year THEN 1 ELSE 0
            /\ Cardinality(OfYear(y)) \in Nat
        BY <1>1, <1>5, DutyAdded
      <3>4. session'[v].number \in Nat
        BY <2>6, <3>1, SessionPhase DEF RegisterInv, Numbered
      <3> QED BY <3>2, <3>3, <3>4
    <2> QED BY <2>5, <2>6 DEF DenseInv
  <1>6. ASSUME NEW w \in Worker, CommitStamp(w)
        PROVE  UNCHANGED official_duties
    BY <1>6 DEF CommitStamp
  <1> QED BY <1>3, <1>4, <1>5, <1>6, OtherSteps DEF tables

\* Nothing is numbered at first.
LEMMA InitDense == Init => DenseInv
  <1> SUFFICES ASSUME Init PROVE DenseInv
    OBVIOUS
  <1>1. \A y : OfYear(y) = {}
    BY DEF Init, OfYear
  <1>2. Cardinality({}) = 0 /\ 1..0 = {}
    BY FS_EmptySet
  <1> QED BY <1>1, <1>2 DEF Init, DenseInv, Idle

\* The keys of a year are 1, 2, ... without gap or twin, whatever submissions
\* race, repeat or are rolled back.
THEOREM DutyKeysTheorem == Spec => []DutyKeysDense
  <1>1. DenseInv => DutyKeysDense
    BY DEF DenseInv, DutyKeysDense, OfYear
  <1> QED BY <1>1, InitDense, InitRegister, RegisterStep, DenseStep, PTL DEF Spec

\* No two duties share a key, hence a trail.
KeysApart ==
    \A i, j \in DOMAIN official_duties :
        official_duties[i].duty_year = official_duties[j].duty_year
        /\ official_duties[i].number = official_duties[j].number => i = j

\* A key in use is refused, and no decision changes one.
LEMMA KeysApartStep == RegisterInv /\ KeysApart /\ [Next]_registerVars => KeysApart'
  <1> SUFFICES ASSUME RegisterInv, KeysApart, [Next]_registerVars PROVE KeysApart'
    OBVIOUS
  <1>1. CASE UNCHANGED official_duties
    BY <1>1 DEF KeysApart
  <1>2. ASSUME NEW w \in Worker, CommitDecision(w)
        PROVE  KeysApart'
    <2>1. /\ DOMAIN official_duties' = DOMAIN official_duties
          /\ \A i \in DOMAIN official_duties :
                /\ official_duties'[i].duty_year = official_duties[i].duty_year
                /\ official_duties'[i].number = official_duties[i].number
      BY <1>2, DecisionKeeps
    <2> QED BY <2>1 DEF KeysApart
  <1>3. ASSUME NEW w \in Worker, CommitDuty(w)
        PROVE  KeysApart'
    <2> DEFINE x == session[w]
    <2> DEFINE new == Len(official_duties) + 1
    <2>1. /\ ~IsIssued(x.year, x.number)
          /\ DOMAIN official_duties' = DOMAIN official_duties \cup {new}
          /\ \A i \in DOMAIN official_duties : official_duties'[i] = official_duties[i]
      BY <1>3, DutyWrites
    <2>2. official_duties'[new].duty_year = x.year /\ official_duties'[new].number = x.number
      <3>1. official_duties'[new] =
            [owner |-> x.owner, duty_year |-> x.year, number |-> x.number,
             status |-> "Pending", approved_by |-> None, decision_note |-> None]
        BY <1>3, DutyWrites
      <3> QED BY <3>1
    <2> HIDE DEF x, new
    <2> QED BY <2>1, <2>2 DEF KeysApart, IsIssued
  <1>4. ASSUME NEW w \in Worker, CommitStamp(w)
        PROVE  UNCHANGED official_duties
    BY <1>4 DEF CommitStamp
  <1> QED BY <1>1, <1>2, <1>3, <1>4, OtherSteps DEF tables

\* What DutyVerdictStands says of one duty and its trail.
Verdict(duty, trail) ==
    IF duty.status = "Pending" THEN Len(trail) = 1 /\ duty.approved_by = None
    ELSE /\ trail[Len(trail)].action = duty.status
         /\ trail[Len(trail)].actor = duty.approved_by
         /\ duty.status = "Rejected" =>
                duty.decision_note = trail[Len(trail)].note /\ trail[Len(trail)].note # None

\* The trail of a duty that a step does not record about.
LEMMA TrailKept ==
    ASSUME RegisterInv, NEW i \in DOMAIN official_duties,
           NEW entity, NEW entry \in Entry, Record(entity, entry), entity # DutyEntity(i)
    PROVE  audit_log'[DutyEntity(i)] = audit_log[DutyEntity(i)]
  <1>1. DutyEntity(i) \in DOMAIN audit_log
    BY DEF DutyEntity, RegisterInv, RegisterTypeOK
  <1>2. \A k \in DOMAIN audit_log : k # entity => audit_log'[k] = audit_log[k]
    BY RecordEntry DEF RegisterInv
  <1> QED BY <1>1, <1>2, Zenon

\* A duty whose row and trail a step leaves alone keeps its verdict.
LEMMA VerdictKept ==
    ASSUME RegisterInv, DutyVerdictStands, NEW i \in DOMAIN official_duties,
           official_duties'[i] = official_duties[i], NEW entity, NEW entry \in Entry,
           Record(entity, entry), entity # DutyEntity(i)
    PROVE  Verdict(official_duties[i], audit_log[DutyEntity(i)])'
  <1>1. DutyEntity(i)' = DutyEntity(i)
    BY DEF DutyEntity
  <1>2. Verdict(official_duties[i], audit_log[DutyEntity(i)])
    BY DEF DutyVerdictStands, Verdict, DutyEntity
  <1>3. /\ (official_duties[i])' = official_duties[i]
        /\ (audit_log[DutyEntity(i)])' = audit_log[DutyEntity(i)]
    BY <1>1, TrailKept
  <1> QED BY <1>2, <1>3 DEF Verdict

\* A decision writes the row and the end of its trail alike.
LEMMA VerdictStep ==
    /\ RegisterInv /\ TrailsBegun /\ KeysApart
    /\ DutyVerdictStands
    /\ [Next]_registerVars
    => DutyVerdictStands'
  <1> SUFFICES ASSUME RegisterInv, TrailsBegun, KeysApart, DutyVerdictStands,
                      [Next]_registerVars
               PROVE  DutyVerdictStands'
    OBVIOUS
  <1>1. CASE UNCHANGED tables
    BY <1>1 DEF tables, DutyVerdictStands
  <1> SUFFICES ASSUME NEW i \in DOMAIN official_duties'
               PROVE  Verdict(official_duties[i], audit_log[DutyEntity(i)])'
    BY <1>1 DEF DutyVerdictStands, Verdict, DutyEntity
  <1>2. ASSUME NEW w \in Worker, CommitStamp(w)
        PROVE  Verdict(official_duties[i], audit_log[DutyEntity(i)])'
    <2>1. UNCHANGED official_duties
      BY <1>2 DEF CommitStamp
    <2>2. \E key : \E entry \in Entry : Record(<<"Attendance", key>>, entry)
      BY <1>2, StampWrites
    <2>3. PICK key : \E entry \in Entry : Record(<<"Attendance", key>>, entry)
      BY <2>2
    <2>4. <<"Attendance", key>> # DutyEntity(i)
      BY DEF DutyEntity
    <2> QED BY <2>1, <2>3, <2>4, VerdictKept
  <1>3. ASSUME NEW w \in Worker, CommitDuty(w)
        PROVE  Verdict(official_duties[i], audit_log[DutyEntity(i)])'
    <2> DEFINE x == session[w]
    <2> DEFINE new == Len(official_duties) + 1
    <2> DEFINE entity == <<"OfficialDuty", <<x.year, x.number>>>>
    <2> DEFINE entry == [action |-> "Submitted", actor |-> x.owner, at |-> None, note |-> None]
    <2>1. /\ entry \in Entry /\ Record(entity, entry)
          /\ ~IsIssued(x.year, x.number)
          /\ DOMAIN official_duties' = DOMAIN official_duties \cup {new}
          /\ \A j \in DOMAIN official_duties : official_duties'[j] = official_duties[j]
      BY <1>3, DutyWrites
    <2>2. CASE i \in DOMAIN official_duties
      <3>1. entity # DutyEntity(i)
        BY <2>1, <2>2 DEF DutyEntity, IsIssued
      <3> QED BY <2>1, <2>2, <3>1, VerdictKept
    <2>3. CASE i = new
      <3>1. official_duties'[i] =
            [owner |-> x.owner, duty_year |-> x.year, number |-> x.number,
             status |-> "Pending", approved_by |-> None, decision_note |-> None]
        BY <1>3, <2>3, DutyWrites
      <3>2. entity \notin DOMAIN audit_log
        BY <2>1 DEF RegisterInv, RegisterTypeOK, IsIssued
      <3>3. audit_log'[entity] = <<entry>>
        BY <2>1, <3>2, RecordEntry DEF RegisterInv
      <3>4. DutyEntity(i)' = entity
        BY <3>1 DEF DutyEntity
      <3>5. Len((audit_log[DutyEntity(i)])') = 1
        BY <3>3, <3>4
      <3>6. (official_duties[i])'.status = "Pending" /\ (official_duties[i])'.approved_by = None
        BY <3>1
      <3> QED BY <3>5, <3>6 DEF Verdict
    <2> QED BY <2>1, <2>2, <2>3
  <1>4. ASSUME NEW w \in Worker, CommitDecision(w)
        PROVE  Verdict(official_duties[i], audit_log[DutyEntity(i)])'
    <2> DEFINE x == session[w]
    <2> DEFINE entry == [action |-> x.decision, actor |-> x.actor, at |-> None, note |-> x.note]
    <2>1. /\ x \in Deciding /\ entry \in Entry
          /\ x.duty \in DOMAIN official_duties
          /\ x.decision = "Rejected" => x.note # None
          /\ DOMAIN official_duties' = DOMAIN official_duties
          /\ \A j \in DOMAIN official_duties : j # x.duty => official_duties'[j] = official_duties[j]
          /\ official_duties'[x.duty] = DecidedRow(x)
          /\ Record(DutyEntity(x.duty), entry)
      BY <1>4, DecisionWrites
    <2>2. CASE i # x.duty
      <3>1. DutyEntity(x.duty) # DutyEntity(i)
        BY <2>1, <2>2 DEF DutyEntity, KeysApart
      <3> QED BY <2>1, <2>2, <3>1, VerdictKept
    <2>3. CASE i = x.duty
      <3>1. official_duties[i] \in DutyRow
        BY <2>1, <2>3 DEF RegisterInv, RegisterTypeOK
      <3>2. /\ DecidedRow(x).status = x.decision /\ DecidedRow(x).approved_by = x.actor
            /\ x.note # None => DecidedRow(x).decision_note = x.note
        BY <2>3, <3>1 DEF DecidedRow, DutyRow
      <3>3. DutyEntity(i)' = DutyEntity(i)
        BY <1>4, <2>1, DecisionKeeps DEF DutyEntity
      <3>4. DutyEntity(i) \in DOMAIN audit_log
        BY <2>1, <2>3 DEF DutyEntity, RegisterInv, RegisterTypeOK
      <3> DEFINE trail == audit_log[DutyEntity(i)]
      <3>5. trail \in Seq(Entry)
        BY <3>4 DEF RegisterInv, RegisterTypeOK
      <3>6. audit_log'[DutyEntity(i)] = Append(trail, entry)
        BY <2>1, <2>3, <3>4, RecordEntry DEF RegisterInv
      <3>7. trail' = Append(trail, entry)
        BY <3>3, <3>6
      <3> HIDE DEF trail, entry
      <3>8. trail'[Len(trail')] = entry
        BY <2>1, <3>5, <3>7, AppendedTrail
      <3>9. /\ entry.action = x.decision /\ entry.actor = x.actor /\ entry.note = x.note
        BY DEF entry
      <3>10. x.decision \in {"Approved", "Rejected"}
        BY <2>1 DEF Deciding, Decision
      <3>11. (official_duties[i])' = DecidedRow(x)
        BY <2>1, <2>3
      <3>12. Verdict(DecidedRow(x), trail')
        BY <2>1, <3>2, <3>8, <3>9, <3>10 DEF Verdict
      <3> QED BY <3>11, <3>12 DEF trail, Verdict
    <2> QED BY <2>2, <2>3
  <1> QED BY <1>1, <1>2, <1>3, <1>4, OtherSteps DEF DutyVerdictStands, Verdict, DutyEntity

\* Whoever decides a duty last is its approver, and the row shows his verdict
\* and his reason.
THEOREM DutyVerdictTheorem == Spec => []DutyVerdictStands
  <1>1. Init => TrailsBegun /\ KeysApart /\ DutyVerdictStands
    BY DEF Init, TrailsBegun, KeysApart, DutyVerdictStands
  <1> QED BY <1>1, InitRegister, RegisterStep, TrailsStep, KeysApartStep, VerdictStep, PTL
          DEF Spec

\* Deciders are sessions, hence finitely many.
LEMMA DecidersCounted ==
    ASSUME NEW i
    PROVE  /\ IsFiniteSet(Deciders(i)) /\ Cardinality(Deciders(i)) \in Nat
           /\ Cardinality(Deciders(i)) <= Cardinality(Worker)
           /\ Cardinality(Worker) \in Nat
           /\ \A w \in Deciders(i) : Cardinality(Deciders(i) \ {w}) = Cardinality(Deciders(i)) - 1
  <1>1. IsFiniteSet(Worker) /\ Deciders(i) \subseteq Worker
    BY RegisterAssumption DEF Deciders
  <1>2. IsFiniteSet(Deciders(i)) /\ Cardinality(Deciders(i)) <= Cardinality(Worker)
    BY <1>1, FS_Subset
  <1>3. Cardinality(Deciders(i)) \in Nat /\ Cardinality(Worker) \in Nat
    BY <1>1, <1>2, FS_CardinalityType
  <1> QED BY <1>2, <1>3, FS_RemoveElement

\* What DecidedByRivals says of one duty.
Counted(i) ==
    official_duties[i].status # "Pending" =>
        Len(audit_log[DutyEntity(i)]) - 1 + Cardinality(Deciders(i)) <= Cardinality(Worker)

\* A duty whose row and trail a step leaves alone, and for which nobody becomes a
\* decider once it is decided, keeps the count.
LEMMA CountKept ==
    ASSUME RegisterInv, DecidedByRivals, NEW i \in DOMAIN official_duties,
           official_duties'[i] = official_duties[i],
           audit_log'[DutyEntity(i)] = audit_log[DutyEntity(i)],
           official_duties[i].status # "Pending" => Deciders(i)' \subseteq Deciders(i)
    PROVE  Counted(i)'
  <1>1. DutyEntity(i)' = DutyEntity(i)
    BY DEF DutyEntity
  <1>2. Counted(i)
    BY DEF DecidedByRivals, Counted, DutyEntity
  <1>3. PICK trail \in Seq(Entry) : trail = audit_log[DutyEntity(i)]
    <2>1. DutyEntity(i) \in DOMAIN audit_log
      BY DEF DutyEntity, RegisterInv, RegisterTypeOK
    <2> QED BY <2>1 DEF RegisterInv, RegisterTypeOK
  <1>4. ASSUME official_duties[i].status # "Pending"
        PROVE  Len(trail) - 1 + Cardinality(Deciders(i)') <= Cardinality(Worker)
    <2>1. /\ Cardinality(Deciders(i)') <= Cardinality(Deciders(i))
          /\ Cardinality(Deciders(i)') \in Nat
      BY <1>4, DecidersCounted, FS_Subset, FS_CardinalityType
    <2>2. Len(trail) - 1 + Cardinality(Deciders(i)) <= Cardinality(Worker)
      BY <1>2, <1>3, <1>4 DEF Counted
    <2>3. Len(trail) \in Nat /\ Cardinality(Deciders(i)) \in Nat /\ Cardinality(Worker) \in Nat
      BY DecidersCounted
    <2> QED BY <2>1, <2>2, <2>3
  <1>5. (audit_log[DutyEntity(i)])' = trail /\ (official_duties[i])' = official_duties[i]
    BY <1>1, <1>3
  <1> QED BY <1>4, <1>5 DEF Counted

\* A session that ends, or goes on with something else, leaves the deciders.
LEMMA DecidersLeave ==
    ASSUME RegisterInv, NEW w \in Worker, NEW y, y.phase # "Deciding",
           session' = [session EXCEPT ![w] = y], NEW i
    PROVE  Deciders(i)' = Deciders(i) \ {w}
  <1>1. session'[w] = y /\ \A v \in Worker \ {w} : session'[v] = session[v]
    BY DEF RegisterInv
  <1> QED BY <1>1 DEF Deciders

\* A step that leaves the tables alone makes nobody the decider of a decided duty.
LEMMA DecidersOpen ==
    ASSUME RegisterInv, [Next]_registerVars, UNCHANGED tables,
           NEW i \in DOMAIN official_duties, official_duties[i].status # "Pending"
    PROVE  Deciders(i)' \subseteq Deciders(i)
  <1>1. CASE UNCHANGED session
    BY <1>1 DEF Deciders
  <1>2. ASSUME NEW w \in Worker, NEW y, y.phase # "Deciding",
               session' = [session EXCEPT ![w] = y]
        PROVE  Deciders(i)' \subseteq Deciders(i)
    BY <1>2, DecidersLeave
  <1>3. ASSUME NEW w \in Worker, Ends(w)
        PROVE  Deciders(i)' \subseteq Deciders(i)
    <2>1. Idle.phase # "Deciding"
      BY DEF Idle
    <2> QED BY <1>2, <1>3, <2>1 DEF Ends
  <1>4. ASSUME NEW w \in Worker, NEW e \in Employee, NEW action, Begin(w, e, action)
        PROVE  Deciders(i)' \subseteq Deciders(i)
    <2>1. PICK y : y = [phase |-> "Dated", action |-> action, key |-> <<e, LocalDate[now]>>]
      OBVIOUS
    <2>2. y.phase = "Dated"
      BY <2>1
    <2> QED BY <1>2, <1>4, <2>1, <2>2 DEF Begin
  <1>5. ASSUME NEW w \in Worker, Stamp(w)
        PROVE  Deciders(i)' \subseteq Deciders(i)
    <2>1. PICK y : /\ y.phase = "Stamped" /\ session' = [session EXCEPT ![w] = y]
      BY <1>5 DEF Stamp
    <2> QED BY <1>2, <2>1
  <1>6. ASSUME NEW w \in Worker, Look(w)
        PROVE  Deciders(i)' \subseteq Deciders(i)
    <2> DEFINE x == session[w]
    <2>1. PICK found : found = [phase |-> "Found", action |-> x.action, key |-> x.key,
                                at |-> x.at,
                                arrived |-> IF x.action = "CheckIn" THEN x.at
                                            ELSE attendance[x.key].check_in]
      OBVIOUS
    <2>2. found.phase = "Found"
      BY <2>1
    <2>3. session' = [session EXCEPT ![w] = IF ~MayStamp(x) THEN Idle ELSE found]
      BY <1>6, <2>1 DEF Look
    <2> QED BY <1>2, <1>3, <2>2, <2>3 DEF Ends
  <1>7. ASSUME NEW w \in Worker, NEW e \in Employee, NEW y \in DutyYear, NumberDuty(w, e, y)
        PROVE  Deciders(i)' \subseteq Deciders(i)
    <2>1. PICK x : /\ x.phase = "Numbered" /\ session' = [session EXCEPT ![w] = x]
      BY <1>7 DEF NumberDuty
    <2> QED BY <1>2, <2>1
  <1>8. ASSUME NEW w \in Worker, NEW j \in DOMAIN official_duties, NEW actor, NEW decision,
               NEW note, ReadDuty(w, j, actor, decision, note)
        PROVE  Deciders(i)' \subseteq Deciders(i)
    <2>1. j # i
      BY <1>8 DEF ReadDuty, MayDecideDuty
    <2>2. PICK x : x.duty = j /\ session' = [session EXCEPT ![w] = x]
      BY <1>8 DEF ReadDuty
    <2>3. session'[w].duty # i /\ \A v \in Worker \ {w} : session'[v] = session[v]
      BY <2>1, <2>2 DEF RegisterInv
    <2> QED BY <2>3 DEF Deciders
  <1>9. ASSUME NEW w \in Worker, RollBack(w) \/ CommitStamp(w) \/ CommitDuty(w) \/ CommitDecision(w)
        PROVE  Ends(w)
    BY <1>9 DEF RollBack, CommitStamp, CommitDuty, CommitDecision
  <1>10. Tick \/ UNCHANGED registerVars => UNCHANGED session
    BY DEF Tick, registerVars
  <1> QED BY <1>1, <1>3, <1>4, <1>5, <1>6, <1>7, <1>8, <1>9, <1>10 DEF Next

\* The decision of a duty adds one verdict and ends one of its deciders; the first
\* one finds no verdict and at most all sessions as deciders.
LEMMA CountDecision ==
    ASSUME RegisterInv, TrailsBegun, KeysApart, DutyVerdictStands, DecidedByRivals,
           NEW w \in Worker, CommitDecision(w), NEW i \in DOMAIN official_duties
    PROVE  Counted(i)'
  <1> DEFINE x == session[w]
  <1> DEFINE entry == [action |-> x.decision, actor |-> x.actor, at |-> None, note |-> x.note]
  <1>1. /\ entry \in Entry /\ x \in Deciding
        /\ \A j \in DOMAIN official_duties : j # x.duty => official_duties'[j] = official_duties[j]
        /\ x.duty \in DOMAIN official_duties
        /\ Record(DutyEntity(x.duty), entry)
    BY DecisionWrites
  <1>2. x.phase = "Deciding"
    BY <1>1 DEF Deciding
  <1>3. Deciders(i)' = Deciders(i) \ {w}
    <2>1. Idle.phase # "Deciding" /\ Ends(w)
      BY DEF Idle, CommitDecision
    <2> QED BY <2>1, DecidersLeave DEF Ends
  <1>4. CASE i # x.duty
    <2>1. DutyEntity(x.duty) # DutyEntity(i)
      BY <1>1, <1>4 DEF DutyEntity, KeysApart
    <2>2. audit_log'[DutyEntity(i)] = audit_log[DutyEntity(i)]
      BY <1>1, <2>1, TrailKept
    <2> QED BY <1>1, <1>3, <1>4, <2>2, CountKept
  <1>5. CASE i = x.duty
    <2>1. DutyEntity(i) \in DOMAIN audit_log
      BY DEF DutyEntity, RegisterInv, RegisterTypeOK
    <2>2. PICK trail \in Seq(Entry) : trail = audit_log[DutyEntity(i)]
      BY <2>1 DEF RegisterInv, RegisterTypeOK
    <2>3. DutyEntity(i)' = DutyEntity(i)
      BY DecisionKeeps DEF DutyEntity
    <2>4. (audit_log[DutyEntity(i)])' = Append(trail, entry)
      <3>1. audit_log'[DutyEntity(i)] = Append(audit_log[DutyEntity(i)], entry)
        BY <1>1, <1>5, <2>1, RecordEntry DEF RegisterInv
      <3> QED BY <2>2, <2>3, <3>1
    <2>5. Len((audit_log[DutyEntity(i)])') = Len(trail) + 1 /\ Len(trail) \in Nat
      BY <1>1, <2>4, AppendedTrail
    <2>6. w \in Deciders(i)
      BY <1>2, <1>5 DEF Deciders
    <2>7. Cardinality(Deciders(i)') = Cardinality(Deciders(i)) - 1
      BY <1>3, <2>6, DecidersCounted
    <2>8. Len(trail) + Cardinality(Deciders(i)) - 1 <= Cardinality(Worker)
      <3>1. CASE official_duties[i].status = "Pending"
        <4>1. Len(trail) = 1
          BY <2>2, <3>1 DEF DutyVerdictStands, DutyEntity
        <4> QED BY <4>1, DecidersCounted
      <3>2. CASE official_duties[i].status # "Pending"
        <4>1. Len(trail) - 1 + Cardinality(Deciders(i)) <= Cardinality(Worker)
          BY <2>2, <3>2 DEF DecidedByRivals, DutyEntity
        <4> QED BY <2>5, <4>1, DecidersCounted
      <3> QED BY <3>1, <3>2
    <2>9. Len((audit_log[DutyEntity(i)])') - 1 + Cardinality(Deciders(i)') <= Cardinality(Worker)
      BY <2>5, <2>7, <2>8, DecidersCounted
    <2> QED BY <2>9 DEF Counted
  <1> QED BY <1>4, <1>5

\* Every step keeps the count.
LEMMA CountStep ==
    /\ RegisterInv /\ TrailsBegun /\ KeysApart /\ DutyVerdictStands
    /\ DecidedByRivals
    /\ [Next]_registerVars
    => DecidedByRivals'
  <1> SUFFICES ASSUME RegisterInv, TrailsBegun, KeysApart, DutyVerdictStands, DecidedByRivals,
                      [Next]_registerVars, NEW i \in DOMAIN official_duties'
               PROVE  Counted(i)'
    BY DEF DecidedByRivals, Counted, DutyEntity
  <1>1. CASE UNCHANGED tables
    <2>1. UNCHANGED <<official_duties, audit_log>>
      BY <1>1 DEF tables
    <2> QED BY <1>1, <2>1, DecidersOpen, CountKept
  <1>2. ASSUME NEW w \in Worker, Ends(w), NEW j
        PROVE  Deciders(j)' \subseteq Deciders(j)
    <2>1. Idle.phase # "Deciding"
      BY DEF Idle
    <2> QED BY <1>2, <2>1, DecidersLeave DEF Ends
  <1>3. ASSUME NEW w \in Worker, CommitStamp(w)
        PROVE  Counted(i)'
    <2>1. UNCHANGED official_duties /\ Ends(w)
      BY <1>3 DEF CommitStamp
    <2>2. PICK key : \E entry \in Entry : Record(<<"Attendance", key>>, entry)
      BY <1>3, StampWrites
    <2>3. <<"Attendance", key>> # DutyEntity(i)
      BY DEF DutyEntity
    <2>4. audit_log'[DutyEntity(i)] = audit_log[DutyEntity(i)]
      BY <2>1, <2>2, <2>3, TrailKept
    <2> QED BY <1>2, <2>1, <2>4, CountKept
  <1>4. ASSUME NEW w \in Worker, CommitDuty(w)
        PROVE  Counted(i)'
    <2> DEFINE x == session[w]
    <2> DEFINE new == Len(official_duties) + 1
    <2>1. /\ DOMAIN official_duties' = DOMAIN official_duties \cup {new}
          /\ \A j \in DOMAIN official_duties : official_duties'[j] = official_duties[j]
          /\ ~IsIssued(x.year, x.number)
      BY <1>4, DutyWrites
    <2>2. CASE i \in DOMAIN official_duties
      <3>1. PICK key : /\ \E entry \in Entry : Record(<<"OfficialDuty", key>>, entry)
                       /\ key = <<x.year, x.number>>
        BY <1>4, DutyWrites
      <3>2. <<"OfficialDuty", key>> # DutyEntity(i)
        BY <2>1, <2>2, <3>1 DEF DutyEntity, IsIssued
      <3>3. audit_log'[DutyEntity(i)] = audit_log[DutyEntity(i)]
        BY <2>2, <3>1, <3>2, TrailKept
      <3>4. Ends(w)
        BY <1>4 DEF CommitDuty
      <3> QED BY <1>2, <2>1, <2>2, <3>3, <3>4, CountKept
    <2>3. CASE i = new
      <3>1. official_duties'[i] =
            [owner |-> x.owner, duty_year |-> x.year, number |-> x.number,
             status |-> "Pending", approved_by |-> None, decision_note |-> None]
        BY <1>4, <2>3, DutyWrites
      <3>2. (official_duties[i])'.status = "Pending"
        BY <3>1
      <3> QED BY <3>2 DEF Counted
    <2> QED BY <2>1, <2>2, <2>3
  <1>5. ASSUME NEW w \in Worker, CommitDecision(w)
        PROVE  Counted(i)'
    <2>1. i \in DOMAIN official_duties
      BY <1>5, DecisionKeeps
    <2> QED BY <1>5, <2>1, CountDecision
  <1> QED BY <1>1, <1>3, <1>4, <1>5, OtherSteps

\* However approvers race, a duty has no more verdicts than there are sessions.
THEOREM DecidedByRivalsTheorem == Spec => []DecidedByRivals
  <1>1. Init => TrailsBegun /\ KeysApart /\ DutyVerdictStands /\ DecidedByRivals
    BY DEF Init, TrailsBegun, KeysApart, DutyVerdictStands, DecidedByRivals
  <1> QED BY <1>1, InitRegister, RegisterStep, TrailsStep, KeysApartStep, VerdictStep, CountStep, PTL
          DEF Spec

\* A decided duty gets no new deciders, and it changes only in a step that takes one
\* of them away.
Dwindles(i) ==
    official_duties[i].status # "Pending" =>
        /\ Deciders(i)' \subseteq Deciders(i)
        /\ \/ /\ official_duties'[i] = official_duties[i]
              /\ audit_log'[DutyEntity(i)] = audit_log[DutyEntity(i)]
           \/ \E w \in Deciders(i) : Deciders(i)' = Deciders(i) \ {w}

\* So it is with every step.
LEMMA DwindleStep ==
    ASSUME RegisterInv, KeysApart, [Next]_registerVars, NEW i \in DOMAIN official_duties
    PROVE  Dwindles(i)
  <1> SUFFICES ASSUME official_duties[i].status # "Pending" PROVE Dwindles(i)
    BY DEF Dwindles
  <1>1. CASE UNCHANGED tables
    <2>1. UNCHANGED <<official_duties, audit_log>>
      BY <1>1 DEF tables
    <2> QED BY <1>1, <2>1, DecidersOpen DEF Dwindles
  <1>2. ASSUME NEW w \in Worker, Ends(w)
        PROVE  Deciders(i)' = Deciders(i) \ {w}
    <2>1. Idle.phase # "Deciding"
      BY DEF Idle
    <2> QED BY <1>2, <2>1, DecidersLeave DEF Ends
  <1>3. ASSUME NEW w \in Worker, CommitStamp(w)
        PROVE  Dwindles(i)
    <2>1. UNCHANGED official_duties /\ Ends(w)
      BY <1>3 DEF CommitStamp
    <2>2. PICK key : \E entry \in Entry : Record(<<"Attendance", key>>, entry)
      BY <1>3, StampWrites
    <2>3. <<"Attendance", key>> # DutyEntity(i)
      BY DEF DutyEntity
    <2>4. audit_log'[DutyEntity(i)] = audit_log[DutyEntity(i)]
      BY <2>2, <2>3, TrailKept
    <2> QED BY <1>2, <2>1, <2>4 DEF Dwindles
  <1>4. ASSUME NEW w \in Worker, CommitDuty(w)
        PROVE  Dwindles(i)
    <2> DEFINE x == session[w]
    <2>1. official_duties'[i] = official_duties[i] /\ ~IsIssued(x.year, x.number)
      BY <1>4, DutyWrites
    <2>2. PICK key : /\ \E entry \in Entry : Record(<<"OfficialDuty", key>>, entry)
                     /\ key = <<x.year, x.number>>
      BY <1>4, DutyWrites
    <2>3. <<"OfficialDuty", key>> # DutyEntity(i)
      BY <2>1, <2>2 DEF DutyEntity, IsIssued
    <2>4. audit_log'[DutyEntity(i)] = audit_log[DutyEntity(i)]
      BY <2>2, <2>3, TrailKept
    <2>5. Ends(w)
      BY <1>4 DEF CommitDuty
    <2> QED BY <1>2, <2>1, <2>4, <2>5 DEF Dwindles
  <1>5. ASSUME NEW w \in Worker, CommitDecision(w)
        PROVE  Dwindles(i)
    <2> DEFINE x == session[w]
    <2>1. /\ x \in Deciding /\ x.duty \in DOMAIN official_duties
          /\ \A j \in DOMAIN official_duties : j # x.duty => official_duties'[j] = official_duties[j]
          /\ \E entry \in Entry : Record(DutyEntity(x.duty), entry)
      BY <1>5, DecisionWrites
    <2>2. x.phase = "Deciding"
      BY <2>1 DEF Deciding
    <2>3. Deciders(i)' = Deciders(i) \ {w}
      BY <1>2, <1>5 DEF CommitDecision
    <2>4. CASE i # x.duty
      <3>1. DutyEntity(x.duty) # DutyEntity(i)
        BY <2>1, <2>4 DEF DutyEntity, KeysApart
      <3>2. audit_log'[DutyEntity(i)] = audit_log[DutyEntity(i)]
        BY <2>1, <3>1, TrailKept
      <3> QED BY <2>1, <2>3, <2>4, <3>2 DEF Dwindles
    <2>5. CASE i = x.duty
      <3>1. w \in Deciders(i)
        BY <2>2, <2>5 DEF Deciders
      <3> QED BY <2>3, <3>1 DEF Dwindles
    <2> QED BY <2>4, <2>5
  <1> QED BY <1>1, <1>3, <1>4, <1>5, OtherSteps

\* Whoever decides a decided duty again had found it pending before it was decided,
\* and decides it no second time.
THEOREM OnlyDecidersTheorem ==
    Spec => [][\A i \in DOMAIN official_duties : Dwindles(i)]_registerVars
  <1>1. Init => KeysApart
    BY DEF Init, KeysApart
  <1>2. RegisterInv /\ KeysApart /\ [Next]_registerVars =>
            [\A i \in DOMAIN official_duties : Dwindles(i)]_registerVars
    BY DwindleStep
  <1> QED BY <1>1, <1>2, InitRegister, RegisterStep, KeysApartStep, PTL DEF Spec

\* A server that handles one request at a time decides a duty once: the trail of
\* a decided duty has the submission and one verdict.
THEOREM OneAtATimeTheorem ==
    ASSUME NEW only, Worker = {only}
    PROVE  Spec => [](\A i \in DOMAIN official_duties :
                        official_duties[i].status # "Pending" =>
                            Len(audit_log[DutyEntity(i)]) <= 2)
  <1>1. RegisterInv /\ DecidedByRivals =>
            \A i \in DOMAIN official_duties :
                official_duties[i].status # "Pending" => Len(audit_log[DutyEntity(i)]) <= 2
    <2> SUFFICES ASSUME RegisterInv, DecidedByRivals, NEW i \in DOMAIN official_duties,
                        official_duties[i].status # "Pending"
                 PROVE  Len(audit_log[DutyEntity(i)]) <= 2
      OBVIOUS
    <2>1. DutyEntity(i) \in DOMAIN audit_log
      BY DEF DutyEntity, RegisterInv, RegisterTypeOK
    <2>2. PICK n \in Nat : n = Len(audit_log[DutyEntity(i)])
      <3>1. PICK trail \in Seq(Entry) : trail = audit_log[DutyEntity(i)]
        BY <2>1 DEF RegisterInv, RegisterTypeOK
      <3> QED BY <3>1
    <2>3. n - 1 + Cardinality(Deciders(i)) <= Cardinality(Worker)
      BY <2>2 DEF DecidedByRivals, DutyEntity
    <2>4. Cardinality(Worker) = 1
      BY FS_Singleton
    <2>5. Cardinality(Deciders(i)) \in Nat
      BY DecidersCounted
    <2> QED BY <2>2, <2>3, <2>4, <2>5
  <1> QED BY <1>1, InitRegister, RegisterStep, DecidedByRivalsTheorem, PTL DEF Spec

-----------------------------------------------------------------------------
(***************************************************************************)
(* The book of duties.                                                     *)
(***************************************************************************)

\* The verdicts of a trail: who decided what after the submission.
VerdictsOf(trail) ==
    [j \in 1..(Len(trail) - 1) |-> <<trail[j + 1].action, trail[j + 1].actor>>]

Page(owner, year, number, verdicts, shows) ==
    [request |-> owner, year |-> year, number |-> number, verdicts |-> verdicts,
     shows |-> shows]

PageOf(duty, trail) ==
    Page(duty.owner, duty.duty_year, duty.number, VerdictsOf(trail),
         IF duty.status = "Pending" THEN <<>> ELSE <<<<duty.status, duty.approved_by>>>>)

LEMMA PagesAre ==
    /\ DOMAIN Pages = DOMAIN official_duties
    /\ \A i \in DOMAIN official_duties :
            Pages[i] = PageOf(official_duties[i], audit_log[DutyEntity(i)])
    /\ Pages = [i \in DOMAIN Pages |-> Pages[i]]
  BY DEF Pages, PageOf, Page, VerdictsOf, DutyEntity

\* The pages after a step.
LEMMA PagesAfter ==
    /\ DOMAIN Pages' = DOMAIN official_duties'
    /\ \A i \in DOMAIN official_duties' :
            Pages'[i] = PageOf(official_duties'[i], audit_log'[DutyEntity(i)'])
    /\ Pages' = [i \in DOMAIN Pages' |-> Pages'[i]]
  BY DEF Pages, PageOf, Page, VerdictsOf, DutyEntity

\* The book counts the duties of a year as the engine does.
LEMMA YearsAgree == \A y : Book!Cardinality(Book!OfYear(y)) = Cardinality(OfYear(y))
  <1>1. \A i \in DOMAIN official_duties : Pages[i].year = official_duties[i].duty_year
    BY DEF Pages
  <1>2. \A y : Book!OfYear(y) = OfYear(y)
    BY <1>1, PagesAre DEF Book!OfYear, Book!Entered, OfYear
  <1>3. \A S : Book!Cardinality(S) = Cardinality(S)
    BY DEF Book!Cardinality, Cardinality
  <1> QED BY <1>2, <1>3

\* The page of a duty whose row and trail a step leaves alone.
LEMMA PageKept ==
    ASSUME RegisterInv, NEW i \in DOMAIN official_duties, i \in DOMAIN official_duties',
           official_duties'[i] = official_duties[i], NEW entity, NEW entry \in Entry,
           Record(entity, entry), entity # DutyEntity(i)
    PROVE  Pages'[i] = Pages[i]
  <1>1. audit_log'[DutyEntity(i)] = audit_log[DutyEntity(i)]
    BY TrailKept
  <1>2. DutyEntity(i)' = DutyEntity(i)
    BY DEF DutyEntity
  <1> QED BY <1>1, <1>2, PagesAre, PagesAfter

\* The commit of a duty enters it under the next number.
LEMMA DutyIsEntered ==
    ASSUME RegisterInv, DenseInv, NEW w \in Worker, CommitDuty(w)
    PROVE  Book!BookNext
  <1> DEFINE x == session[w]
  <1> DEFINE entity == <<"OfficialDuty", <<x.year, x.number>>>>
  <1> DEFINE entry == [action |-> "Submitted", actor |-> x.owner, at |-> None, note |-> None]
  <1> DEFINE row == [owner |-> x.owner, duty_year |-> x.year, number |-> x.number,
                     status |-> "Pending", approved_by |-> None, decision_note |-> None]
  <1>0. PICK new : new = Len(official_duties) + 1
    OBVIOUS
  <1>1. /\ entry \in Entry /\ Record(entity, entry) /\ ~IsIssued(x.year, x.number)
        /\ DOMAIN official_duties' = DOMAIN official_duties \cup {new}
        /\ new \notin DOMAIN official_duties
        /\ \A i \in DOMAIN official_duties : official_duties'[i] = official_duties[i]
        /\ official_duties'[new] = row
    BY <1>0, DutyWrites
  <1>2. x.number = Cardinality(OfYear(x.year)) + 1
    BY NextIsTaken
  <1>3. audit_log'[entity] = <<entry>>
    <2>1. entity \notin DOMAIN audit_log
      BY <1>1 DEF RegisterInv, RegisterTypeOK, IsIssued
    <2> QED BY <1>1, <2>1, RecordEntry DEF RegisterInv
  <1>4. DutyEntity(new)' = entity
    <2>1. row.duty_year = x.year /\ row.number = x.number
      OBVIOUS
    <2> HIDE DEF row, x
    <2> QED BY <1>1, <2>1 DEF DutyEntity
  <1> DEFINE page == Page(x.owner, x.year, x.number, <<>>, <<>>)
  <1>5. PageOf(row, <<entry>>) = page
    <2>1. VerdictsOf(<<entry>>) = <<>>
      BY DEF VerdictsOf
    <2> QED BY <2>1 DEF PageOf
  <1> HIDE DEF row, entry, entity
  <1>6. Pages'[new] = page
    BY <1>1, <1>3, <1>4, <1>5, PagesAfter
  <1>7. \A i \in DOMAIN official_duties : Pages'[i] = Pages[i]
    <2> SUFFICES ASSUME NEW i \in DOMAIN official_duties PROVE Pages'[i] = Pages[i]
      OBVIOUS
    <2>1. entity # DutyEntity(i)
      BY <1>1 DEF DutyEntity, IsIssued, entity
    <2> QED BY <1>1, <2>1, PageKept
  <1> HIDE DEF page
  <1>8. Pages' = [i \in DOMAIN official_duties \cup {new} |-> IF i = new THEN page ELSE Pages[i]]
    BY <1>1, <1>6, <1>7, PagesAfter
  <1>9. Book!Enter(new, x.owner, x.year)
    BY <1>1, <1>2, <1>8, PagesAre, YearsAgree DEF Book!Enter, Book!Entered, Page, page
  <1>10. Pages'[new].request = x.owner /\ Pages'[new].year = x.year
    BY <1>6 DEF Page, page
  <1>11. new \in DOMAIN Pages'
    BY <1>1, PagesAfter
  <1> QED BY <1>9, <1>10, <1>11 DEF Book!BookNext, Book!Entered

\* A decision appended to a trail is one more verdict.
LEMMA VerdictsGrow ==
    ASSUME NEW trail \in Seq(Entry), Len(trail) > 0, NEW entry \in Entry
    PROVE  VerdictsOf(Append(trail, entry)) =
                Append(VerdictsOf(trail), <<entry.action, entry.actor>>)
  <1> DEFINE longer == Append(trail, entry)
  <1> DEFINE n == Len(trail)
  <1>1. n \in Nat /\ n > 0 /\ Len(longer) = n + 1 /\ longer[n + 1] = entry
        /\ \A i \in 1..n : longer[i] = trail[i]
    BY AppendedTrail
  <1> DEFINE left == VerdictsOf(longer)
  <1> DEFINE verdict == <<entry.action, entry.actor>>
  <1> DEFINE right == Append(VerdictsOf(trail), verdict)
  <1> HIDE DEF longer, n
  <1>2. /\ left = [j \in 1..n |-> left[j]]
        /\ \A j \in 1..n : left[j] = <<longer[j + 1].action, longer[j + 1].actor>>
    BY <1>1 DEF VerdictsOf
  <1>3. /\ VerdictsOf(trail) = [j \in 1..(n - 1) |-> VerdictsOf(trail)[j]]
        /\ \A j \in 1..(n - 1) : VerdictsOf(trail)[j] = <<trail[j + 1].action, trail[j + 1].actor>>
    BY DEF VerdictsOf, n
  <1>4. PICK earlier : earlier = VerdictsOf(trail)
    OBVIOUS
  <1>5. PICK S : earlier \in Seq(S) /\ verdict \in S /\ Len(earlier) = n - 1
    <2>1. PICK m \in Nat : m = n - 1
      BY <1>1
    <2>2. earlier = [j \in 1..m |-> earlier[j]]
      BY <1>3, <1>4, <2>1
    <2>3. PICK S : S = {earlier[j] : j \in 1..m} \cup {verdict}
      OBVIOUS
    <2>4. \A j \in 1..m : earlier[j] \in S
      BY <2>3
    <2>5. earlier \in [1..m -> S]
      BY <2>2, <2>4
    <2>6. earlier \in Seq(S) /\ Len(earlier) = m
      BY <2>5
    <2> QED BY <2>1, <2>3, <2>6
  <1>6. /\ right = [j \in 1..n |-> right[j]]
        /\ right[n] = verdict
        /\ \A j \in 1..(n - 1) : right[j] = earlier[j]
    BY <1>1, <1>4, <1>5
  <1>7. \A j \in 1..n : left[j] = right[j]
    <2> SUFFICES ASSUME NEW j \in 1..n PROVE left[j] = right[j]
      OBVIOUS
    <2>1. left[j] = <<longer[j + 1].action, longer[j + 1].actor>>
      BY <1>2
    <2>2. CASE j = n
      BY <1>1, <1>6, <2>1, <2>2
    <2>3. CASE j # n
      <3>1. j \in 1..(n - 1) /\ j + 1 \in 1..n
        BY <1>1, <2>3
      <3> HIDE DEF left, right
      <3> QED BY <1>1, <1>3, <1>4, <1>6, <2>1, <3>1
    <2> QED BY <2>2, <2>3
  <1> HIDE DEF left, right
  <1>8. left = right
    BY <1>2, <1>6, <1>7
  <1> QED BY <1>8 DEF left, right, longer

\* A decision adds its verdict, and the duty shows it.
LEMMA VerdictIsAdded ==
    ASSUME RegisterInv, TrailsBegun, KeysApart, NEW w \in Worker, CommitDecision(w)
    PROVE  Book!BookNext
  <1> DEFINE x == session[w]
  <1> DEFINE entry == [action |-> x.decision, actor |-> x.actor, at |-> None, note |-> x.note]
  <1> DEFINE ruling == <<x.decision, x.actor>>
  <1>0. PICK d : d = x.duty
    OBVIOUS
  <1>1. /\ x \in Deciding /\ entry \in Entry /\ d \in DOMAIN official_duties
        /\ DOMAIN official_duties' = DOMAIN official_duties
        /\ \A i \in DOMAIN official_duties : i # d => official_duties'[i] = official_duties[i]
        /\ official_duties'[d] = DecidedRow(x)
        /\ Record(DutyEntity(d), entry)
    BY <1>0, DecisionWrites
  <1>2. x.decision \in {"Approved", "Rejected"} /\ x.actor \in Approver
    BY <1>1 DEF Deciding, Decision
  <1>3. PICK duty \in DutyRow, trail \in Seq(Entry) :
            duty = official_duties[d] /\ trail = audit_log[DutyEntity(d)] /\ Len(trail) > 0
    <2>1. DutyEntity(d) \in DOMAIN audit_log
      BY <1>1 DEF DutyEntity, RegisterInv, RegisterTypeOK
    <2>2. audit_log[DutyEntity(d)] \in Seq(Entry) /\ Len(audit_log[DutyEntity(d)]) > 0
      BY <2>1 DEF RegisterInv, RegisterTypeOK, TrailsBegun
    <2>3. official_duties[d] \in DutyRow
      BY <1>1 DEF RegisterInv, RegisterTypeOK
    <2> QED BY <2>2, <2>3
  <1>4. DutyEntity(d)' = DutyEntity(d)
    BY <1>1, DecisionKeeps DEF DutyEntity
  <1>5. audit_log'[DutyEntity(d)] = Append(trail, entry)
    <2>1. DutyEntity(d) \in DOMAIN audit_log
      BY <1>1 DEF DutyEntity, RegisterInv, RegisterTypeOK
    <2> QED BY <1>1, <1>3, <2>1, RecordEntry DEF RegisterInv
  <1>6. /\ DecidedRow(x).owner = duty.owner /\ DecidedRow(x).duty_year = duty.duty_year
        /\ DecidedRow(x).number = duty.number /\ DecidedRow(x).status = x.decision
        /\ DecidedRow(x).approved_by = x.actor
    BY <1>0, <1>3 DEF DecidedRow, DutyRow
  <1>7. VerdictsOf(Append(trail, entry)) = Append(VerdictsOf(trail), ruling)
    BY <1>1, <1>3, VerdictsGrow
  <1> HIDE DEF x, entry, ruling
  <1>8. PICK old, shows :
            /\ old = Pages[d]
            /\ old = Page(duty.owner, duty.duty_year, duty.number, VerdictsOf(trail), shows)
    BY <1>1, <1>3, PagesAre DEF PageOf
  <1>9. Pages'[d] = Page(duty.owner, duty.duty_year, duty.number,
                         Append(VerdictsOf(trail), ruling), <<ruling>>)
    <2>1. Pages'[d] = PageOf(DecidedRow(x), Append(trail, entry))
      BY <1>1, <1>4, <1>5, PagesAfter
    <2>2. x.decision # "Pending"
      BY <1>2
    <2> QED BY <1>6, <1>7, <2>1, <2>2 DEF PageOf, ruling
  <1>10. Pages'[d] = [old EXCEPT !.verdicts = Append(@, ruling), !.shows = <<ruling>>]
    <2> DEFINE left == [old EXCEPT !.verdicts = Append(@, ruling), !.shows = <<ruling>>]
    <2> DEFINE right == Pages'[d]
    <2> DEFINE columns == {"request", "year", "number", "verdicts", "shows"}
    <2>1. left = [c \in columns |-> left[c]]
      BY <1>8 DEF Page
    <2>2. right = [c \in columns |-> right[c]]
      BY <1>9 DEF Page
    <2>3. /\ left["request"] = right["request"] /\ left["year"] = right["year"]
          /\ left["number"] = right["number"] /\ left["shows"] = right["shows"]
      BY <1>8, <1>9 DEF Page
    <2>4. left["verdicts"] = right["verdicts"]
      BY <1>8, <1>9 DEF Page
    <2> HIDE DEF left, right
    <2>5. \A c \in columns : left[c] = right[c]
      BY <2>3, <2>4
    <2>6. left = right
      BY <2>1, <2>2, <2>5
    <2> QED BY <2>6 DEF left, right
  <1>11. \A i \in DOMAIN official_duties : i # d => Pages'[i] = Pages[i]
    <2> SUFFICES ASSUME NEW i \in DOMAIN official_duties, i # d PROVE Pages'[i] = Pages[i]
      OBVIOUS
    <2>1. DutyEntity(d) # DutyEntity(i)
      BY <1>1 DEF DutyEntity, KeysApart
    <2> QED BY <1>1, <2>1, PageKept
  <1>12. Pages' = [Pages EXCEPT ![d].verdicts = Append(@, ruling), ![d].shows = <<ruling>>]
    BY <1>1, <1>8, <1>10, <1>11, PagesAre, PagesAfter
  <1>13. Book!Settle(d, ruling)
    <2>1. ruling \in Decision \X Approver
      BY <1>2 DEF ruling, Decision
    <2> QED BY <1>1, <1>12, <2>1, PagesAre DEF Book!Settle, Book!Entered
  <1>14. Pages'[d].shows = <<ruling>>
    BY <1>9 DEF Page
  <1>15. Pages'[d].shows # <<>> /\ Pages'[d].shows[1] = ruling
    BY <1>14
  <1>16. d \in DOMAIN Pages'
    BY <1>1, PagesAfter
  <1> QED BY <1>13, <1>15, <1>16 DEF Book!BookNext, Book!Entered

\* Every step is a step of the book, or none.
LEMMA BookStep ==
    /\ RegisterInv /\ DenseInv /\ TrailsBegun /\ KeysApart
    /\ [Next]_registerVars
    => [Book!BookNext]_Pages
  <1> SUFFICES ASSUME RegisterInv, DenseInv, TrailsBegun, KeysApart, [Next]_registerVars
               PROVE  Book!BookNext \/ Pages' = Pages
    OBVIOUS
  <1>1. CASE UNCHANGED tables
    BY <1>1 DEF tables, Pages
  <1>2. ASSUME NEW w \in Worker, CommitStamp(w)
        PROVE  Pages' = Pages
    <2>1. UNCHANGED official_duties
      BY <1>2 DEF CommitStamp
    <2>2. PICK key : \E entry \in Entry : Record(<<"Attendance", key>>, entry)
      BY <1>2, StampWrites
    <2>3. \A i \in DOMAIN official_duties : <<"Attendance", key>> # DutyEntity(i)
      BY DEF DutyEntity
    <2>4. \A i \in DOMAIN official_duties : Pages'[i] = Pages[i]
      BY <2>1, <2>2, <2>3, PageKept
    <2> QED BY <2>1, <2>4, PagesAre, PagesAfter
  <1> QED BY <1>1, <1>2, DutyIsEntered, VerdictIsAdded, OtherSteps

\* Any number of racing handlers keep one book: a duty is entered once under the
\* next number of its year, and every approver's verdict is added to it.
THEOREM BookTheorem == Spec => ImplementsBook
  <1>1. Init => TrailsBegun /\ KeysApart /\ Book!BookInit
    BY DEF Init, TrailsBegun, KeysApart, Book!BookInit, Pages
  <1> QED BY <1>1, InitRegister, InitDense, RegisterStep, DenseStep, TrailsStep, KeysApartStep,
             BookStep, PTL
          DEF Spec, ImplementsBook, Book!BookSpec
=============================================================================
