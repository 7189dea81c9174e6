------------------------- MODULE LeaveWorkflowProofs -------------------------
(***************************************************************************)
(* Theorems about LeaveWorkflow for any employees, leave types, days,      *)
(* caps and submission ids.                                                *)
(***************************************************************************)
EXTENDS LeaveWorkflow, FiniteSetTheorems, TLAPS

-----------------------------------------------------------------------------
(***************************************************************************)
(* Lemmas about the operators.                                             *)
(***************************************************************************)

\* What the three balance operations do to a row, field by field.
LEMMA BalanceOps ==
    ASSUME NEW b \in BalanceRow, NEW n \in Nat
    PROVE  /\ Reserve(b, n) \in BalanceRow
           /\ Reserve(b, n).entitled = b.entitled
           /\ Reserve(b, n).used = b.used
           /\ Reserve(b, n).pending = b.pending + n
           /\ ReleasePending(b, n) \in BalanceRow
           /\ ReleasePending(b, n).entitled = b.entitled
           /\ ReleasePending(b, n).used = b.used
           /\ b.pending >= n => ReleasePending(b, n).pending = b.pending - n
           /\ CommitPendingToUsed(b, n) \in BalanceRow
           /\ CommitPendingToUsed(b, n).entitled = b.entitled
           /\ CommitPendingToUsed(b, n).used = b.used + n
           /\ b.pending >= n => CommitPendingToUsed(b, n).pending = b.pending - n
  <1>1. /\ Reserve(b, n) \in BalanceRow
        /\ Reserve(b, n).entitled = b.entitled
        /\ Reserve(b, n).used = b.used
        /\ Reserve(b, n).pending = b.pending + n
    BY DEF BalanceRow, Reserve
  <1>2. /\ ReleasePending(b, n) \in BalanceRow
        /\ ReleasePending(b, n).entitled = b.entitled
        /\ ReleasePending(b, n).used = b.used
        /\ b.pending >= n => ReleasePending(b, n).pending = b.pending - n
    BY DEF BalanceRow, ReleasePending
  <1>3. \A c \in BalanceRow :
            /\ [c EXCEPT !.used = @ + n] \in BalanceRow
            /\ [c EXCEPT !.used = @ + n].entitled = c.entitled
            /\ [c EXCEPT !.used = @ + n].used = c.used + n
            /\ [c EXCEPT !.used = @ + n].pending = c.pending
    BY DEF BalanceRow
  <1> QED BY <1>1, <1>2, <1>3 DEF CommitPendingToUsed

\* A row charges one or two accounts, and get_or_create_balance finds or opens
\* a well-formed row for every account.
LEMMA ChargedAccounts ==
    ASSUME NEW r \in LeaveRequestRow
    PROVE  Charged(r) \subseteq Account
  BY DEF LeaveRequestRow, Charged, Primary, Secondary, Account

\* The balance of an account that is not open is that of a fresh one.
LEMMA BalanceOfType ==
    ASSUME TypeOK, NEW a \in Account
    PROVE  BalanceOf(a) \in BalanceRow
  <1>1. CASE a \in DOMAIN leave_balances
    BY <1>1 DEF TypeOK, BalanceOf
  <1>2. CASE a \notin DOMAIN leave_balances
    <2>1. leave_types[a[2]].annual_cap \in Nat
      BY DomainAssumption DEF TypeOK, Account
    <2> QED BY <1>2, <2>1 DEF BalanceOf, BalanceRow
  <1> QED BY <1>1, <1>2

\* Writing well-formed rows to a table keeps its row type.
LEMMA WriteType ==
    ASSUME NEW table, NEW Row, table \in [DOMAIN table -> Row],
           NEW rows, rows \in [DOMAIN rows -> Row]
    PROVE  /\ DOMAIN Write(table, rows) = DOMAIN table \cup DOMAIN rows
           /\ Write(table, rows) \in [DOMAIN table \cup DOMAIN rows -> Row]
  BY DEF Write

\* Inserting a row keeps a table a table.
LEMMA InsertType ==
    ASSUME NEW table, NEW Row, table \in [DOMAIN table -> Row],
           NEW key, NEW row \in Row
    PROVE  /\ DOMAIN Insert(table, key, row) = DOMAIN table \cup {key}
           /\ Insert(table, key, row) \in [DOMAIN table \cup {key} -> Row]
           /\ Insert(table, key, row)[key] = row
           /\ \A k \in DOMAIN table : k # key => Insert(table, key, row)[k] = table[k]
  BY DEF Insert, Write

\* The balance table after a handler reserved, released or committed the days
\* of a request.
LEMMA MoveType ==
    ASSUME TypeOK, NEW r \in LeaveRequestRow,
           NEW rows \in {Reserved(r), Released(r), Committed(r)}
    PROVE  /\ DOMAIN Write(leave_balances, rows) \subseteq Account
           /\ Write(leave_balances, rows)
                \in [DOMAIN Write(leave_balances, rows) -> BalanceRow]
  <1>1. /\ Charged(r) \subseteq Account
        /\ r.working_days \in Nat
    BY ChargedAccounts DEF LeaveRequestRow
  <1>2. \A a \in Charged(r) : BalanceOf(a) \in BalanceRow
    BY <1>1, BalanceOfType
  <1>3. rows \in [Charged(r) -> BalanceRow]
    <2>1. \A a \in Charged(r) :
            /\ Reserve(BalanceOf(a), r.working_days) \in BalanceRow
            /\ ReleasePending(BalanceOf(a), r.working_days) \in BalanceRow
            /\ CommitPendingToUsed(BalanceOf(a), r.working_days) \in BalanceRow
      BY <1>1, <1>2, BalanceOps
    <2> QED BY <2>1 DEF Reserved, Released, Committed
  <1>4. /\ leave_balances \in [DOMAIN leave_balances -> BalanceRow]
        /\ DOMAIN leave_balances \subseteq Account
    BY DEF TypeOK
  <1>5. DOMAIN rows = Charged(r)
    BY <1>3
  <1>6. rows \in [DOMAIN rows -> BalanceRow]
    BY <1>3, <1>5
  <1>7. /\ DOMAIN Write(leave_balances, rows) = DOMAIN leave_balances \cup DOMAIN rows
        /\ Write(leave_balances, rows) \in [DOMAIN leave_balances \cup DOMAIN rows -> BalanceRow]
    BY <1>4, <1>6, WriteType
  <1> QED BY <1>1, <1>4, <1>5, <1>7

-----------------------------------------------------------------------------
(***************************************************************************)
(* Type correctness.                                                       *)
(***************************************************************************)

\* The row a submission inserts, once the parameters have their types.
LEMMA SubmittedRowType ==
    ASSUME TypeOK, IsFiniteSet(Submitted),
           NEW e \in Employee, NEW t \in LeaveType, NEW sub \in Employee \cup {NoOne},
           NEW from \in Day, NEW until \in Day, NEW n \in 1..(until - from + 1)
    PROVE  NewRequest(e, t, sub, from, until, n) \in LeaveRequestRow
  <1>1. NextRequestNumber(YearOf[from]) \in Nat
    <2>1. OfYear(YearOf[from]) \subseteq Submitted
      BY DEF OfYear
    <2>2. Cardinality(OfYear(YearOf[from])) \in Nat
      BY <2>1, FS_Subset, FS_CardinalityType
    <2> QED BY <2>2 DEF NextRequestNumber
  <1>2. /\ n \in Nat \ {0}
        /\ YearOf[from] \in Year
    BY DomainAssumption DEF Year
  <1> QED BY <1>1, <1>2 DEF NewRequest, LeaveRequestRow, Status

\* A submission step inserts a pending row of the right type.
LEMMA SubmitSteps ==
    ASSUME TypeOK, IsFiniteSet(Submitted), SubmitAny
    PROVE  \E s \in SubmissionId, r \in LeaveRequestRow :
              /\ Submit(s, r)
              /\ r.status = "Pending"
              /\ r.number = NextRequestNumber(r.request_year)
  <1>1. PICK s \in SubmissionId, e \in Employee, t \in LeaveType,
             sub \in Employee \cup {NoOne}, from \in Day, until \in Day :
          \E n \in 1..(until - from + 1) : Submit(s, NewRequest(e, t, sub, from, until, n))
    BY DEF SubmitAny
  <1>2. PICK n \in 1..(until - from + 1) : Submit(s, NewRequest(e, t, sub, from, until, n))
    BY <1>1
  <1> DEFINE r == NewRequest(e, t, sub, from, until, n)
  <1>3. r \in LeaveRequestRow
    BY SubmittedRowType
  <1>4. r.status = "Pending" /\ r.number = NextRequestNumber(r.request_year)
    BY DEF NewRequest
  <1> HIDE DEF r
  <1> QED BY <1>2, <1>3, <1>4 DEF r

\* TypeOK, and the tables are finite: a cardinality is then a number.
TypeInv == TypeOK /\ IsFiniteSet(Submitted)

\* At the start the tables are empty.
LEMMA InitType == Init => TypeInv
  BY FS_EmptySet DEF Init, TypeInv, TypeOK, Submitted

\* A submission stores rows of the right types.
LEMMA SubmitType ==
    ASSUME TypeInv, NEW s \in SubmissionId, NEW r \in LeaveRequestRow, Submit(s, r)
    PROVE  TypeInv'
  <1>1. r \in LeaveRequestRow
    OBVIOUS
  <1>2. /\ leave_balances' = Write(leave_balances, Reserved(r))
        /\ leave_requests' = Insert(leave_requests, s, r)
        /\ approval_steps' = Insert(approval_steps, s, [k \in Stage |-> "Pending"])
        /\ audit_log' = Insert(audit_log, s, <<"Submitted">>)
        /\ leave_types' = leave_types
    BY DEF Submit
  <1>3. /\ DOMAIN leave_balances' \subseteq Account
        /\ leave_balances' \in [DOMAIN leave_balances' -> BalanceRow]
    BY <1>1, <1>2, MoveType DEF TypeInv
  <1>4. /\ Submitted' = Submitted \cup {s}
        /\ leave_requests' \in [Submitted' -> LeaveRequestRow]
    <2>1. leave_requests \in [DOMAIN leave_requests -> LeaveRequestRow]
      BY DEF TypeInv, TypeOK, Submitted
    <2>2. /\ DOMAIN Insert(leave_requests, s, r) = DOMAIN leave_requests \cup {s}
          /\ Insert(leave_requests, s, r)
               \in [DOMAIN leave_requests \cup {s} -> LeaveRequestRow]
      BY <1>1, <2>1 DEF Insert, Write
    <2> QED BY <1>2, <2>2 DEF Submitted
  <1>5. approval_steps' \in [Submitted' -> [Stage -> StepStatus]]
    <2>1. /\ approval_steps \in [DOMAIN approval_steps -> [Stage -> StepStatus]]
          /\ DOMAIN approval_steps = Submitted
      BY DEF TypeInv, TypeOK
    <2>2. [k \in Stage |-> "Pending"] \in [Stage -> StepStatus]
      BY DEF StepStatus
    <2> QED BY <1>2, <1>4, <2>1, <2>2, InsertType
  <1>6. audit_log' \in [Submitted' -> Seq(AuditAction)]
    <2>1. /\ audit_log \in [DOMAIN audit_log -> Seq(AuditAction)]
          /\ DOMAIN audit_log = Submitted
      BY DEF TypeInv, TypeOK
    <2>2. <<"Submitted">> \in Seq(AuditAction)
      BY DEF AuditAction
    <2> QED BY <1>2, <1>4, <2>1, <2>2, InsertType
  <1>7. IsFiniteSet(Submitted')
    BY <1>4, FS_AddElement DEF TypeInv
  <1>8. leave_types' \in [LeaveType -> LeaveTypeRow] /\ Submitted' \subseteq SubmissionId
    BY <1>2, <1>4 DEF TypeInv, TypeOK
  <1> QED BY <1>3, <1>4, <1>5, <1>6, <1>7, <1>8 DEF TypeInv, TypeOK

\* So does a decision.
LEMMA DecideType ==
    ASSUME TypeInv, NEW s \in Submitted, NEW actor \in Employee,
           NEW decision \in Decision, NEW k \in Stage, Decide(s, actor, decision, k)
    PROVE  TypeInv'
  <1> DEFINE r == leave_requests[s]
  <1>1. r \in LeaveRequestRow
    BY DEF TypeInv, TypeOK
  <1>2. /\ approval_steps' = [approval_steps EXCEPT ![s][k] = decision]
        /\ leave_requests' = [leave_requests EXCEPT ![s].status = decision]
        /\ \/ leave_balances' = Write(leave_balances, Committed(r))
           \/ leave_balances' = Write(leave_balances, Released(r))
        /\ audit_log' = [audit_log EXCEPT ![s] = Append(@, DecisionAction(decision))]
        /\ leave_types' = leave_types
    BY DEF Decide
  <1>3. /\ DOMAIN leave_balances' \subseteq Account
        /\ leave_balances' \in [DOMAIN leave_balances' -> BalanceRow]
    <2> HIDE DEF r
    <2> QED BY <1>1, <1>2, MoveType DEF TypeInv
  <1>4. /\ Submitted' = Submitted
        /\ leave_requests' \in [Submitted -> LeaveRequestRow]
    BY <1>2 DEF TypeInv, TypeOK, Submitted, LeaveRequestRow, Status, Decision
  <1>5. approval_steps' \in [Submitted -> [Stage -> StepStatus]]
    BY <1>2 DEF TypeInv, TypeOK, StepStatus
  <1>6. audit_log' \in [Submitted -> Seq(AuditAction)]
    <2>1. DecisionAction(decision) \in AuditAction
      BY DEF DecisionAction, AuditAction
    <2> HIDE DEF DecisionAction
    <2> QED BY <1>2, <2>1 DEF TypeInv, TypeOK
  <1> QED BY <1>2, <1>3, <1>4, <1>5, <1>6 DEF TypeInv, TypeOK

\* So does a cancellation.
LEMMA CancelType ==
    ASSUME TypeInv, NEW s \in Submitted, NEW actor \in Employee, Cancel(s, actor)
    PROVE  TypeInv'
  <1> DEFINE r == leave_requests[s]
  <1>1. r \in LeaveRequestRow
    BY DEF TypeInv, TypeOK
  <1>2. /\ leave_requests' = [leave_requests EXCEPT ![s].status = "Cancelled"]
        /\ leave_balances' = Write(leave_balances, Released(r))
        /\ audit_log' = [audit_log EXCEPT ![s] = Append(@, "Cancelled")]
        /\ UNCHANGED <<leave_types, approval_steps>>
    BY DEF Cancel
  <1>3. /\ DOMAIN leave_balances' \subseteq Account
        /\ leave_balances' \in [DOMAIN leave_balances' -> BalanceRow]
    <2> HIDE DEF r
    <2> QED BY <1>1, <1>2, MoveType DEF TypeInv
  <1>4. /\ Submitted' = Submitted
        /\ leave_requests' \in [Submitted -> LeaveRequestRow]
    BY <1>2 DEF TypeInv, TypeOK, Submitted, LeaveRequestRow, Status
  <1>5. audit_log' \in [Submitted -> Seq(AuditAction)]
    BY <1>2 DEF TypeInv, TypeOK, AuditAction
  <1> QED BY <1>2, <1>3, <1>4, <1>5 DEF TypeInv, TypeOK

\* So does an edit of a leave type.
LEMMA UpdateLeaveTypeType ==
    ASSUME TypeInv, NEW t \in LeaveType, NEW row \in LeaveTypeRow, UpdateLeaveType(t, row)
    PROVE  TypeInv'
  BY DEF TypeInv, TypeOK, UpdateLeaveType, Submitted

\* So does a line of the workbook.
LEMMA SeedBalanceType ==
    ASSUME TypeInv, NEW line \in Workbook, SeedBalance(line)
    PROVE  TypeInv'
  <1>1. /\ SeededAccount(line) \in Account
        /\ line.balance \in BalanceRow
    BY DomainAssumption DEF SeedBalance, SeededAccount, Account, WorkbookLine
  <1>2. /\ DOMAIN leave_balances' \subseteq Account
        /\ leave_balances' \in [DOMAIN leave_balances' -> BalanceRow]
    <2>1. /\ leave_balances \in [DOMAIN leave_balances -> BalanceRow]
          /\ DOMAIN leave_balances \subseteq Account
      BY DEF TypeInv, TypeOK
    <2>2. LET ins == Insert(leave_balances, SeededAccount(line), line.balance)
          IN  /\ DOMAIN ins = DOMAIN leave_balances \cup {SeededAccount(line)}
              /\ ins \in [DOMAIN leave_balances \cup {SeededAccount(line)} -> BalanceRow]
      BY <1>1, <2>1 DEF Insert, Write
    <2> QED BY <1>1, <2>1, <2>2 DEF SeedBalance
  <1> QED BY <1>2 DEF TypeInv, TypeOK, SeedBalance, Submitted

\* So does every step.
LEMMA NextType == TypeInv /\ [Next]_vars => TypeInv'
  <1> SUFFICES ASSUME TypeInv, [Next]_vars PROVE TypeInv'
    OBVIOUS
  <1>1. CASE SubmitAny
    BY <1>1, SubmitSteps, SubmitType DEF TypeInv
  <1>2. CASE DecideAny
    BY <1>2, DecideType DEF DecideAny
  <1>3. CASE CancelAny
    BY <1>3, CancelType DEF CancelAny
  <1>4. CASE \E t \in LeaveType, row \in LeaveTypeRow : UpdateLeaveType(t, row)
    BY <1>4, UpdateLeaveTypeType
  <1>5. CASE \E line \in Workbook : SeedBalance(line)
    BY <1>5, SeedBalanceType
  <1>6. CASE UNCHANGED vars
    BY <1>6 DEF TypeInv, TypeOK, Submitted, vars
  <1> QED BY <1>1, <1>2, <1>3, <1>4, <1>5, <1>6 DEF Next

\* So the tables have their types for good.
LEMMA TypeInvariant == Spec => []TypeInv
  BY InitType, NextType, PTL DEF Spec

\* The tables keep their types; used_days and pending_days are never negative.
THEOREM TypeCorrect == Spec => []TypeOK
  BY TypeInvariant, PTL DEF TypeInv

-----------------------------------------------------------------------------
(***************************************************************************)
(* The ledger.  A sum of working days is the cardinality of a set of       *)
(* units; Units is DayUnits for an arbitrary table of requests.            *)
(***************************************************************************)

Units(S, table) == UNION {{s} \X (1..table[s].working_days) : s \in S}

\* Fewer requests, fewer days.
LEMMA UnitsMonotone ==
    ASSUME NEW S, NEW T, S \subseteq T, NEW table, IsFiniteSet(Units(T, table))
    PROVE  IsFiniteSet(Units(S, table))
  <1>1. Units(S, table) \subseteq Units(T, table)
    BY DEF Units
  <1> QED BY <1>1, FS_Subset

\* The units of one request.
LEMMA OwnUnits ==
    ASSUME NEW s, NEW n \in Nat
    PROVE  /\ IsFiniteSet({s} \X (1..n))
           /\ Cardinality({s} \X (1..n)) = n
  <1> DEFINE One == {s}
             Days == 1..n
  <1>1. IsFiniteSet(One) /\ Cardinality(One) = 1
    BY FS_Singleton
  <1>2. IsFiniteSet(Days) /\ Cardinality(Days) = n
    <2>1. 1 \in Int /\ n \in Int
      OBVIOUS
    <2>2. /\ IsFiniteSet(1..n)
          /\ Cardinality(1..n) = IF 1 > n THEN 0 ELSE n - 1 + 1
      BY <2>1, FS_Interval
    <2> QED BY <2>2
  <1> HIDE DEF One, Days
  <1>3. /\ IsFiniteSet(One \X Days)
        /\ Cardinality(One \X Days) = Cardinality(One) * Cardinality(Days)
    BY <1>1, <1>2, FS_Product
  <1>4. Cardinality(One \X Days) = n
    BY <1>1, <1>2, <1>3
  <1> QED BY <1>3, <1>4 DEF One, Days

\* Adding a request to a set adds its working days to the sum.
LEMMA UnitsAdd ==
    ASSUME NEW S, NEW table, NEW s, s \notin S, table[s].working_days \in Nat,
           IsFiniteSet(Units(S, table))
    PROVE  /\ IsFiniteSet(Units(S \cup {s}, table))
           /\ Cardinality(Units(S \cup {s}, table))
                = Cardinality(Units(S, table)) + table[s].working_days
  <1> DEFINE n == table[s].working_days
             Rest == Units(S, table)
             Own == {s} \X (1..n)
  <1>1. IsFiniteSet(Own) /\ Cardinality(Own) = n
    BY OwnUnits
  <1>2. Units(S \cup {s}, table) = Rest \cup Own
    BY DEF Units
  <1>3. Rest \cap Own = {}
    BY DEF Units
  <1>4. Cardinality(Rest) \in Nat
    BY FS_CardinalityType
  <1>5. IsFiniteSet(Rest) /\ n \in Nat
    OBVIOUS
  <1> HIDE DEF Own, Rest, n
  <1>6. /\ IsFiniteSet(Rest \cup Own)
        /\ Cardinality(Rest \cup Own)
             = Cardinality(Rest) + Cardinality(Own) - Cardinality(Rest \cap Own)
    BY <1>1, <1>5, FS_Union
  <1>7. Cardinality(Rest \cup Own) = Cardinality(Rest) + n
    <2>1. Cardinality(Rest \cap Own) = 0
      BY <1>3, FS_EmptySet
    <2> QED BY <1>1, <1>4, <1>5, <1>6, <2>1
  <1> QED BY <1>2, <1>6, <1>7 DEF Rest, n

\* Taking a request out of a set subtracts its working days.
LEMMA UnitsRemove ==
    ASSUME NEW S, NEW table, NEW s \in S, table[s].working_days \in Nat,
           IsFiniteSet(Units(S, table))
    PROVE  Cardinality(Units(S, table))
             = Cardinality(Units(S \ {s}, table)) + table[s].working_days
  <1> DEFINE Rest == S \ {s}
  <1>1. IsFiniteSet(Units(Rest, table))
    BY UnitsMonotone
  <1>2. Rest \cup {s} = S /\ s \notin Rest
    OBVIOUS
  <1> HIDE DEF Rest
  <1>3. Cardinality(Units(Rest \cup {s}, table))
          = Cardinality(Units(Rest, table)) + table[s].working_days
    BY <1>1, <1>2, UnitsAdd
  <1> QED BY <1>2, <1>3 DEF Rest

\* The sum depends on the working days alone.
LEMMA UnitsSame ==
    ASSUME NEW S, NEW table1, NEW table2,
           \A s \in S : table1[s].working_days = table2[s].working_days
    PROVE  Units(S, table1) = Units(S, table2)
  BY DEF Units

UnitsInv == TypeInv /\ IsFiniteSet(Units(Submitted, leave_requests))

\* What a handler that writes balance rows leaves in an account.
LEMMA BalanceAfterWrite ==
    ASSUME NEW rows, leave_types' = leave_types,
           leave_balances' = Write(leave_balances, rows), NEW a
    PROVE  BalanceOf(a)' = IF a \in DOMAIN rows THEN rows[a] ELSE BalanceOf(a)
  BY DEF BalanceOf, Write

\* The days of a set of requests, counted as pairs.
LEMMA TotalDaysIsUnits ==
    /\ \A S : TotalDays(S) = Cardinality(Units(S, leave_requests))
    /\ \A S : TotalDays(S)' = Cardinality(Units(S, leave_requests'))
  BY DEF TotalDays, DayUnits, Units

\* A new request: its accounts reserve its days, the others see nothing.
LEMMA SubmitAccount ==
    ASSUME UnitsInv, NEW s \in SubmissionId, NEW r \in LeaveRequestRow, Submit(s, r),
           r.status = "Pending", NEW a \in Account, AccountOK(a)
    PROVE  AccountOK(a)'
  <1> DEFINE n == r.working_days
             P == Charging(a, "Pending")
             A == Charging(a, "Approved")
             b == BalanceOf(a)
  <1>1. /\ leave_balances' = Write(leave_balances, Reserved(r))
        /\ leave_requests' = Insert(leave_requests, s, r)
        /\ leave_types' = leave_types
        /\ s \notin Submitted
        /\ \A c \in Charged(r) : CanReserve(BalanceOf(c), n)
    BY DEF Submit, Validated
  <1>2. n \in Nat
    BY DEF LeaveRequestRow
  <1>3. b \in BalanceRow
    BY BalanceOfType DEF UnitsInv, TypeInv
  <1>4. /\ Submitted' = Submitted \cup {s}
        /\ leave_requests'[s] = r
        /\ \A x \in Submitted : leave_requests'[x] = leave_requests[x]
    BY <1>1 DEF Submitted, Insert, Write
  <1>5. /\ Charging(a, "Pending")' = P \cup (IF a \in Charged(r) THEN {s} ELSE {})
        /\ Charging(a, "Approved")' = A
    BY <1>1, <1>2, <1>4 DEF Charging, Charged
  <1>6. BalanceOf(a)' = IF a \in Charged(r) THEN Reserve(b, n) ELSE b
    BY <1>1, <1>2, BalanceAfterWrite DEF Reserved
  <1>7. /\ Units(P, leave_requests') = Units(P, leave_requests)
        /\ Units(A, leave_requests') = Units(A, leave_requests)
        /\ IsFiniteSet(Units(P, leave_requests))
        /\ s \notin P
    <2>1. P \subseteq Submitted /\ A \subseteq Submitted
      BY DEF Charging
    <2> HIDE DEF P, A
    <2> QED BY <1>1, <1>4, <2>1, UnitsSame, UnitsMonotone DEF UnitsInv
  <1>8. /\ b.pending = Cardinality(Units(P, leave_requests'))
        /\ b.used = Cardinality(Units(A, leave_requests'))
        /\ b.used + b.pending <= b.entitled
    BY <1>7, TotalDaysIsUnits DEF AccountOK
  <1>9. Cardinality(Units(P \cup {s}, leave_requests'))
          = Cardinality(Units(P, leave_requests')) + n
    <2> DEFINE table == leave_requests'
    <2>1. /\ table[s].working_days = n
          /\ table[s].working_days \in Nat
          /\ IsFiniteSet(Units(P, table))
          /\ s \notin P
      BY <1>2, <1>4, <1>7
    <2> HIDE DEF P, table
    <2>2. Cardinality(Units(P \cup {s}, table))
            = Cardinality(Units(P, table)) + table[s].working_days
      <3>1. /\ table[s].working_days \in Nat
            /\ IsFiniteSet(Units(P, table))
            /\ s \notin P
        BY <2>1
      <3> QED BY ONLY <3>1, UnitsAdd
    <2> QED BY <2>1, <2>2 DEF table
  <1>10. /\ BalanceOf(a)'.pending = Cardinality(Units(Charging(a, "Pending")', leave_requests'))
         /\ BalanceOf(a)'.used = Cardinality(Units(Charging(a, "Approved")', leave_requests'))
         /\ BalanceOf(a)'.used + BalanceOf(a)'.pending <= BalanceOf(a)'.entitled
    <2> HIDE DEF P, A, b
    <2>1. CASE a \in Charged(r)
      <3>1. /\ BalanceOf(a)' = Reserve(b, n)
            /\ Charging(a, "Pending")' = P \cup {s}
        BY <1>5, <1>6, <2>1
      <3>2. b.used + b.pending + n <= b.entitled
        BY <1>1, <2>1 DEF CanReserve, b
      <3>3. /\ Reserve(b, n).pending = b.pending + n
            /\ Reserve(b, n).used = b.used
            /\ Reserve(b, n).entitled = b.entitled
        BY <1>2, <1>3, BalanceOps
      <3>4. b.used \in Nat /\ b.pending \in Nat /\ b.entitled \in Nat
        BY <1>3 DEF BalanceRow
      <3>5. /\ BalanceOf(a)'.pending = Cardinality(Units(P, leave_requests')) + n
            /\ BalanceOf(a)'.used = Cardinality(Units(A, leave_requests'))
        BY <1>8, <3>1, <3>3
      <3>6. BalanceOf(a)'.used + BalanceOf(a)'.pending <= BalanceOf(a)'.entitled
        BY <1>2, <3>1, <3>2, <3>3, <3>4
      <3> QED BY <1>5, <1>9, <3>1, <3>5, <3>6
    <2>2. CASE a \notin Charged(r)
      <3>1. /\ BalanceOf(a)' = b
            /\ Charging(a, "Pending")' = P
        BY <1>5, <1>6, <2>2
      <3> QED BY <1>5, <1>8, <3>1
    <2> QED BY <2>1, <2>2
  <1> QED BY <1>10, TotalDaysIsUnits DEF AccountOK

\* A pending request that is approved, rejected or cancelled: what its accounts
\* had reserved moves to used_days or goes back, exactly.
LEMMA SettleAccount ==
    ASSUME UnitsInv, NEW s \in Submitted, leave_requests[s].status = "Pending",
           NEW st \in {"Approved", "Rejected", "Cancelled"},
           leave_types' = leave_types,
           leave_requests' = [leave_requests EXCEPT ![s].status = st],
           leave_balances' = Write(leave_balances, IF st = "Approved"
                                                   THEN Committed(leave_requests[s])
                                                   ELSE Released(leave_requests[s])),
           NEW a \in Account, AccountOK(a)
    PROVE  AccountOK(a)'
  <1> DEFINE r == leave_requests[s]
             n == r.working_days
             P == Charging(a, "Pending")
             A == Charging(a, "Approved")
             b == BalanceOf(a)
  <1>1. r \in LeaveRequestRow /\ n \in Nat
    BY DEF UnitsInv, TypeInv, TypeOK, LeaveRequestRow
  <1>2. b \in BalanceRow
    BY BalanceOfType DEF UnitsInv, TypeInv
  <1>3. /\ Submitted' = Submitted
        /\ leave_requests'[s].status = st
        /\ \A x \in Submitted :
              /\ leave_requests'[x].applicant = leave_requests[x].applicant
              /\ leave_requests'[x].leave_type = leave_requests[x].leave_type
              /\ leave_requests'[x].request_year = leave_requests[x].request_year
              /\ leave_requests'[x].working_days = leave_requests[x].working_days
              /\ x # s => leave_requests'[x].status = leave_requests[x].status
    BY DEF UnitsInv, TypeInv, TypeOK, LeaveRequestRow, Submitted
  <1>4. \A x \in Submitted : Charged(leave_requests[x])' = Charged(leave_requests[x])
    BY <1>3 DEF Charged, Primary, Secondary
  <1>5. /\ Charging(a, "Pending")' = P \ {s}
        /\ Charging(a, "Approved")'
             = A \cup (IF a \in Charged(r) /\ st = "Approved" THEN {s} ELSE {})
    BY <1>3, <1>4 DEF Charging
  <1>6. BalanceOf(a)' = IF a \notin Charged(r) THEN b
                        ELSE IF st = "Approved" THEN CommitPendingToUsed(b, n)
                        ELSE ReleasePending(b, n)
    <2> DEFINE rows == IF st = "Approved" THEN Committed(r) ELSE Released(r)
    <2>1. BalanceOf(a)' = IF a \in DOMAIN rows THEN rows[a] ELSE BalanceOf(a)
      BY BalanceAfterWrite
    <2>2. /\ DOMAIN rows = Charged(r)
          /\ a \in Charged(r) => rows[a] = IF st = "Approved"
                                           THEN CommitPendingToUsed(b, n)
                                           ELSE ReleasePending(b, n)
      BY DEF Committed, Released
    <2> QED BY <2>1, <2>2
  <1>7. /\ IsFiniteSet(Units(P, leave_requests))
        /\ IsFiniteSet(Units(A, leave_requests))
        /\ \A S \in SUBSET Submitted : Units(S, leave_requests') = Units(S, leave_requests)
        /\ P \subseteq Submitted /\ A \subseteq Submitted
        /\ s \notin A
        /\ a \in Charged(r) <=> s \in P
    <2>1. /\ P \subseteq Submitted /\ A \subseteq Submitted /\ s \notin A
          /\ a \in Charged(r) <=> s \in P
      BY DEF Charging
    <2>2. \A S \in SUBSET Submitted : Units(S, leave_requests') = Units(S, leave_requests)
      <3> SUFFICES ASSUME NEW S \in SUBSET Submitted
                   PROVE  Units(S, leave_requests') = Units(S, leave_requests)
        OBVIOUS
      <3>1. \A x \in S : leave_requests'[x].working_days = leave_requests[x].working_days
        BY <1>3
      <3> QED BY <3>1, UnitsSame
    <2> HIDE DEF P, A
    <2> QED BY <2>1, <2>2, UnitsMonotone DEF UnitsInv
  <1>8. /\ b.pending = Cardinality(Units(P, leave_requests))
        /\ b.used = Cardinality(Units(A, leave_requests))
        /\ b.used + b.pending <= b.entitled
    BY TotalDaysIsUnits DEF AccountOK
  <1>9. /\ Cardinality(Units(P \ {s}, leave_requests)) \in Nat
        /\ s \in P => Cardinality(Units(P, leave_requests))
                         = Cardinality(Units(P \ {s}, leave_requests)) + n
        /\ Cardinality(Units(A \cup {s}, leave_requests))
             = Cardinality(Units(A, leave_requests)) + n
    <2> DEFINE table == leave_requests
    <2>1. /\ table[s].working_days = n
          /\ table[s].working_days \in Nat
          /\ IsFiniteSet(Units(P, table)) /\ IsFiniteSet(Units(A, table))
          /\ s \notin A
      BY <1>1, <1>7
    <2> HIDE DEF P, A, table, n
    <2>2. Cardinality(Units(P \ {s}, table)) \in Nat
      <3>1. IsFiniteSet(Units(P \ {s}, table))
        BY <2>1, UnitsMonotone
      <3> QED BY <3>1, FS_CardinalityType
    <2>3. s \in P => Cardinality(Units(P, table)) = Cardinality(Units(P \ {s}, table)) + n
      BY <2>1, UnitsRemove
    <2>4. Cardinality(Units(A \cup {s}, table))
            = Cardinality(Units(A, table)) + table[s].working_days
      <3>1. /\ table[s].working_days \in Nat
            /\ IsFiniteSet(Units(A, table))
            /\ s \notin A
        BY <2>1
      <3> QED BY ONLY <3>1, UnitsAdd
    <2> QED BY <2>1, <2>2, <2>3, <2>4 DEF table
  <1>10. /\ BalanceOf(a)'.pending = Cardinality(Units(Charging(a, "Pending")', leave_requests))
         /\ BalanceOf(a)'.used = Cardinality(Units(Charging(a, "Approved")', leave_requests))
         /\ BalanceOf(a)'.used + BalanceOf(a)'.pending <= BalanceOf(a)'.entitled
    <2> HIDE DEF P, A, b, n, r
    <2>1. b.used \in Nat /\ b.pending \in Nat /\ b.entitled \in Nat
      BY <1>2 DEF BalanceRow
    <2>2. CASE a \notin Charged(r)
      <3>1. /\ BalanceOf(a)' = b
            /\ Charging(a, "Pending")' = P
            /\ Charging(a, "Approved")' = A
        BY <1>5, <1>6, <1>7, <2>2
      <3> QED BY <1>8, <3>1
    <2>3. CASE a \in Charged(r) /\ st = "Approved"
      <3>1. /\ BalanceOf(a)' = CommitPendingToUsed(b, n)
            /\ Charging(a, "Pending")' = P \ {s}
            /\ Charging(a, "Approved")' = A \cup {s}
        BY <1>5, <1>6, <2>3
      <3>2. b.pending >= n /\ b.pending - n = Cardinality(Units(P \ {s}, leave_requests))
        BY <1>1, <1>7, <1>8, <1>9, <2>3
      <3>3. /\ BalanceOf(a)'.pending = b.pending - n
            /\ BalanceOf(a)'.used = b.used + n
            /\ BalanceOf(a)'.entitled = b.entitled
        BY <1>1, <1>2, <3>1, <3>2, BalanceOps
      <3>4. BalanceOf(a)'.used + BalanceOf(a)'.pending <= BalanceOf(a)'.entitled
        BY <1>1, <1>8, <2>1, <3>3
      <3> QED BY <1>1, <1>8, <1>9, <2>1, <3>1, <3>2, <3>3, <3>4
    <2>4. CASE a \in Charged(r) /\ st # "Approved"
      <3>1. /\ BalanceOf(a)' = ReleasePending(b, n)
            /\ Charging(a, "Pending")' = P \ {s}
            /\ Charging(a, "Approved")' = A
        BY <1>5, <1>6, <2>4
      <3>2. b.pending >= n /\ b.pending - n = Cardinality(Units(P \ {s}, leave_requests))
        BY <1>1, <1>7, <1>8, <1>9, <2>4
      <3>3. /\ BalanceOf(a)'.pending = b.pending - n
            /\ BalanceOf(a)'.used = b.used
            /\ BalanceOf(a)'.entitled = b.entitled
        BY <1>1, <1>2, <3>1, <3>2, BalanceOps
      <3>4. BalanceOf(a)'.used + BalanceOf(a)'.pending <= BalanceOf(a)'.entitled
        BY <1>1, <1>8, <2>1, <3>3
      <3> QED BY <1>1, <1>8, <1>9, <2>1, <3>1, <3>2, <3>3, <3>4
    <2> QED BY <2>2, <2>3, <2>4
  <1>11. /\ Charging(a, "Pending")' \in SUBSET Submitted
         /\ Charging(a, "Approved")' \in SUBSET Submitted
    BY <1>5, <1>7
  <1>12. /\ Units(Charging(a, "Pending")', leave_requests')
               = Units(Charging(a, "Pending")', leave_requests)
         /\ Units(Charging(a, "Approved")', leave_requests')
               = Units(Charging(a, "Approved")', leave_requests)
    BY <1>7, <1>11
  <1> QED BY <1>10, <1>12, TotalDaysIsUnits DEF AccountOK

\* An edit of a leave type that leaves the account charged as before.
LEMMA UpdateAccount ==
    ASSUME UnitsInv, NEW t \in LeaveType, NEW row \in LeaveTypeRow, UpdateLeaveType(t, row),
           NEW a \in Account, AccountOK(a),
           \A s \in Submitted :
              (a \in Charged(leave_requests[s])) <=> (a \in Charged(leave_requests[s]))'
    PROVE  AccountOK(a)'
  <1>1. /\ Charging(a, "Pending")' = Charging(a, "Pending")
        /\ Charging(a, "Approved")' = Charging(a, "Approved")
    BY DEF UpdateLeaveType, Charging, Submitted
  <1>2. /\ TotalDays(Charging(a, "Pending"))' = TotalDays(Charging(a, "Pending"))
        /\ TotalDays(Charging(a, "Approved"))' = TotalDays(Charging(a, "Approved"))
    BY <1>1 DEF UpdateLeaveType, TotalDays, DayUnits
  <1>3. /\ BalanceOf(a)'.used = BalanceOf(a).used
        /\ BalanceOf(a)'.pending = BalanceOf(a).pending
        /\ BalanceOf(a)'.used + BalanceOf(a)'.pending <= BalanceOf(a)'.entitled
    <2>1. CASE a \in DOMAIN leave_balances
      BY <2>1 DEF UpdateLeaveType, BalanceOf, AccountOK
    <2>2. CASE a \notin DOMAIN leave_balances
      <3>1. leave_types'[a[2]].annual_cap \in Nat
        BY DomainAssumption DEF UnitsInv, TypeInv, TypeOK, UpdateLeaveType, Account
      <3> QED BY <2>2, <3>1 DEF UpdateLeaveType, BalanceOf
    <2> QED BY <2>1, <2>2
  <1> QED BY <1>2, <1>3 DEF AccountOK

\* A workbook line that leaves the account alone, or opens it unused.
LEMMA SeedAccount ==
    ASSUME UnitsInv, NEW line \in Workbook, SeedBalance(line),
           NEW a \in Account, AccountOK(a),
           a = SeededAccount(line) => /\ a \notin DOMAIN leave_balances
                                      /\ line.balance.used = 0
                                      /\ line.balance.pending = 0
    PROVE  AccountOK(a)'
  <1>1. /\ TotalDays(Charging(a, "Pending"))' = TotalDays(Charging(a, "Pending"))
        /\ TotalDays(Charging(a, "Approved"))' = TotalDays(Charging(a, "Approved"))
    BY DEF SeedBalance, TotalDays, DayUnits, Charging, Charged, Submitted
  <1>2. BalanceOf(a)' = IF a = SeededAccount(line) THEN line.balance ELSE BalanceOf(a)
    BY DEF SeedBalance, BalanceOf, Insert, Write
  <1>3. line.balance.entitled \in Nat
    BY DomainAssumption DEF WorkbookLine, BalanceRow
  <1>4. CASE a = SeededAccount(line)
    <2>1. BalanceOf(a).used = 0 /\ BalanceOf(a).pending = 0
      BY <1>4 DEF BalanceOf
    <2> QED BY <1>1, <1>2, <1>3, <1>4, <2>1 DEF AccountOK
  <1>5. CASE a # SeededAccount(line)
    BY <1>1, <1>2, <1>5 DEF AccountOK
  <1> QED BY <1>4, <1>5

\* The sum of all working days stays a number.
LEMMA UnitsStep == UnitsInv /\ [Next]_vars => UnitsInv'
  <1> SUFFICES ASSUME UnitsInv, [Next]_vars PROVE UnitsInv'
    OBVIOUS
  <1>1. TypeInv'
    BY NextType DEF UnitsInv
  <1>2. CASE SubmitAny
    <2>1. PICK s \in SubmissionId, r \in LeaveRequestRow : Submit(s, r)
      BY <1>2, SubmitSteps DEF UnitsInv, TypeInv
    <2>2. /\ Submitted' = Submitted \cup {s} /\ s \notin Submitted
          /\ \A x \in Submitted : leave_requests'[x] = leave_requests[x]
      BY <2>1 DEF Submit, Validated, Insert, Write, Submitted
    <2>3. leave_requests'[s].working_days \in Nat
      BY <1>1, <2>2 DEF TypeInv, TypeOK, LeaveRequestRow
    <2> DEFINE table == leave_requests'
               S == Submitted
    <2>4. IsFiniteSet(Units(S, table))
      <3>1. \A x \in S : table[x].working_days = leave_requests[x].working_days
        BY <2>2
      <3>2. IsFiniteSet(Units(S, leave_requests))
        BY DEF UnitsInv
      <3> HIDE DEF S, table
      <3> QED BY <3>1, <3>2, UnitsSame
    <2>5. s \notin S /\ table[s].working_days \in Nat
      BY <2>2, <2>3
    <2>6. IsFiniteSet(Units(S \cup {s}, table))
      <3> HIDE DEF S, table
      <3> QED BY ONLY <2>4, <2>5, UnitsAdd
    <2> QED BY <1>1, <2>2, <2>6 DEF UnitsInv
  <1>3. CASE Submitted' = Submitted /\ \A x \in Submitted :
                leave_requests'[x].working_days = leave_requests[x].working_days
    <2>1. Units(Submitted, leave_requests') = Units(Submitted, leave_requests)
      BY <1>3, UnitsSame
    <2> QED BY <1>1, <1>3, <2>1 DEF UnitsInv
  <1>4. CASE DecideAny \/ CancelAny
    <2>1. PICK s \in Submitted, st \in Status :
            leave_requests' = [leave_requests EXCEPT ![s].status = st]
      BY <1>4 DEF DecideAny, CancelAny, Decide, Cancel, Decision, Status
    <2>2. Submitted' = Submitted /\ \A x \in Submitted :
            leave_requests'[x].working_days = leave_requests[x].working_days
      BY <2>1 DEF Submitted, UnitsInv, TypeInv, TypeOK, LeaveRequestRow
    <2> QED BY <1>3, <2>2
  <1>5. CASE \/ \E t \in LeaveType, row \in LeaveTypeRow : UpdateLeaveType(t, row)
             \/ \E line \in Workbook : SeedBalance(line)
             \/ UNCHANGED vars
    BY <1>3, <1>5 DEF UpdateLeaveType, SeedBalance, vars, Submitted
  <1> QED BY <1>2, <1>4, <1>5 DEF Next

\* At the start there is nothing to count.
LEMMA InitUnits == Init => UnitsInv
  <1> SUFFICES ASSUME Init PROVE UnitsInv
    OBVIOUS
  <1>1. Units(Submitted, leave_requests) = {}
    BY DEF Init, Units, Submitted
  <1> QED BY <1>1, InitType, FS_EmptySet DEF UnitsInv

\* At the start every account is as it should be.
LEMMA InitAccount ==
    ASSUME Init, NEW a \in Account
    PROVE  AccountOK(a)
  <1>1. /\ TotalDays(Charging(a, "Pending")) = 0
        /\ TotalDays(Charging(a, "Approved")) = 0
    <2>1. Submitted = {}
      BY DEF Init, Submitted
    <2>2. Charging(a, "Pending") = {} /\ Charging(a, "Approved") = {}
      BY <2>1 DEF Charging
    <2>3. DayUnits({}) = {}
      BY DEF DayUnits
    <2> QED BY <2>2, <2>3, FS_EmptySet DEF TotalDays
  <1>2. BalanceOf(a).entitled \in Nat /\ BalanceOf(a).used = 0 /\ BalanceOf(a).pending = 0
    <2>1. leave_types[a[2]].annual_cap \in Nat
      BY DomainAssumption DEF Init, Account
    <2>2. a \notin DOMAIN leave_balances
      BY DEF Init
    <2> QED BY <2>1, <2>2 DEF BalanceOf
  <1> QED BY <1>1, <1>2 DEF AccountOK

\* Submissions, decisions and cancellations keep every account in order.
LEMMA WorkflowAccount ==
    ASSUME UnitsInv, SubmitAny \/ DecideAny \/ CancelAny,
           NEW a \in Account, AccountOK(a)
    PROVE  AccountOK(a)'
  <1>1. CASE SubmitAny
    BY <1>1, SubmitSteps, SubmitAccount DEF UnitsInv, TypeInv
  <1>2. CASE DecideAny
    <2>1. PICK s \in Submitted, actor \in Employee, decision \in Decision, k \in Stage :
            Decide(s, actor, decision, k)
      BY <1>2 DEF DecideAny
    <2>2. /\ leave_requests[s].status = "Pending"
          /\ decision \in {"Approved", "Rejected", "Cancelled"}
          /\ leave_types' = leave_types
          /\ leave_requests' = [leave_requests EXCEPT ![s].status = decision]
          /\ leave_balances' = Write(leave_balances, IF decision = "Approved"
                                                     THEN Committed(leave_requests[s])
                                                     ELSE Released(leave_requests[s]))
      BY <2>1 DEF Decide, MayDecide, Decision
    <2> QED BY <2>2, SettleAccount
  <1>3. CASE CancelAny
    <2>1. PICK s \in Submitted, actor \in Employee : Cancel(s, actor)
      BY <1>3 DEF CancelAny
    <2> DEFINE st == "Cancelled"
    <2>2. /\ leave_requests[s].status = "Pending"
          /\ st \in {"Approved", "Rejected", "Cancelled"}
          /\ leave_types' = leave_types
          /\ leave_requests' = [leave_requests EXCEPT ![s].status = st]
          /\ leave_balances' = Write(leave_balances, IF st = "Approved"
                                                     THEN Committed(leave_requests[s])
                                                     ELSE Released(leave_requests[s]))
      BY <2>1 DEF Cancel, MayCancel
    <2> HIDE DEF st
    <2> QED BY <2>2, SettleAccount
  <1> QED BY <1>1, <1>2, <1>3

-----------------------------------------------------------------------------

StableInv == UnitsInv /\ LedgerBalanced

\* A step that leaves flags alone keeps every account in balance.
LEMMA StableStep == StableInv /\ [StableNext]_vars => StableInv'
  <1> SUFFICES ASSUME StableInv, [StableNext]_vars PROVE StableInv'
    OBVIOUS
  <1>1. UnitsInv'
    <2>1. [Next]_vars
      BY DEF StableNext, Next
    <2> QED BY <2>1, UnitsStep DEF StableInv
  <1>2. ASSUME NEW a \in Account PROVE AccountOK(a)'
    <2>1. UnitsInv /\ AccountOK(a)
      BY DEF StableInv, LedgerBalanced
    <2>2. CASE SubmitAny \/ DecideAny \/ CancelAny
      BY <2>1, <2>2, WorkflowAccount
    <2>3. CASE \E t \in LeaveType, row \in LeaveTypeRow :
                  /\ row.deducts_from_annual = leave_types[t].deducts_from_annual
                  /\ UpdateLeaveType(t, row)
      <3>1. PICK t \in LeaveType, row \in LeaveTypeRow :
                  /\ row.deducts_from_annual = leave_types[t].deducts_from_annual
                  /\ UpdateLeaveType(t, row)
        BY <2>3
      <3>2. \A u \in LeaveType :
              leave_types'[u].deducts_from_annual = leave_types[u].deducts_from_annual
        BY <2>1, <3>1 DEF UpdateLeaveType, UnitsInv, TypeInv, TypeOK
      <3>3. \A s \in Submitted : Charged(leave_requests[s])' = Charged(leave_requests[s])
        BY <2>1, <3>1, <3>2 DEF UpdateLeaveType, Charged, Primary, Secondary, UnitsInv, TypeInv,
                                TypeOK, LeaveRequestRow
      <3> QED BY <2>1, <3>1, <3>3, UpdateAccount
    <2>4. CASE \E line \in Workbook :
                  /\ SeededAccount(line) \notin DOMAIN leave_balances
                  /\ line.balance.used = 0 /\ line.balance.pending = 0
                  /\ SeedBalance(line)
      BY <2>1, <2>4, SeedAccount
    <2>5. CASE UNCHANGED vars
      BY <2>1, <2>5 DEF vars, AccountOK, BalanceOf, TotalDays, DayUnits, Charging, Charged,
                        Submitted
    <2> QED BY <2>2, <2>3, <2>4, <2>5 DEF StableNext
  <1> QED BY <1>1, <1>2 DEF StableInv, LedgerBalanced, Account, Year

\* ADR-07 for every history in which the deduction flags stay put: each balance
\* is the sum of the requests it stands for, within the entitlement.
THEOREM LedgerTheorem == StableSpec => []LedgerBalanced
  <1>1. Init => StableInv
    BY InitUnits, InitAccount DEF StableInv, LedgerBalanced
  <1> QED BY <1>1, StableStep, PTL DEF StableSpec, StableInv

\* ADR-07 as balance_engine.py states it, under the same condition.
THEOREM NoOverdraftTheorem == StableSpec => []NoOverdraft
  <1>1. Init => StableInv
    BY InitUnits, InitAccount DEF StableInv, LedgerBalanced
  <1>2. StableInv => NoOverdraft
    BY DEF StableInv, UnitsInv, TypeInv, TypeOK, LedgerBalanced, AccountOK, BalanceOf,
           NoOverdraft
  <1> QED BY <1>1, <1>2, StableStep, PTL DEF StableSpec

OwnInv == UnitsInv /\ OwnLedgerBalanced

\* Any step keeps the accounts of other types than the annual one in balance.
LEMMA OwnStep == OwnInv /\ [Next]_vars => OwnInv'
  <1> SUFFICES ASSUME OwnInv, [Next]_vars PROVE OwnInv'
    OBVIOUS
  <1>1. UnitsInv'
    BY UnitsStep DEF OwnInv
  <1>2. ASSUME NEW a \in Account, a[2] # Annual PROVE AccountOK(a)'
    <2>1. UnitsInv /\ AccountOK(a)
      BY <1>2 DEF OwnInv, OwnLedgerBalanced
    <2>2. CASE SubmitAny \/ DecideAny \/ CancelAny
      BY <2>1, <2>2, WorkflowAccount
    <2>3. CASE \E t \in LeaveType, row \in LeaveTypeRow : UpdateLeaveType(t, row)
      <3>1. \A s \in Submitted :
              (a \in Charged(leave_requests[s])) <=> (a \in Charged(leave_requests[s]))'
        BY <1>2, <2>3 DEF UpdateLeaveType, Charged, Primary, Secondary, Account
      <3> QED BY <2>1, <2>3, <3>1, UpdateAccount
    <2>4. CASE \E line \in Workbook : SeedBalance(line)
      <3>1. \A line : SeededAccount(line)[2] = Annual
        BY DEF SeededAccount
      <3> QED BY <1>2, <2>1, <2>4, <3>1, SeedAccount
    <2>5. CASE UNCHANGED vars
      BY <2>1, <2>5 DEF vars, AccountOK, BalanceOf, TotalDays, DayUnits, Charging, Charged,
                        Submitted
    <2> QED BY <2>2, <2>3, <2>4, <2>5 DEF Next
  <1> QED BY <1>1, <1>2 DEF OwnInv, OwnLedgerBalanced, Account, Year

\* Every account but the annual one keeps its ledger under all edits and loads.
THEOREM OwnLedgerTheorem == Spec => []OwnLedgerBalanced
  <1>1. Init => OwnInv
    BY InitUnits, InitAccount DEF OwnInv, OwnLedgerBalanced
  <1> QED BY <1>1, OwnStep, PTL DEF Spec, OwnInv

-----------------------------------------------------------------------------
(***************************************************************************)
(* Bookings.                                                               *)
(***************************************************************************)

\* How a step may change the table of requests: one row inserted under a free
\* submission id by a handler that checked it, or one pending row settled.
Inserted(s, r) ==
    /\ s \notin Submitted
    /\ leave_requests' = Insert(leave_requests, s, r)
    /\ r.request_year \in Year
    /\ r.number = NextRequestNumber(r.request_year)
    /\ ~IsAway(r.applicant, r.start_date, r.end_date)
    /\ r.substitute # r.applicant
    /\ r.substitute \in Employee => ~IsAway(r.substitute, r.start_date, r.end_date)

Settled(s, st) ==
    /\ leave_requests[s].status = "Pending"
    /\ leave_requests' = [leave_requests EXCEPT ![s].status = st]

\* What the steps do to the stored requests.
LEMMA RequestSteps ==
    ASSUME TypeInv, [Next]_vars
    PROVE  \/ \E s \in SubmissionId, r \in LeaveRequestRow : Inserted(s, r)
           \/ \E s \in Submitted, st \in Status : Settled(s, st)
           \/ UNCHANGED leave_requests
  <1>1. CASE SubmitAny
    <2>1. PICK s \in SubmissionId, r \in LeaveRequestRow :
              Submit(s, r) /\ r.number = NextRequestNumber(r.request_year)
      BY <1>1, SubmitSteps DEF TypeInv
    <2>2. r.request_year \in Year
      BY DEF LeaveRequestRow
    <2>3. Inserted(s, r)
      BY <2>1, <2>2, DomainAssumption DEF Submit, Validated, MayCover, Inserted
    <2> QED BY <2>3
  <1>2. CASE DecideAny \/ CancelAny
    BY <1>2 DEF DecideAny, CancelAny, Decide, Cancel, MayDecide, MayCancel, Decision, Status,
                Settled
  <1>3. CASE \/ \E t \in LeaveType, row \in LeaveTypeRow : UpdateLeaveType(t, row)
             \/ \E line \in Workbook : SeedBalance(line)
             \/ UNCHANGED vars
    BY <1>3 DEF UpdateLeaveType, SeedBalance, vars
  <1> QED BY <1>1, <1>2, <1>3 DEF Next

\* Two ranges of days share a day exactly when the overlap query says so; the
\* query of the code compares the ends, the properties compare the days.
LEMMA OverlapIsSharedDay ==
    ASSUME NEW f1 \in Int, NEW u1 \in Int, NEW f2 \in Int, NEW u2 \in Int,
           ~Overlap(f1, u1, f2, u2)
    PROVE  (f1..u1) \cap (f2..u2) = {}
  BY DEF Overlap

\* Settling a request changes no row but in its status, which leaves Pending.
LEMMA SettledRows ==
    ASSUME TypeInv, NEW s \in Submitted, NEW st \in Status, Settled(s, st)
    PROVE  /\ Submitted' = Submitted
           /\ \A x \in Submitted :
                 /\ leave_requests'[x] = [leave_requests[x] EXCEPT !.status
                                             = leave_requests'[x].status]
                 /\ leave_requests'[x].applicant = leave_requests[x].applicant
                 /\ leave_requests'[x].substitute = leave_requests[x].substitute
                 /\ leave_requests'[x].start_date = leave_requests[x].start_date
                 /\ leave_requests'[x].end_date = leave_requests[x].end_date
                 /\ leave_requests'[x].request_year = leave_requests[x].request_year
                 /\ leave_requests'[x].number = leave_requests[x].number
                 /\ leave_requests'[x].status \in Active => leave_requests[x].status \in Active
  BY DEF Settled, TypeInv, TypeOK, LeaveRequestRow, Submitted, Active

\* A new row stands beside the others, which it leaves alone.
LEMMA InsertedRows ==
    ASSUME NEW s, NEW r, Inserted(s, r)
    PROVE  /\ Submitted' = Submitted \cup {s}
           /\ leave_requests'[s] = r
           /\ \A x \in Submitted : leave_requests'[x] = leave_requests[x]
  BY DEF Inserted, Insert, Write, Submitted

\* No step books a person twice.
LEMMA BookingStep == TypeInv /\ NoDoubleBooking /\ [Next]_vars => NoDoubleBooking'
  <1> SUFFICES ASSUME TypeInv, NoDoubleBooking, [Next]_vars PROVE NoDoubleBooking'
    OBVIOUS
  <1>1. ASSUME NEW s \in SubmissionId, NEW r \in LeaveRequestRow, Inserted(s, r)
        PROVE  NoDoubleBooking'
    <2>1. /\ Submitted' = Submitted \cup {s} /\ s \notin Submitted
          /\ leave_requests'[s] = r
          /\ \A x \in Submitted : leave_requests'[x] = leave_requests[x]
      BY <1>1, InsertedRows DEF Inserted
    <2>2. ASSUME NEW x \in Submitted, leave_requests[x].applicant = r.applicant,
                 leave_requests[x].status \in Active
          PROVE  /\ DaysOff(x) \cap (r.start_date..r.end_date) = {}
                 /\ (r.start_date..r.end_date) \cap DaysOff(x) = {}
      <3>1. ~Overlap(leave_requests[x].start_date, leave_requests[x].end_date,
                     r.start_date, r.end_date)
        BY <1>1, <2>2 DEF Inserted, IsAway
      <3>2. /\ leave_requests[x].start_date \in Int /\ leave_requests[x].end_date \in Int
            /\ r.start_date \in Int /\ r.end_date \in Int
        BY DomainAssumption DEF TypeInv, TypeOK, LeaveRequestRow
      <3> QED BY <3>1, <3>2, OverlapIsSharedDay DEF DaysOff
    <2> QED BY <2>1, <2>2 DEF NoDoubleBooking, DaysOff
  <1>2. ASSUME NEW s \in Submitted, NEW st \in Status, Settled(s, st)
        PROVE  NoDoubleBooking'
    <2>1. /\ Submitted' = Submitted
          /\ \A x \in Submitted :
                /\ leave_requests'[x].applicant = leave_requests[x].applicant
                /\ DaysOff(x)' = DaysOff(x)
                /\ leave_requests'[x].status \in Active => leave_requests[x].status \in Active
      BY <1>2, SettledRows DEF DaysOff
    <2> QED BY ONLY <2>1, NoDoubleBooking DEF NoDoubleBooking
  <1>3. CASE UNCHANGED leave_requests
    BY <1>3 DEF NoDoubleBooking, DaysOff, Submitted
  <1> QED BY <1>1, <1>2, <1>3, RequestSteps

\* Nobody is ever booked twice for one day.
THEOREM NoDoubleBookingTheorem == Spec => []NoDoubleBooking
  <1>1. Init => NoDoubleBooking
    BY DEF Init, NoDoubleBooking, Submitted
  <1> QED BY <1>1, InitType, NextType, BookingStep, PTL DEF Spec

\* No step closes a circle of covers.
LEMMA CoverStep == TypeInv /\ NoCoverCycle /\ [Next]_vars => NoCoverCycle'
  <1> DEFINE Live == {x \in Submitted : leave_requests[x].status \in Active}
  <1> SUFFICES ASSUME TypeInv, NoCoverCycle, [Next]_vars,
                      NEW S \in SUBSET Live', S # {}
               PROVE  \E s1 \in S : \A s2 \in S : ~Covers(s1, s2)'
    BY DEF NoCoverCycle
  <1>1. ASSUME NEW s \in SubmissionId, NEW r \in LeaveRequestRow, Inserted(s, r)
        PROVE  \E s1 \in S : \A s2 \in S : ~Covers(s1, s2)'
    <2>1. /\ Submitted' = Submitted \cup {s} /\ s \notin Submitted
          /\ leave_requests'[s] = r
          /\ \A x \in Submitted : leave_requests'[x] = leave_requests[x]
      BY <1>1, InsertedRows DEF Inserted
    <2>2. CASE s \in S
      <3> SUFFICES ASSUME NEW x \in S, Covers(s, x)' PROVE FALSE
        BY <2>2
      <3>1. /\ r.substitute = leave_requests'[x].applicant
            /\ (r.start_date..r.end_date)
                 \cap (leave_requests'[x].start_date..leave_requests'[x].end_date) # {}
        BY <2>1 DEF Covers, DaysOff
      <3>2. CASE x = s
        BY <1>1, <2>1, <3>1, <3>2 DEF Inserted
      <3>3. CASE x # s
        <4>1. /\ x \in Submitted
              /\ leave_requests'[x] = leave_requests[x]
              /\ leave_requests[x].status \in Active
          BY <2>1, <3>3
        <4>2. /\ leave_requests[x].start_date \in Int /\ leave_requests[x].end_date \in Int
              /\ r.start_date \in Int /\ r.end_date \in Int
              /\ leave_requests[x].applicant \in Employee
          BY <4>1, DomainAssumption DEF TypeInv, TypeOK, LeaveRequestRow
        <4>3. Overlap(leave_requests[x].start_date, leave_requests[x].end_date,
                      r.start_date, r.end_date)
          BY <3>1, <4>1, <4>2 DEF Overlap
        <4>4. ~IsAway(r.substitute, r.start_date, r.end_date)
          BY <1>1, <3>1, <4>1, <4>2 DEF Inserted
        <4> QED BY <3>1, <4>1, <4>3, <4>4 DEF IsAway
      <3> QED BY <3>2, <3>3
    <2>3. CASE s \notin S
      <3>1. S \in SUBSET Live
        BY <2>1, <2>3
      <3>2. PICK s1 \in S : \A s2 \in S : ~Covers(s1, s2)
        BY <3>1 DEF NoCoverCycle
      <3>3. \A s2 \in S : Covers(s1, s2)' <=> Covers(s1, s2)
        BY <2>1, <3>1 DEF Covers, DaysOff
      <3> QED BY <3>2, <3>3
    <2> QED BY <2>2, <2>3
  <1>2. ASSUME NEW s \in Submitted, NEW st \in Status, Settled(s, st)
        PROVE  \E s1 \in S : \A s2 \in S : ~Covers(s1, s2)'
    <2>1. S \in SUBSET Live
      BY <1>2, SettledRows
    <2>2. PICK s1 \in S : \A s2 \in S : ~Covers(s1, s2)
      BY <2>1 DEF NoCoverCycle
    <2>3. \A s2 \in S : Covers(s1, s2)' <=> Covers(s1, s2)
      BY <1>2, <2>1, SettledRows DEF Covers, DaysOff
    <2> QED BY <2>2, <2>3
  <1>3. CASE UNCHANGED leave_requests
    <2>1. S \in SUBSET Live
      BY <1>3 DEF Submitted
    <2>2. PICK s1 \in S : \A s2 \in S : ~Covers(s1, s2)
      BY <2>1 DEF NoCoverCycle
    <2> QED BY <1>3, <2>2 DEF Covers, DaysOff
  <1> QED BY <1>1, <1>2, <1>3, RequestSteps

\* Substitutes never stand in for each other in a circle, however long.
THEOREM NoCoverCycleTheorem == Spec => []NoCoverCycle
  <1>1. Init => NoCoverCycle
    BY DEF Init, NoCoverCycle, Submitted
  <1> QED BY <1>1, InitType, NextType, CoverStep, PTL DEF Spec

-----------------------------------------------------------------------------

\* The keys of a year are finitely many.
LEMMA YearFinite ==
    ASSUME TypeInv
    PROVE  \A y : IsFiniteSet(OfYear(y)) /\ Cardinality(OfYear(y)) \in Nat
  <1> SUFFICES ASSUME NEW y PROVE IsFiniteSet(OfYear(y)) /\ Cardinality(OfYear(y)) \in Nat
    OBVIOUS
  <1>1. OfYear(y) \subseteq Submitted
    BY DEF OfYear
  <1> QED BY <1>1, FS_Subset, FS_CardinalityType DEF TypeInv

\* A row with the next number of its year keeps the keys dense; the other years
\* are not concerned.
LEMMA KeyAdded ==
    ASSUME TypeInv, KeysDense, NEW s \in SubmissionId, NEW r \in LeaveRequestRow,
           s \notin Submitted, leave_requests' = Insert(leave_requests, s, r),
           r.number = NextRequestNumber(r.request_year)
    PROVE  /\ KeysDense'
           /\ \A y : OfYear(y)' = IF y = r.request_year THEN OfYear(y) \cup {s} ELSE OfYear(y)
           /\ \A y : Cardinality(OfYear(y)') >= Cardinality(OfYear(y))
  <1>1. /\ Submitted' = Submitted \cup {s}
        /\ leave_requests'[s] = r
        /\ \A x \in Submitted : leave_requests'[x] = leave_requests[x]
    BY DEF Insert, Write, Submitted
  <1>2. \A y : OfYear(y)' = IF y = r.request_year THEN OfYear(y) \cup {s} ELSE OfYear(y)
    BY <1>1 DEF OfYear
  <1>3. \A y : Cardinality(OfYear(y)') = IF y = r.request_year THEN Cardinality(OfYear(y)) + 1
                                         ELSE Cardinality(OfYear(y))
    <2>1. \A y : s \notin OfYear(y)
      BY DEF OfYear
    <2> QED BY <1>2, <2>1, YearFinite, FS_AddElement
  <1>4. ASSUME NEW y \in Year
        PROVE  {leave_requests'[x].number : x \in OfYear(y)'} = 1..Cardinality(OfYear(y)')
    <2>1. {leave_requests[x].number : x \in OfYear(y)} = 1..Cardinality(OfYear(y))
      BY DEF KeysDense
    <2>2. CASE r.request_year = y
      <3>1. {leave_requests'[x].number : x \in OfYear(y)'}
              = {leave_requests[x].number : x \in OfYear(y)} \cup {r.number}
        BY <1>1, <1>2, <2>2 DEF OfYear
      <3> QED BY <1>3, <2>1, <2>2, <3>1, YearFinite DEF NextRequestNumber
    <2>3. CASE r.request_year # y
      <3>1. {leave_requests'[x].number : x \in OfYear(y)'}
              = {leave_requests[x].number : x \in OfYear(y)}
        BY <1>1, <1>2, <2>3 DEF OfYear
      <3> QED BY <1>3, <2>1, <2>3, <3>1
    <2> QED BY <2>2, <2>3
  <1>5. KeysDense'
    BY <1>4 DEF KeysDense, Year
  <1> QED BY <1>2, <1>3, <1>5, YearFinite

\* Keys depend on nothing but the years and numbers of the rows.
LEMMA KeysKept ==
    ASSUME KeysDense, Submitted' = Submitted,
           \A x \in Submitted : /\ leave_requests'[x].request_year = leave_requests[x].request_year
                                /\ leave_requests'[x].number = leave_requests[x].number
    PROVE  KeysDense' /\ \A y : OfYear(y)' = OfYear(y)
  <1>1. \A y : OfYear(y)' = OfYear(y)
    BY DEF OfYear
  <1>2. ASSUME NEW y \in Year
        PROVE  {leave_requests'[x].number : x \in OfYear(y)'} = 1..Cardinality(OfYear(y)')
    <2>1. {leave_requests'[x].number : x \in OfYear(y)'}
            = {leave_requests[x].number : x \in OfYear(y)}
      BY <1>1 DEF OfYear
    <2> QED BY <1>1, <2>1 DEF KeysDense
  <1> QED BY <1>1, <1>2 DEF KeysDense, Year

\* Every step keeps the keys dense.
LEMMA KeysStep == TypeInv /\ KeysDense /\ [Next]_vars => KeysDense'
  <1> SUFFICES ASSUME TypeInv, KeysDense, [Next]_vars PROVE KeysDense'
    OBVIOUS
  <1>1. ASSUME NEW s \in SubmissionId, NEW r \in LeaveRequestRow, Inserted(s, r)
        PROVE  KeysDense'
    BY <1>1, KeyAdded DEF Inserted
  <1>2. ASSUME NEW s \in Submitted, NEW st \in Status, Settled(s, st)
        PROVE  KeysDense'
    BY <1>2, SettledRows, KeysKept
  <1>3. CASE UNCHANGED leave_requests
    BY <1>3, KeysKept DEF Submitted
  <1> QED BY <1>1, <1>2, <1>3, RequestSteps

\* The request keys of a year are consecutive and distinct.
THEOREM KeysDenseTheorem == Spec => []KeysDense
  <1>1. Init => KeysDense
    <2> SUFFICES ASSUME Init PROVE KeysDense
      OBVIOUS
    <2>1. \A y : OfYear(y) = {}
      BY DEF Init, OfYear, Submitted
    <2> QED BY <2>1, FS_EmptySet DEF KeysDense
  <1> QED BY <1>1, InitType, NextType, KeysStep, PTL DEF Spec

-----------------------------------------------------------------------------

\* The formula of DecisionIsFinal for one request.
KeptRow(s) ==
    /\ s \in Submitted'
    /\ leave_requests'[s] = [leave_requests[s] EXCEPT !.status = leave_requests'[s].status]
    /\ leave_requests[s].status # "Pending" =>
          /\ leave_requests'[s] = leave_requests[s]
          /\ approval_steps'[s] = approval_steps[s]
          /\ audit_log'[s] = audit_log[s]

\* No step touches a settled request.
LEMMA FinalStep == TypeInv /\ [Next]_vars => \A s \in Submitted : KeptRow(s)
  <1> SUFFICES ASSUME TypeInv, [Next]_vars, NEW s \in Submitted PROVE KeptRow(s)
    OBVIOUS
  <1>1. /\ leave_requests[s] \in LeaveRequestRow
        /\ DOMAIN approval_steps = Submitted /\ DOMAIN audit_log = Submitted
    BY DEF TypeInv, TypeOK
  <1>2. leave_requests[s] = [leave_requests[s] EXCEPT !.status = leave_requests[s].status]
    BY <1>1 DEF LeaveRequestRow
  <1>3. CASE SubmitAny
    <2>1. /\ s \in Submitted'
          /\ leave_requests'[s] = leave_requests[s]
          /\ approval_steps'[s] = approval_steps[s]
          /\ audit_log'[s] = audit_log[s]
      BY <1>1, <1>3 DEF SubmitAny, Submit, Validated, Insert, Write, Submitted
    <2> QED BY <1>2, <2>1 DEF KeptRow
  <1>4. CASE DecideAny
    <2>1. PICK x \in Submitted, actor \in Employee, decision \in Decision, k \in Stage :
            Decide(x, actor, decision, k)
      BY <1>4 DEF DecideAny
    <2>2. /\ leave_requests[x].status = "Pending"
          /\ leave_requests' = [leave_requests EXCEPT ![x].status = decision]
          /\ approval_steps' = [approval_steps EXCEPT ![x][k] = decision]
          /\ audit_log' = [audit_log EXCEPT ![x] = Append(@, DecisionAction(decision))]
      BY <2>1 DEF Decide, MayDecide
    <2> QED BY <1>1, <1>2, <2>2 DEF KeptRow, Submitted, LeaveRequestRow
  <1>5. CASE CancelAny
    <2>1. PICK x \in Submitted, actor \in Employee : Cancel(x, actor)
      BY <1>5 DEF CancelAny
    <2>2. /\ leave_requests[x].status = "Pending"
          /\ leave_requests' = [leave_requests EXCEPT ![x].status = "Cancelled"]
          /\ approval_steps' = approval_steps
          /\ audit_log' = [audit_log EXCEPT ![x] = Append(@, "Cancelled")]
      BY <2>1 DEF Cancel, MayCancel
    <2> QED BY <1>1, <1>2, <2>2 DEF KeptRow, Submitted, LeaveRequestRow
  <1>6. CASE \/ \E t \in LeaveType, row \in LeaveTypeRow : UpdateLeaveType(t, row)
             \/ \E line \in Workbook : SeedBalance(line)
             \/ UNCHANGED vars
    BY <1>2, <1>6 DEF UpdateLeaveType, SeedBalance, vars, KeptRow, Submitted
  <1> QED BY <1>3, <1>4, <1>5, <1>6 DEF Next

\* A verdict or a cancellation is never taken back, and rows are never edited.
THEOREM DecisionIsFinalTheorem == Spec => DecisionIsFinal
  <1>1. TypeInv /\ [Next]_vars => [\A s \in Submitted : KeptRow(s)]_vars
    BY FinalStep
  <1> QED BY <1>1, InitType, NextType, PTL DEF Spec, DecisionIsFinal, KeptRow

-----------------------------------------------------------------------------
(***************************************************************************)
(* The audit trail.                                                        *)
(***************************************************************************)

\* A trail of one entry and the entry that follows it.
LEMMA TwoEntries == \A a, b : Append(<<a>>, b) = <<a, b>>
  <1> SUFFICES ASSUME NEW a, NEW b PROVE Append(<<a>>, b) = <<a, b>>
    OBVIOUS
  <1> DEFINE s == Append(<<a>>, b)
  <1> DEFINE t == <<a, b>>
  <1>1. s \in Seq({a, b}) /\ Len(s) = 2 /\ s[1] = a /\ s[2] = b
    <2>1. <<a>> \in Seq({a, b}) /\ Len(<<a>>) = 1 /\ <<a>>[1] = a
      OBVIOUS
    <2> QED BY <2>1
  <1>2. t \in Seq({a, b}) /\ Len(t) = 2 /\ t[1] = a /\ t[2] = b
    OBVIOUS
  <1> HIDE DEF s, t
  <1>3. \A i \in 1..2 : s[i] = t[i]
    <2>1. \A i \in 1..2 : i = 1 \/ i = 2
      OBVIOUS
    <2> QED BY <1>1, <1>2, <2>1
  <1>4. s = t
    BY <1>1, <1>2, <1>3
  <1> QED BY <1>4 DEF s, t

\* What AuditTellsStatus says of one request.
Told(status, steps, trail) ==
    LET decided == {k \in Stage : steps[k] # "Pending"} IN
    /\ trail = IF status = "Pending" THEN <<"Submitted">>
               ELSE <<"Submitted", IF status = "Cancelled" THEN status
                                   ELSE DecisionAction(status)>>
    /\ IF status \in Decision
       THEN \E k \in Stage : decided = {k} /\ steps[k] = status
       ELSE decided = {}

\* A trail, a request and its steps move together.
LEMMA ToldStep ==
    TypeInv /\ AuditTellsStatus /\ [Next]_vars => AuditTellsStatus'
  <1> SUFFICES ASSUME TypeInv, AuditTellsStatus, [Next]_vars, NEW s \in Submitted'
               PROVE  Told(leave_requests'[s].status, approval_steps'[s], audit_log'[s])
    BY DEF AuditTellsStatus, Told
  <1>1. /\ DOMAIN leave_requests = Submitted /\ DOMAIN approval_steps = Submitted
        /\ DOMAIN audit_log = Submitted
    BY DEF TypeInv, TypeOK, Submitted
  <1>2. s \in Submitted => Told(leave_requests[s].status, approval_steps[s], audit_log[s])
    BY DEF AuditTellsStatus, Told
  <1>3. CASE /\ s \in Submitted /\ leave_requests'[s] = leave_requests[s]
             /\ approval_steps'[s] = approval_steps[s] /\ audit_log'[s] = audit_log[s]
    BY <1>2, <1>3
  <1>4. CASE SubmitAny
    <2>1. PICK x \in SubmissionId, r \in LeaveRequestRow : Submit(x, r) /\ r.status = "Pending"
      BY <1>4, SubmitSteps DEF TypeInv, SubmitAny
    <2>2. /\ leave_requests' = Insert(leave_requests, x, r)
          /\ approval_steps' = Insert(approval_steps, x, [k \in Stage |-> "Pending"])
          /\ audit_log' = Insert(audit_log, x, <<"Submitted">>)
      BY <2>1 DEF Submit
    <2>3. CASE s # x
      BY <1>1, <1>3, <2>2, <2>3 DEF Insert, Write, Submitted
    <2>4. CASE s = x
      <3>1. /\ leave_requests'[s].status = "Pending"
            /\ approval_steps'[s] = [k \in Stage |-> "Pending"]
            /\ audit_log'[s] = <<"Submitted">>
        BY <1>1, <2>1, <2>2, <2>4 DEF Insert, Write, Submitted
      <3> QED BY <3>1 DEF Told, Decision
    <2> QED BY <2>3, <2>4
  <1>5. CASE DecideAny
    <2>1. PICK x \in Submitted, actor \in Employee, decision \in Decision, k \in Stage :
            Decide(x, actor, decision, k)
      BY <1>5 DEF DecideAny
    <2>2. /\ leave_requests[x].status = "Pending"
          /\ leave_requests' = [leave_requests EXCEPT ![x].status = decision]
          /\ approval_steps' = [approval_steps EXCEPT ![x][k] = decision]
          /\ audit_log' = [audit_log EXCEPT ![x] = Append(@, DecisionAction(decision))]
      BY <2>1 DEF Decide, MayDecide
    <2>3. s \in Submitted
      BY <2>2 DEF Submitted
    <2>4. CASE s # x
      BY <1>1, <1>3, <2>2, <2>3, <2>4
    <2>5. CASE s = x
      <3>1. /\ Told("Pending", approval_steps[s], audit_log[s])
            /\ approval_steps[s] \in [Stage -> StepStatus]
        BY <1>2, <2>2, <2>3, <2>5 DEF TypeInv, TypeOK
      <3>2. leave_requests'[s].status = decision
        <4>1. leave_requests[s] \in LeaveRequestRow
          BY <2>3 DEF TypeInv, TypeOK
        <4> QED BY <1>1, <2>2, <2>3, <2>5, <4>1 DEF LeaveRequestRow
      <3>3. approval_steps'[s] = [approval_steps[s] EXCEPT ![k] = decision]
        BY <1>1, <2>2, <2>3, <2>5
      <3>4. audit_log'[s] = Append(audit_log[s], DecisionAction(decision))
        BY <1>1, <2>2, <2>3, <2>5
      <3>5. audit_log[s] = <<"Submitted">> /\ \A j \in Stage : approval_steps[s][j] = "Pending"
        BY <3>1 DEF Told, Decision
      <3>6. audit_log'[s] = <<"Submitted", DecisionAction(decision)>>
        BY <3>4, <3>5, TwoEntries, Zenon
      <3>7. /\ approval_steps'[s][k] = decision
            /\ \A j \in Stage : j # k => approval_steps'[s][j] = "Pending"
        BY <3>1, <3>3, <3>5
      <3>8. decision # "Pending" /\ decision # "Cancelled"
        BY DEF Decision
      <3>9. {j \in Stage : approval_steps'[s][j] # "Pending"} = {k}
        BY <3>7, <3>8
      <3> QED BY <3>2, <3>6, <3>7, <3>8, <3>9 DEF Told
    <2> QED BY <2>4, <2>5
  <1>6. CASE CancelAny
    <2>1. PICK x \in Submitted, actor \in Employee : Cancel(x, actor)
      BY <1>6 DEF CancelAny
    <2>2. /\ leave_requests[x].status = "Pending"
          /\ leave_requests' = [leave_requests EXCEPT ![x].status = "Cancelled"]
          /\ approval_steps' = approval_steps
          /\ audit_log' = [audit_log EXCEPT ![x] = Append(@, "Cancelled")]
      BY <2>1 DEF Cancel, MayCancel
    <2>3. s \in Submitted
      BY <2>2 DEF Submitted
    <2>4. CASE s # x
      BY <1>1, <1>3, <2>2, <2>3, <2>4
    <2>5. CASE s = x
      <3>1. Told("Pending", approval_steps[s], audit_log[s])
        BY <1>2, <2>2, <2>3, <2>5
      <3>2. leave_requests'[s].status = "Cancelled"
        <4>1. leave_requests[s] \in LeaveRequestRow
          BY <2>3 DEF TypeInv, TypeOK
        <4> QED BY <1>1, <2>2, <2>3, <2>5, <4>1 DEF LeaveRequestRow
      <3>3. audit_log'[s] = Append(audit_log[s], "Cancelled")
        BY <1>1, <2>2, <2>3, <2>5
      <3>4. /\ audit_log[s] = <<"Submitted">>
            /\ {j \in Stage : approval_steps[s][j] # "Pending"} = {}
        BY <3>1 DEF Told, Decision
      <3>5. audit_log'[s] = <<"Submitted", "Cancelled">>
        BY <3>3, <3>4, TwoEntries, Zenon
      <3> QED BY <2>2, <3>2, <3>4, <3>5 DEF Told, Decision
    <2> QED BY <2>4, <2>5
  <1>7. CASE \/ \E t \in LeaveType, row \in LeaveTypeRow : UpdateLeaveType(t, row)
             \/ \E line \in Workbook : SeedBalance(line)
             \/ UNCHANGED vars
    BY <1>3, <1>7 DEF UpdateLeaveType, SeedBalance, vars, Submitted
  <1> QED BY <1>4, <1>5, <1>6, <1>7 DEF Next

\* The trail of a request and its steps tell its status.
THEOREM AuditTellsStatusTheorem == Spec => []AuditTellsStatus
  <1>1. Init => AuditTellsStatus
    BY DEF Init, AuditTellsStatus, Submitted
  <1> QED BY <1>1, InitType, NextType, ToldStep, PTL DEF Spec
=============================================================================
