-------------------------- MODULE LeaveSessionsProofs --------------------------
(***************************************************************************)
(* Theorems about LeaveSessions for any number of sessions, employees,     *)
(* leave types, days and submission ids: what the locks and unique keys    *)
(* guarantee in every interleaving, the book of requests it implements,    *)
(* the interleavings in which handlers are the atomic steps of             *)
(* LeaveWorkflow, and how much work a handler can have before it.          *)
(***************************************************************************)
EXTENDS LeaveSessions, LeaveWorkflowProofs

-----------------------------------------------------------------------------
(***************************************************************************)
(* Types.                                                                  *)
(***************************************************************************)

\* Balances of some accounts.
Balances == UNION {[D -> BalanceRow] : D \in SUBSET Account}

Transaction ==
    [phase : {"Open", "Reading", "Numbered"}, verdict : Verdict, submission : SubmissionId,
     step : Stage, row : LeaveRequestRow, charged : SUBSET Account, was : Balances,
     fresh : SUBSET Account, held : SUBSET Lock]

\* What is read, and what the rows of an open transaction refer to, is there.
Grounded(x) ==
    /\ x.charged \subseteq {Primary(x.row), Secondary(x.row)}
    /\ x.fresh \subseteq DOMAIN x.was
    /\ DOMAIN x.was \ x.fresh \subseteq DOMAIN leave_balances
    /\ x.phase = "Numbered" => x.verdict = "Submitted"
    /\ x.phase = "Open" => x.verdict \in Decision
    /\ x.verdict = "Submitted" => x.row.status = "Pending"
    /\ x.verdict # "Submitted" => x.submission \in Submitted

\* A row or key is written by one session at a time.
Exclusive ==
    \A v, w \in Worker : v # w => session[v].held \cap session[w].held = {}

SessionInv ==
    /\ TypeInv
    /\ session \in [Worker -> {Idle} \cup Transaction]
    /\ \A w \in Worker : session[w] # Idle => Grounded(session[w])
    /\ Exclusive

\* An open transaction is not the idle one.
LEMMA Phases ==
    ASSUME NEW x \in {Idle} \cup Transaction
    PROVE  /\ x \in Transaction <=> x # Idle
           /\ x # Idle <=> x.phase # "Idle"
           /\ x.phase \in {"Idle", "Open", "Reading", "Numbered"}
           /\ x.held \subseteq Lock
  BY DEF Idle, Transaction

\* Tables of balances, by their members.
LEMMA BalancesMembers ==
    \A f : f \in Balances <=> DOMAIN f \subseteq Account /\ f \in [DOMAIN f -> BalanceRow]
  BY DEF Balances

\* The balance a handler computes is one.
LEMMA MovedType ==
    ASSUME NEW x, x.row \in LeaveRequestRow, NEW b \in BalanceRow
    PROVE  Moved(x, b) \in BalanceRow /\ Moved(x, b).entitled = b.entitled
  <1>1. x.row.working_days \in Nat
    BY DEF LeaveRequestRow
  <1>2. PICK n \in Nat : n = x.row.working_days
    BY <1>1
  <1> QED BY <1>2, BalanceOps DEF Moved

\* A request that has just been opened.
LEMMA OpenType ==
    ASSUME NEW phase \in {"Open", "Reading", "Numbered"}, NEW verdict \in Verdict,
           NEW s \in SubmissionId, NEW k \in Stage, NEW row \in LeaveRequestRow,
           NEW charged \in SUBSET Account
    PROVE  LET x == Open(phase, verdict, s, k, row, charged) IN
           /\ x \in Transaction
           /\ x.phase = phase /\ x.verdict = verdict /\ x.submission = s /\ x.step = k
           /\ x.row = row /\ x.charged = charged /\ x.was = <<>> /\ DOMAIN x.was = {}
           /\ x.fresh = {} /\ x.held = {}
  <1>1. <<>> \in Balances
    <2>1. <<>> \in [{} -> BalanceRow] /\ {} \in SUBSET Account
      OBVIOUS
    <2> QED BY <2>1 DEF Balances
  <1>2. {} \in SUBSET Account /\ {} \in SUBSET Lock
    OBVIOUS
  <1>3. Open(phase, verdict, s, k, row, charged) \in Transaction
    BY <1>1, <1>2 DEF Open, Transaction
  <1> QED BY <1>3 DEF Open

\* What a session wants to write are rows and keys.
LEMMA FlushType ==
    ASSUME NEW x \in {Idle} \cup Transaction, x # Idle => Grounded(x)
    PROVE  Flush(x) \subseteq Lock
  <1>1. CASE x = Idle
    BY <1>1 DEF Flush, Idle
  <1>2. CASE x \in Transaction
    <2>1. x.fresh \subseteq Account /\ Dirty(x) \subseteq Account
      <3>1. x.was \in Balances
        BY <1>2 DEF Transaction
      <3> QED BY <1>2, <3>1, BalancesMembers DEF Dirty, Transaction
    <2>2. x.submission \in SubmissionId /\ x.step \in Stage /\ x.row \in LeaveRequestRow
      BY <1>2 DEF Transaction
    <2>3. x.row.request_year \in Year /\ x.row.number \in Nat
      BY <2>2 DEF LeaveRequestRow
    <2> HIDE DEF Dirty
    <2>4. CASE x.phase = "Open"
      BY <2>2, <2>4 DEF Flush, Lock
    <2>5. CASE x.phase = "Numbered"
      BY <2>2, <2>3, <2>5 DEF Flush, Lock
    <2>6. CASE x.phase = "Reading"
      BY <2>1, <2>2, <2>6 DEF Flush, Lock
    <2>7. CASE x.phase \notin {"Open", "Numbered", "Reading"}
      BY <2>7 DEF Flush
    <2> QED BY <2>4, <2>5, <2>6, <2>7
  <1> QED BY <1>1, <1>2

\* What is there stays there.
LEMMA GroundedKept ==
    ASSUME DOMAIN leave_balances \subseteq DOMAIN leave_balances', Submitted \subseteq Submitted',
           NEW x, Grounded(x)
    PROVE  Grounded(x)'
  BY DEF Grounded

\* A step of one session that leaves the tables their rows.
LEMMA OneSession ==
    ASSUME SessionInv, TypeInv', NEW w \in Worker, NEW x \in {Idle} \cup Transaction,
           x # Idle => Grounded(x)',
           \A v \in Worker \ {w} : x.held \cap session[v].held = {},
           session' = [session EXCEPT ![w] = x],
           DOMAIN leave_balances \subseteq DOMAIN leave_balances', Submitted \subseteq Submitted'
    PROVE  SessionInv'
  <1>1. session'[w] = x /\ \A v \in Worker \ {w} : session'[v] = session[v]
    BY DEF SessionInv
  <1>2. session' \in [Worker -> {Idle} \cup Transaction]
    BY DEF SessionInv
  <1>3. Exclusive'
    BY <1>1 DEF SessionInv, Exclusive
  <1>4. ASSUME NEW v \in Worker, session'[v] # Idle PROVE Grounded(session[v])'
    <2>1. CASE v = w
      BY <1>1, <1>4, <2>1 DEF Grounded
    <2>2. CASE v # w
      <3>1. PICK y : y = session[v]
        OBVIOUS
      <3>2. Grounded(y) /\ session'[v] = y
        BY <1>1, <1>4, <2>2, <3>1 DEF SessionInv
      <3>3. Grounded(y)'
        BY <3>2, GroundedKept
      <3> QED BY ONLY <3>2, <3>3 DEF Grounded
    <2> QED BY <2>1, <2>2
  <1> QED BY <1>2, <1>3, <1>4 DEF SessionInv

\* The same when the tables do not change.
LEMMA TablesAlone ==
    ASSUME SessionInv, UNCHANGED vars, NEW w \in Worker, NEW x \in {Idle} \cup Transaction,
           x # Idle => Grounded(x),
           \A v \in Worker \ {w} : x.held \cap session[v].held = {},
           session' = [session EXCEPT ![w] = x]
    PROVE  SessionInv'
  <1>1. TypeInv'
    BY DEF SessionInv, TypeInv, TypeOK, vars, Submitted
  <1>2. DOMAIN leave_balances \subseteq DOMAIN leave_balances' /\ Submitted \subseteq Submitted'
    BY DEF vars, Submitted
  <1>3. x # Idle => Grounded(x)'
    BY <1>2, GroundedKept
  <1> QED BY <1>1, <1>2, <1>3, OneSession

\* The handlers' first checks.
LEMMA OpenKeeps ==
    ASSUME SessionInv, NEW w \in Worker, OpenAny(w)
    PROVE  SessionInv'
  <1>1. TypeOK /\ IsFiniteSet(Submitted)
    BY DEF SessionInv, TypeInv
  <1>2. CASE \E s \in SubmissionId, e \in Employee, t \in LeaveType,
                sub \in Employee \cup {NoOne}, from \in Day, until \in Day :
              \E n \in 1..(until - from + 1) :
                  OpenSubmit(w, s, NewRequest(e, t, sub, from, until, n))
    <2>1. PICK s \in SubmissionId, e \in Employee, t \in LeaveType,
               sub \in Employee \cup {NoOne}, from \in Day, until \in Day :
              \E n \in 1..(until - from + 1) :
                  OpenSubmit(w, s, NewRequest(e, t, sub, from, until, n))
      BY <1>2
    <2>2. PICK n \in 1..(until - from + 1) :
                  OpenSubmit(w, s, NewRequest(e, t, sub, from, until, n))
      BY <2>1
    <2>3. PICK r \in LeaveRequestRow : r = NewRequest(e, t, sub, from, until, n)
      BY <1>1, SubmittedRowType
    <2>4. r.status = "Pending"
      BY <2>3 DEF NewRequest
    <2>5. PICK charged \in SUBSET Account : charged = Charged(r)
      BY ChargedAccounts
    <2>6. PICK x : x = Open("Reading", "Submitted", s, 1, r, charged)
      OBVIOUS
    <2>7. x \in Transaction /\ Grounded(x) /\ x.held = {}
      BY <2>4, <2>5, <2>6, OpenType DEF Grounded, Charged, Verdict, Stage
    <2>8. session' = [session EXCEPT ![w] = x] /\ UNCHANGED vars
      BY <2>2, <2>3, <2>5, <2>6 DEF OpenSubmit
    <2> QED BY <2>7, <2>8, TablesAlone
  <1>3. ASSUME NEW s \in Submitted, NEW actor \in Employee, NEW decision \in Decision,
               NEW k \in Stage, OpenDecide(w, s, actor, decision, k)
        PROVE  SessionInv'
    <2>1. PICK r \in LeaveRequestRow : r = leave_requests[s]
      BY <1>1 DEF TypeOK
    <2>2. PICK x : x = Open("Open", decision, s, k, r, {})
      OBVIOUS
    <2>3. s \in SubmissionId /\ decision \in Verdict /\ {} \in SUBSET Account
      BY <1>1 DEF TypeOK, Verdict
    <2>4. x \in Transaction /\ Grounded(x) /\ x.held = {}
      BY <2>2, <2>3, OpenType DEF Grounded, Decision
    <2>5. session' = [session EXCEPT ![w] = x] /\ UNCHANGED vars
      BY <1>3, <2>1, <2>2 DEF OpenDecide
    <2> QED BY <2>4, <2>5, TablesAlone
  <1>4. ASSUME NEW s \in Submitted, NEW actor \in Employee, OpenCancel(w, s, actor)
        PROVE  SessionInv'
    <2>1. PICK r \in LeaveRequestRow : r = leave_requests[s]
      BY <1>1 DEF TypeOK
    <2>2. PICK charged \in SUBSET Account : charged = Charged(r)
      BY ChargedAccounts
    <2>3. PICK x : x = Open("Reading", "Cancelled", s, 1, r, charged)
      OBVIOUS
    <2>4. s \in SubmissionId
      BY <1>1 DEF TypeOK
    <2>5. x \in Transaction /\ Grounded(x) /\ x.held = {}
      BY <2>2, <2>3, <2>4, OpenType DEF Grounded, Charged, Verdict, Stage
    <2>6. session' = [session EXCEPT ![w] = x] /\ UNCHANGED vars
      BY <1>4, <2>1, <2>2, <2>3 DEF OpenCancel
    <2> QED BY <2>5, <2>6, TablesAlone
  <1> QED BY <1>2, <1>3, <1>4 DEF OpenAny

\* What a session in a phase other than idle is.
LEMMA OpenSession ==
    ASSUME SessionInv, NEW w \in Worker, session[w].phase # "Idle"
    PROVE  session[w] \in Transaction /\ Grounded(session[w]) /\ session[w] # Idle
  <1>1. session[w] \in {Idle} \cup Transaction
    BY DEF SessionInv
  <1> QED BY <1>1, Phases DEF SessionInv

\* A row or key written.
LEMMA AcquireKeeps ==
    ASSUME SessionInv, NEW w \in Worker, NEW l, Acquire(w, l)
    PROVE  SessionInv'
  <1>1. l \in Flush(session[w]) /\ Free(w, l) /\ UNCHANGED vars
    BY DEF Acquire, Wanted
  <1>2. session[w].phase # "Idle"
    BY <1>1 DEF Flush
  <1>3. session[w] \in Transaction /\ Grounded(session[w])
    BY <1>2, OpenSession
  <1>4. PICK y \in Transaction : y = session[w] /\ Grounded(y)
    BY <1>3
  <1>5. l \in Lock
    BY <1>1, <1>4, FlushType
  <1>6. PICK x : x = [y EXCEPT !.held = @ \cup {l}]
    OBVIOUS
  <1>7. x.held = y.held \cup {l} /\ x \in Transaction
    BY <1>5, <1>6 DEF Transaction
  <1>8. Grounded(x)
    BY <1>4, <1>6 DEF Grounded, Transaction
  <1>9. session' = [session EXCEPT ![w] = x]
    BY <1>4, <1>6 DEF Acquire
  <1>10. \A v \in Worker \ {w} : x.held \cap session[v].held = {}
    BY <1>1, <1>4, <1>7 DEF SessionInv, Exclusive, Free, HeldBy
  <1> QED BY <1>1, <1>7, <1>8, <1>9, <1>10, TablesAlone

\* A query whose answer changes what the handler knows, not what it has written.
LEMMA QueryKeeps ==
    ASSUME SessionInv, UNCHANGED vars, NEW w \in Worker, session[w] # Idle,
           NEW x \in Transaction, Grounded(x), x.held = session[w].held,
           session' = [session EXCEPT ![w] = x]
    PROVE  SessionInv'
  <1>1. \A v \in Worker \ {w} : x.held \cap session[v].held = {}
    BY DEF SessionInv, Exclusive
  <1> QED BY <1>1, TablesAlone

\* The leave type read by a decision.
LEMMA ReadTypeKeeps ==
    ASSUME SessionInv, NEW w \in Worker, ReadType(w)
    PROVE  SessionInv'
  <1>1. session[w].phase = "Open" /\ UNCHANGED vars
    BY DEF ReadType
  <1>2. PICK y \in Transaction : y = session[w] /\ Grounded(y) /\ y.phase = "Open" /\ y # Idle
    BY <1>1, OpenSession
  <1>3. y.row \in LeaveRequestRow
    BY DEF Transaction
  <1>4. PICK charged \in SUBSET Account : charged = Charged(y.row)
    BY <1>3, ChargedAccounts
  <1>5. PICK x : x = [y EXCEPT !.phase = "Reading", !.charged = charged]
    OBVIOUS
  <1>6. /\ x \in Transaction /\ x.held = y.held /\ x.charged = charged /\ x.phase = "Reading"
        /\ x.row = y.row /\ x.was = y.was /\ x.fresh = y.fresh /\ x.verdict = y.verdict
        /\ x.submission = y.submission
    BY <1>5 DEF Transaction
  <1>7. Grounded(x)
    BY <1>2, <1>4, <1>6 DEF Grounded, Charged
  <1>8. session' = [session EXCEPT ![w] = x]
    BY <1>2, <1>4, <1>5 DEF ReadType
  <1> QED BY <1>1, <1>2, <1>6, <1>7, <1>8, QueryKeeps

\* The account whose balance is read next is one of those charged.
LEMMA NextUnread ==
    ASSUME NEW x \in Transaction, Grounded(x), Unread(x) # {},
           NEW a, a = IF Primary(x.row) \in Unread(x) THEN Primary(x.row) ELSE Secondary(x.row)
    PROVE  a \in Unread(x) /\ a \in Account
  BY DEF Grounded, Unread, Transaction

\* A balance read.
LEMMA ReadBalanceKeeps ==
    ASSUME SessionInv, NEW w \in Worker, ReadBalance(w)
    PROVE  SessionInv'
  <1>1. session[w].phase = "Reading" /\ UNCHANGED vars /\ Unread(session[w]) # {}
    BY DEF ReadBalance
  <1>2. PICK y \in Transaction : y = session[w] /\ Grounded(y) /\ y.phase = "Reading" /\ y # Idle
    BY <1>1, OpenSession
  <1>3. PICK a : a = IF Primary(y.row) \in Unread(y) THEN Primary(y.row) ELSE Secondary(y.row)
    OBVIOUS
  <1>4. a \in Unread(y) /\ a \in Account
    BY <1>1, <1>2, <1>3, NextUnread
  <1>5. BalanceOf(a) \in BalanceRow
    BY <1>4, BalanceOfType DEF SessionInv, TypeInv
  <1>6. PICK b \in BalanceRow : b = BalanceOf(a)
    BY <1>5
  <1>7. PICK was : was = Insert(y.was, a, b)
    OBVIOUS
  <1>8. PICK fresh : fresh = IF a \in DOMAIN leave_balances THEN y.fresh ELSE y.fresh \cup {a}
    OBVIOUS
  <1>9. DOMAIN y.was \subseteq Account /\ y.was \in [DOMAIN y.was -> BalanceRow]
    <2>1. y.was \in Balances
      BY DEF Transaction
    <2> QED BY <2>1, BalancesMembers
  <1>10. DOMAIN was = DOMAIN y.was \cup {a} /\ was \in [DOMAIN was -> BalanceRow]
    BY <1>7, <1>9 DEF Insert, Write
  <1>11. was \in Balances
    BY <1>4, <1>9, <1>10, BalancesMembers
  <1>12. fresh \in SUBSET Account
    BY <1>4, <1>8 DEF Transaction
  <1>13. PICK x : x = [y EXCEPT !.was = was, !.fresh = fresh]
    OBVIOUS
  <1>14. /\ x \in Transaction /\ x.held = y.held /\ x.charged = y.charged /\ x.phase = y.phase
         /\ x.row = y.row /\ x.was = was /\ x.fresh = fresh /\ x.verdict = y.verdict
         /\ x.submission = y.submission
    BY <1>11, <1>12, <1>13 DEF Transaction
  <1>15. Grounded(x)
    BY <1>2, <1>8, <1>10, <1>14 DEF Grounded
  <1>16. session' = [session EXCEPT ![w] = x]
    <2>1. session' = [session EXCEPT ![w].was = was, ![w].fresh = fresh]
      BY <1>2, <1>3, <1>6, <1>7, <1>8 DEF ReadBalance
    <2> QED BY <1>2, <1>13, <2>1 DEF SessionInv
  <1> QED BY <1>1, <1>2, <1>14, <1>15, <1>16, QueryKeeps

\* The key of a submission counted.
LEMMA NumberKeeps ==
    ASSUME SessionInv, NEW w \in Worker, Number(w)
    PROVE  SessionInv'
  <1>1. session[w].phase = "Reading" /\ session[w].verdict = "Submitted" /\ UNCHANGED vars
    BY DEF Number
  <1>2. PICK y \in Transaction : /\ y = session[w] /\ Grounded(y) /\ y # Idle
                                 /\ y.phase = "Reading" /\ y.verdict = "Submitted"
    BY <1>1, OpenSession
  <1>3. y.row \in LeaveRequestRow
    BY DEF Transaction
  <1>4. Cardinality(OfYear(y.row.request_year)) \in Nat
    <2>1. OfYear(y.row.request_year) \subseteq Submitted
      BY DEF OfYear
    <2> QED BY <2>1, FS_Subset, FS_CardinalityType DEF SessionInv, TypeInv
  <1>5. PICK n \in Nat : n = NextRequestNumber(y.row.request_year)
    BY <1>4 DEF NextRequestNumber
  <1>6. PICK row : row = [y.row EXCEPT !.number = n]
    OBVIOUS
  <1>7. /\ row \in LeaveRequestRow /\ Primary(row) = Primary(y.row)
        /\ Secondary(row) = Secondary(y.row) /\ row.status = y.row.status
    BY <1>3, <1>6 DEF LeaveRequestRow, Primary, Secondary
  <1>8. PICK x : x = [y EXCEPT !.phase = "Numbered", !.row = row]
    OBVIOUS
  <1>9. /\ x \in Transaction /\ x.held = y.held /\ x.charged = y.charged
        /\ x.phase = "Numbered" /\ x.row = row /\ x.was = y.was /\ x.fresh = y.fresh
        /\ x.verdict = y.verdict /\ x.submission = y.submission
    BY <1>7, <1>8 DEF Transaction
  <1>10. Grounded(x)
    BY <1>2, <1>7, <1>9 DEF Grounded
  <1>11. session' = [session EXCEPT ![w] = x]
    <2>1. session' = [session EXCEPT ![w].phase = "Numbered", ![w].row.number = n]
      BY <1>2, <1>5 DEF Number
    <2> QED BY <1>2, <1>6, <1>8, <2>1 DEF SessionInv, Transaction
  <1> QED BY <1>1, <1>2, <1>9, <1>10, <1>11, QueryKeeps

\* A session that ends without a commit.
LEMMA RollBackKeeps ==
    ASSUME SessionInv, NEW w \in Worker, RollBack(w)
    PROVE  SessionInv'
  <1>1. Idle.held = {}
    BY DEF Idle
  <1> QED BY <1>1, TablesAlone DEF RollBack

\* An administrator's edit, a line of the workbook.
LEMMA MaintainKeeps ==
    ASSUME SessionInv, NEW w \in Worker, Maintain(w)
    PROVE  SessionInv'
  <1>1. Next /\ session' = session
    BY DEF Maintain, Next
  <1>2. TypeInv'
    BY <1>1, NextType DEF SessionInv
  <1>3. DOMAIN leave_balances \subseteq DOMAIN leave_balances' /\ Submitted \subseteq Submitted'
    BY DEF Maintain, UpdateLeaveType, SeedBalance, Insert, Write, Submitted
  <1>4. /\ session[w] = Idle /\ session' = [session EXCEPT ![w] = Idle] /\ Idle.held = {}
    BY <1>1 DEF Maintain, SessionInv, Idle
  <1> QED BY <1>2, <1>3, <1>4, OneSession

\* A commit writes balances.
LEMMA MergedType ==
    ASSUME TypeOK, NEW x \in Transaction, Grounded(x)
    PROVE  /\ Dirty(x) \subseteq Account
           /\ [a \in Dirty(x) |-> Merged(x, a)] \in [Dirty(x) -> BalanceRow]
  <1>1. DOMAIN x.was \subseteq Account /\ x.was \in [DOMAIN x.was -> BalanceRow]
    <2>1. x.was \in Balances
      BY DEF Transaction
    <2> QED BY <2>1, BalancesMembers
  <1>2. Dirty(x) \subseteq DOMAIN x.was
    BY DEF Dirty
  <1>3. ASSUME NEW a \in DOMAIN x.was
        PROVE  Merged(x, a) \in BalanceRow
    <2>1. PICK b \in BalanceRow : b = x.was[a]
      BY <1>1
    <2>2. x.row \in LeaveRequestRow
      BY DEF Transaction
    <2>3. PICK now \in BalanceRow : now = Moved(x, b)
      BY <2>2, MovedType
    <2>4. CASE a \in x.fresh
      BY <2>1, <2>3, <2>4 DEF Merged
    <2>5. CASE a \notin x.fresh
      <3>1. leave_balances[a] \in BalanceRow
        BY <2>5 DEF Grounded, TypeOK
      <3>2. PICK row \in BalanceRow : row = leave_balances[a]
        BY <3>1
      <3>3. Merged(x, a) = [row EXCEPT
                                !.used = IF now.used # b.used THEN now.used ELSE @,
                                !.pending = IF now.pending # b.pending THEN now.pending ELSE @]
        BY <2>1, <2>3, <2>5, <3>2 DEF Merged
      <3> QED BY <3>3 DEF BalanceRow
    <2> QED BY <2>4, <2>5
  <1> HIDE DEF Dirty, Merged
  <1> QED BY <1>1, <1>2, <1>3

\* What a commit of x, the transaction of w, does to the tables.
Writes(w, x) ==
    /\ x = session[w] /\ Grounded(x) /\ Complete(x) /\ Wanted(w) = {}
    /\ session' = [session EXCEPT ![w] = Idle]
    /\ leave_types' = leave_types
    /\ leave_balances' = Write(leave_balances, [a \in Dirty(x) |-> Merged(x, a)])
    /\ Submitted' = Submitted \cup {x.submission}
    /\ \A s \in Submitted \ {x.submission} :
          leave_requests'[s] = leave_requests[s] /\ audit_log'[s] = audit_log[s]
    /\ \/ /\ x.verdict = "Submitted" /\ x.phase = "Numbered"
          /\ leave_requests' = Insert(leave_requests, x.submission, x.row)
          /\ approval_steps' = Insert(approval_steps, x.submission, [k \in Stage |-> "Pending"])
          /\ audit_log' = Insert(audit_log, x.submission, <<"Submitted">>)
       \/ /\ x.verdict \in {"Approved", "Rejected", "Cancelled"}
          /\ x.phase = "Reading" /\ Unread(x) = {} /\ x.submission \in Submitted
          /\ leave_requests' = [leave_requests EXCEPT ![x.submission].status = x.verdict]
          /\ approval_steps' = IF x.verdict \in Decision
                  THEN [approval_steps EXCEPT ![x.submission][x.step] = x.verdict]
                  ELSE approval_steps
          /\ audit_log' = [audit_log EXCEPT ![x.submission] = Append(@, AuditEntry(x))]

LEMMA CommitWrites ==
    ASSUME SessionInv, NEW w \in Worker, Commit(w)
    PROVE  \E x \in Transaction : Writes(w, x)
  <1>1. session[w] \in {Idle} \cup Transaction /\ session[w] # Idle
    BY DEF Commit, SessionInv
  <1>2. PICK x \in Transaction : x = session[w] /\ Grounded(x)
    BY <1>1 DEF SessionInv
  <1>3. Complete(x) /\ Wanted(w) = {} /\ session' = [session EXCEPT ![w] = Idle]
        /\ leave_types' = leave_types
        /\ leave_balances' = Write(leave_balances, [a \in Dirty(x) |-> Merged(x, a)])
    BY <1>2 DEF Commit
  <1>4. /\ leave_requests \in [Submitted -> LeaveRequestRow] /\ DOMAIN audit_log = Submitted
    BY DEF SessionInv, TypeInv, TypeOK
  <1>5. CASE x.verdict = "Submitted"
    <2>1. /\ leave_requests' = Insert(leave_requests, x.submission, x.row)
          /\ approval_steps' = Insert(approval_steps, x.submission, [k \in Stage |-> "Pending"])
          /\ audit_log' = Insert(audit_log, x.submission, <<"Submitted">>)
      BY <1>2, <1>5 DEF Commit
    <2>2. x.phase = "Numbered"
      BY <1>3, <1>5 DEF Complete
    <2>3. /\ Submitted' = Submitted \cup {x.submission}
          /\ \A s \in Submitted \ {x.submission} :
                leave_requests'[s] = leave_requests[s] /\ audit_log'[s] = audit_log[s]
      BY <1>4, <2>1 DEF Insert, Write, Submitted
    <2> QED BY <1>2, <1>3, <1>5, <2>1, <2>2, <2>3 DEF Writes
  <1>6. CASE x.verdict # "Submitted"
    <2>1. x.verdict \in {"Approved", "Rejected", "Cancelled"}
      BY <1>6 DEF Transaction, Verdict, Decision
    <2>2. /\ leave_requests' = [leave_requests EXCEPT ![x.submission].status = x.verdict]
          /\ approval_steps' = IF x.verdict \in Decision
                               THEN [approval_steps EXCEPT ![x.submission][x.step] = x.verdict]
                               ELSE approval_steps
          /\ audit_log' = [audit_log EXCEPT ![x.submission] = Append(@, AuditEntry(x))]
      BY <1>2, <1>6 DEF Commit, NewStatus
    <2>3. x.phase = "Reading" /\ Unread(x) = {} /\ x.submission \in Submitted
      BY <1>2, <1>3, <1>6 DEF Complete, Grounded
    <2>4. /\ Submitted' = Submitted \cup {x.submission}
          /\ \A s \in Submitted \ {x.submission} :
                leave_requests'[s] = leave_requests[s] /\ audit_log'[s] = audit_log[s]
      BY <1>4, <2>2, <2>3 DEF Submitted
    <2> QED BY <1>2, <1>3, <2>1, <2>2, <2>3, <2>4 DEF Writes
  <1> QED BY <1>5, <1>6

\* A commit keeps the types.
LEMMA CommitKeeps ==
    ASSUME SessionInv, NEW w \in Worker, Commit(w)
    PROVE  SessionInv'
  <1>0. PICK x \in Transaction : Writes(w, x)
    BY CommitWrites
  <1>1. /\ x = session[w] /\ Grounded(x)
        /\ session' = [session EXCEPT ![w] = Idle]
        /\ leave_types' = leave_types
        /\ leave_balances' = Write(leave_balances, [a \in Dirty(x) |-> Merged(x, a)])
        /\ Submitted' = Submitted \cup {x.submission}
        /\ \/ /\ leave_requests' = Insert(leave_requests, x.submission, x.row)
              /\ approval_steps' = Insert(approval_steps, x.submission,
                                          [k \in Stage |-> "Pending"])
              /\ audit_log' = Insert(audit_log, x.submission, <<"Submitted">>)
           \/ /\ x.verdict \in {"Approved", "Rejected", "Cancelled"}
              /\ x.submission \in Submitted
              /\ leave_requests' = [leave_requests EXCEPT ![x.submission].status = x.verdict]
              /\ approval_steps' = IF x.verdict \in Decision
                      THEN [approval_steps EXCEPT ![x.submission][x.step] = x.verdict]
                      ELSE approval_steps
              /\ audit_log' = [audit_log EXCEPT ![x.submission] = Append(@, AuditEntry(x))]
    BY <1>0 DEF Writes
  <1>2. /\ x.submission \in SubmissionId /\ x.row \in LeaveRequestRow /\ x.step \in Stage
    BY DEF Transaction
  <1>3. TypeOK /\ IsFiniteSet(Submitted)
    BY DEF SessionInv, TypeInv
  <1>4. /\ DOMAIN leave_balances' = DOMAIN leave_balances \cup Dirty(x)
        /\ leave_balances' \in [DOMAIN leave_balances' -> BalanceRow]
        /\ DOMAIN leave_balances' \subseteq Account
    <2>1. /\ Dirty(x) \subseteq Account
          /\ [a \in Dirty(x) |-> Merged(x, a)] \in [Dirty(x) -> BalanceRow]
      BY <1>1, <1>3, MergedType
    <2>2. leave_balances \in [DOMAIN leave_balances -> BalanceRow]
          /\ DOMAIN leave_balances \subseteq Account
      BY <1>3 DEF TypeOK
    <2>3. PICK rows : rows = [a \in Dirty(x) |-> Merged(x, a)]
      OBVIOUS
    <2>4. rows \in [Dirty(x) -> BalanceRow] /\ DOMAIN rows = Dirty(x)
          /\ leave_balances' = Write(leave_balances, rows)
      BY <1>1, <2>1, <2>3
    <2> HIDE DEF Dirty
    <2> QED BY <2>1, <2>2, <2>4 DEF Write
  <1>5. leave_requests' \in [Submitted' -> LeaveRequestRow]
    <2>1. leave_requests \in [Submitted -> LeaveRequestRow]
      BY <1>3 DEF TypeOK
    <2>2. CASE leave_requests' = Insert(leave_requests, x.submission, x.row)
      BY <1>1, <1>2, <2>1, <2>2, InsertType
    <2>3. CASE /\ x.verdict \in {"Approved", "Rejected", "Cancelled"}
               /\ x.submission \in Submitted
               /\ leave_requests' = [leave_requests EXCEPT ![x.submission].status = x.verdict]
      <3>1. PICK row \in LeaveRequestRow : row = leave_requests[x.submission]
        BY <2>1, <2>3
      <3>2. x.verdict \in Status
        BY <2>3 DEF Status
      <3>3. PICK settled \in LeaveRequestRow : settled = [row EXCEPT !.status = x.verdict]
        BY <3>2 DEF LeaveRequestRow
      <3>4. leave_requests' = [leave_requests EXCEPT ![x.submission] = settled]
        BY <2>3, <3>1, <3>3
      <3>5. Submitted' = Submitted
        BY <1>1, <2>3
      <3> QED BY <2>1, <3>4, <3>5
    <2> QED BY <1>1, <2>2, <2>3
  <1>6. approval_steps' \in [Submitted' -> [Stage -> StepStatus]]
    <2>1. approval_steps \in [Submitted -> [Stage -> StepStatus]]
      BY <1>3 DEF TypeOK
    <2>2. CASE approval_steps' = Insert(approval_steps, x.submission, [k \in Stage |-> "Pending"])
      <3>1. [k \in Stage |-> "Pending"] \in [Stage -> StepStatus]
        BY DEF StepStatus
      <3>2. PICK steps \in [Stage -> StepStatus] : steps = [k \in Stage |-> "Pending"]
        BY <3>1
      <3> QED BY <1>1, <2>1, <2>2, <3>2 DEF Insert, Write
    <2>3. CASE /\ x.submission \in Submitted
               /\ approval_steps' = IF x.verdict \in Decision
                            THEN [approval_steps EXCEPT ![x.submission][x.step] = x.verdict]
                            ELSE approval_steps
      BY <1>1, <1>2, <2>1, <2>3 DEF StepStatus
    <2> QED BY <1>1, <2>2, <2>3
  <1>7. audit_log' \in [Submitted' -> Seq(AuditAction)]
    <2>1. audit_log \in [Submitted -> Seq(AuditAction)]
      BY <1>3 DEF TypeOK
    <2>2. CASE audit_log' = Insert(audit_log, x.submission, <<"Submitted">>)
      <3>1. <<"Submitted">> \in Seq(AuditAction)
        BY DEF AuditAction
      <3>2. PICK trail \in Seq(AuditAction) : trail = <<"Submitted">>
        BY <3>1
      <3> QED BY <1>1, <2>1, <2>2, <3>2 DEF Insert, Write
    <2>3. CASE /\ x.verdict \in {"Approved", "Rejected", "Cancelled"}
               /\ x.submission \in Submitted
               /\ audit_log' = [audit_log EXCEPT ![x.submission] = Append(@, AuditEntry(x))]
      <3>1. AuditEntry(x) \in AuditAction
        BY <2>3 DEF AuditEntry, DecisionAction, AuditAction, Decision
      <3>2. PICK entry \in AuditAction : entry = AuditEntry(x)
        BY <3>1
      <3>3. PICK trail \in Seq(AuditAction) : trail = audit_log[x.submission]
        BY <2>1, <2>3
      <3>4. PICK longer : longer = Append(trail, entry)
        OBVIOUS
      <3>5. longer \in Seq(AuditAction)
        BY <3>4
      <3>6. audit_log' = [audit_log EXCEPT ![x.submission] = longer]
        BY <2>3, <3>2, <3>3, <3>4
      <3>7. Submitted' = Submitted
        BY <1>1, <2>3
      <3> QED BY <2>1, <3>5, <3>6, <3>7
    <2> QED BY <1>1, <2>2, <2>3
  <1>8. TypeInv'
    <2>1. IsFiniteSet(Submitted')
      BY <1>1, <1>3, FS_AddElement
    <2>2. Submitted' \subseteq SubmissionId /\ leave_types' \in [LeaveType -> LeaveTypeRow]
      BY <1>1, <1>2, <1>3 DEF TypeOK
    <2> QED BY <1>4, <1>5, <1>6, <1>7, <2>1, <2>2 DEF TypeInv, TypeOK
  <1>9. Idle.held = {}
    BY DEF Idle
  <1>10. DOMAIN leave_balances \subseteq DOMAIN leave_balances' /\ Submitted \subseteq Submitted'
    BY <1>1, <1>4
  <1> QED BY <1>1, <1>8, <1>9, <1>10, OneSession

\* Every step keeps the invariant.
LEMMA SessionStep == SessionInv /\ [SessionNext]_sessionVars => SessionInv'
  <1> SUFFICES ASSUME SessionInv, [SessionNext]_sessionVars PROVE SessionInv'
    OBVIOUS
  <1>1. ASSUME NEW w \in Worker, Advance(w) PROVE SessionInv'
    BY <1>1, AcquireKeeps, ReadTypeKeeps, ReadBalanceKeeps, NumberKeeps, CommitKeeps, RollBackKeeps
       DEF Advance, Fail, FailOn
  <1>2. ASSUME NEW w \in Worker, OpenAny(w) \/ Crash(w) \/ Maintain(w) PROVE SessionInv'
    BY <1>2, OpenKeeps, RollBackKeeps, MaintainKeeps DEF Crash
  <1>3. CASE UNCHANGED sessionVars
    BY <1>3 DEF sessionVars, vars, SessionInv, TypeInv, TypeOK, Submitted, Exclusive, Grounded
  <1> QED BY <1>1, <1>2, <1>3 DEF SessionNext

\* At the start no session is open.
LEMMA SessionStarts == SessionInit => SessionInv
  <1> SUFFICES ASSUME SessionInit PROVE SessionInv
    OBVIOUS
  <1>1. TypeInv /\ session = [w \in Worker |-> Idle] /\ Idle.held = {}
    BY InitType DEF SessionInit, Idle
  <1> QED BY <1>1 DEF SessionInv, Exclusive

\* The tables keep their types whatever the interleaving, and a row or key is
\* being written by one session at a time.
THEOREM SessionTypeTheorem == SessionSpec => []SessionTypeOK
  <1>1. SessionInv => SessionTypeOK
    BY Phases DEF SessionInv, TypeInv, Exclusive, SessionTypeOK
  <1> QED BY <1>1, SessionStarts, SessionStep, PTL DEF SessionSpec

-----------------------------------------------------------------------------
(***************************************************************************)
(* Keys and the audit trail.                                               *)
(***************************************************************************)

NumberOf(x) == <<"number", <<x.row.request_year, x.row.number>>>>

\* A submission id or a number that a session has written is nobody else's, and
\* the number was counted no later than now.
KeyClaim(x) ==
    /\ <<"submission", x.submission>> \in x.held => x.submission \notin Submitted
    /\ x.phase # "Numbered" => \A n : <<"number", n>> \notin x.held
    /\ x.phase = "Numbered" =>
          /\ x.row.number \in 1..(Cardinality(OfYear(x.row.request_year)) + 1)
          /\ NumberOf(x) \in x.held =>
                \A s \in OfYear(x.row.request_year) : leave_requests[s].number # x.row.number

\* A trail begins with the submission, has no second one, and ends with the
\* entry of the status.
TrailTells(status, trail) ==
    /\ Len(trail) >= 1
    /\ trail[1] = "Submitted"
    /\ \A i \in 2..Len(trail) : trail[i] # "Submitted"
    /\ trail[Len(trail)] = LastEntry(status)

KeyInv ==
    /\ SessionInv
    /\ KeysDense
    /\ \A s \in Submitted : TrailTells(leave_requests[s].status, audit_log[s])
    /\ \A w \in Worker : session[w] # Idle => KeyClaim(session[w])

\* The entry of a settled request is added to its trail.
LEMMA TrailGrows ==
    \A status, verdict : \A trail \in Seq(AuditAction) :
        TrailTells(status, trail) /\ verdict \in {"Approved", "Rejected", "Cancelled"}
            => TrailTells(verdict, Append(trail, LastEntry(verdict)))
  <1> SUFFICES ASSUME NEW status, NEW verdict \in {"Approved", "Rejected", "Cancelled"},
                      NEW trail \in Seq(AuditAction), TrailTells(status, trail)
               PROVE  TrailTells(verdict, Append(trail, LastEntry(verdict)))
    OBVIOUS
  <1>1. LastEntry(verdict) \in AuditAction \ {"Submitted"}
    BY DEF LastEntry, DecisionAction, AuditAction, Decision
  <1>2. PICK entry \in AuditAction \ {"Submitted"} : entry = LastEntry(verdict)
    BY <1>1
  <1>3. PICK longer : longer = Append(trail, entry)
    OBVIOUS
  <1>4. /\ Len(longer) = Len(trail) + 1 /\ longer[Len(longer)] = entry
        /\ \A i \in 1..Len(trail) : longer[i] = trail[i]
    BY <1>3
  <1>5. Len(trail) \in Nat
    OBVIOUS
  <1>6. TrailTells(verdict, longer)
    BY <1>2, <1>4, <1>5 DEF TrailTells
  <1> QED BY <1>2, <1>3, <1>6

\* The first entry.
LEMMA TrailStarts == TrailTells("Pending", <<"Submitted">>)
  BY DEF TrailTells, LastEntry, Decision

\* A step of a session that leaves the tables alone.
LEMMA KeyTablesAlone ==
    ASSUME KeyInv, SessionInv', UNCHANGED vars, NEW w \in Worker, NEW x,
           x # Idle => KeyClaim(x), session' = [session EXCEPT ![w] = x]
    PROVE  KeyInv'
  <1>1. Submitted' = Submitted /\ leave_requests' = leave_requests /\ audit_log' = audit_log
    BY DEF vars, Submitted
  <1>2. KeysDense' /\ \A y : OfYear(y)' = OfYear(y)
    BY <1>1, KeysKept DEF KeyInv
  <1>3. ASSUME NEW v \in Worker, session'[v] # Idle PROVE KeyClaim(session[v])'
    <2>1. PICK y : y = session'[v]
      OBVIOUS
    <2>2. KeyClaim(y)
      BY <1>3, <2>1 DEF KeyInv, SessionInv
    <2>3. KeyClaim(y)'
      BY ONLY <1>1, <1>2, <2>2 DEF KeyClaim, NumberOf
    <2> QED BY ONLY <2>1, <2>3 DEF KeyClaim, NumberOf
  <1>4. \A s \in Submitted' : TrailTells(leave_requests'[s].status, audit_log'[s])
    BY <1>1 DEF KeyInv
  <1> QED BY <1>2, <1>3, <1>4 DEF KeyInv

\* A key is written only while it is free.
LEMMA KeyAcquire ==
    ASSUME KeyInv, NEW w \in Worker, NEW l, Acquire(w, l)
    PROVE  KeyInv'
  <1>1. l \in Flush(session[w]) /\ ~Taken(session[w], l) /\ UNCHANGED vars
    BY DEF Acquire, Wanted
  <1>2. session[w].phase # "Idle"
    BY <1>1 DEF Flush
  <1>3. PICK y \in Transaction : y = session[w] /\ KeyClaim(y)
    BY <1>2, OpenSession DEF KeyInv
  <1>4. PICK x : x = [y EXCEPT !.held = @ \cup {l}]
    OBVIOUS
  <1>5. /\ x.held = y.held \cup {l} /\ x.phase = y.phase /\ x.submission = y.submission
        /\ x.row = y.row
    BY <1>4 DEF Transaction
  <1>6. ~SubmissionTaken(l) /\ ~NumberTaken(l) /\ l \in Flush(y)
    BY <1>1, <1>3 DEF Taken
  <1>7. l = <<"submission", y.submission>> => y.submission \notin Submitted
    BY <1>6 DEF SubmissionTaken
  <1>8. l = NumberOf(y) => \A s \in OfYear(y.row.request_year) :
                              leave_requests[s].number # y.row.number
    BY <1>6 DEF NumberTaken, NumberOf
  <1>9. y.phase # "Numbered" => \A n : l # <<"number", n>>
    BY <1>6 DEF Flush
  <1>10. KeyClaim(x)
    BY <1>3, <1>5, <1>7, <1>8, <1>9 DEF KeyClaim, NumberOf
  <1>11. session' = [session EXCEPT ![w] = x]
    BY <1>3, <1>4 DEF Acquire
  <1> QED BY <1>1, <1>10, <1>11, AcquireKeeps, KeyTablesAlone DEF KeyInv

\* Before it is numbered a session holds no number.
LEMMA KeyQuery ==
    ASSUME KeyInv, NEW w \in Worker, ReadType(w) \/ ReadBalance(w)
    PROVE  KeyInv'
  <1>1. UNCHANGED vars /\ session[w].phase \in {"Open", "Reading"}
    BY DEF ReadType, ReadBalance
  <1>2. PICK y \in Transaction : y = session[w] /\ KeyClaim(y) /\ y.phase \in {"Open", "Reading"}
    BY <1>1, OpenSession DEF KeyInv
  <1>3. PICK x : x = session'[w]
    OBVIOUS
  <1>4. /\ x.held = y.held /\ x.submission = y.submission /\ x.phase = "Reading"
        /\ session' = [session EXCEPT ![w] = x]
    <2>1. CASE ReadType(w)
      BY <1>2, <1>3, <2>1 DEF ReadType, KeyInv, SessionInv, Transaction
    <2>2. CASE ReadBalance(w)
      <3>1. PICK was, fresh : session' = [session EXCEPT ![w].was = was, ![w].fresh = fresh]
        BY <2>2 DEF ReadBalance
      <3>2. y.phase = "Reading"
        BY <1>2, <2>2 DEF ReadBalance
      <3> QED BY <1>2, <1>3, <3>1, <3>2 DEF KeyInv, SessionInv, Transaction
    <2> QED BY <2>1, <2>2
  <1>5. KeyClaim(x)
    BY <1>2, <1>4 DEF KeyClaim
  <1> QED BY <1>1, <1>4, <1>5, ReadTypeKeeps, ReadBalanceKeeps, KeyTablesAlone DEF KeyInv

\* The count of the year is taken from the committed requests.
LEMMA KeyNumber ==
    ASSUME KeyInv, NEW w \in Worker, Number(w)
    PROVE  KeyInv'
  <1>1. UNCHANGED vars /\ session[w].phase = "Reading"
    BY DEF Number
  <1>2. PICK y \in Transaction : y = session[w] /\ KeyClaim(y) /\ y.phase = "Reading"
    BY <1>1, OpenSession DEF KeyInv
  <1>3. PICK n : n = NextRequestNumber(y.row.request_year)
    OBVIOUS
  <1>4. n \in 1..(Cardinality(OfYear(y.row.request_year)) + 1)
    BY <1>3, YearFinite DEF NextRequestNumber, KeyInv, SessionInv
  <1>5. PICK x : x = session'[w]
    OBVIOUS
  <1>6. /\ x.held = y.held /\ x.submission = y.submission /\ x.phase = "Numbered"
        /\ x.row.number = n /\ x.row.request_year = y.row.request_year
        /\ session' = [session EXCEPT ![w] = x]
    <2>1. session' = [session EXCEPT ![w].phase = "Numbered", ![w].row.number = n]
      BY <1>2, <1>3 DEF Number
    <2>2. x = [y EXCEPT !.phase = "Numbered", !.row = [y.row EXCEPT !.number = n]]
      BY <1>2, <1>5, <2>1 DEF KeyInv, SessionInv, Transaction
    <2>3. session' = [session EXCEPT ![w] = x]
      BY <1>2, <2>1, <2>2 DEF KeyInv, SessionInv
    <2> QED BY <2>2, <2>3 DEF Transaction, LeaveRequestRow
  <1>7. KeyClaim(x)
    BY <1>2, <1>4, <1>6 DEF KeyClaim, NumberOf
  <1> QED BY <1>1, <1>6, <1>7, NumberKeeps, KeyTablesAlone DEF KeyInv

\* A session that opens or ends without a commit holds nothing.
LEMMA KeyOpen ==
    ASSUME KeyInv, NEW w \in Worker, OpenAny(w) \/ RollBack(w)
    PROVE  KeyInv'
  <1>1. SessionInv'
    BY OpenKeeps, RollBackKeeps DEF KeyInv
  <1>2. CASE RollBack(w)
    BY <1>1, <1>2, KeyTablesAlone DEF RollBack
  <1>3. ASSUME NEW phase \in {"Open", "Reading"}, NEW verdict, NEW s, NEW k, NEW row, NEW charged,
               session' = [session EXCEPT ![w] = Open(phase, verdict, s, k, row, charged)],
               UNCHANGED vars
        PROVE  KeyInv'
    <2>1. PICK x : x = Open(phase, verdict, s, k, row, charged)
      OBVIOUS
    <2>2. x.held = {} /\ x.phase # "Numbered"
      BY <2>1 DEF Open
    <2>3. KeyClaim(x)
      BY <2>2 DEF KeyClaim
    <2> QED BY <1>1, <1>3, <2>1, <2>3, KeyTablesAlone
  <1>4. ASSUME NEW s, NEW r, OpenSubmit(w, s, r) PROVE KeyInv'
    BY <1>3, <1>4 DEF OpenSubmit
  <1>5. ASSUME NEW s, NEW actor, NEW decision, NEW k, OpenDecide(w, s, actor, decision, k)
        PROVE KeyInv'
    BY <1>3, <1>5 DEF OpenDecide
  <1>6. ASSUME NEW s, NEW actor, OpenCancel(w, s, actor) PROVE KeyInv'
    BY <1>3, <1>6 DEF OpenCancel
  <1> QED BY <1>2, <1>4, <1>5, <1>6 DEF OpenAny

\* A step that neither a request nor a session sees.
LEMMA KeyRequestsAlone ==
    ASSUME KeyInv, SessionInv', UNCHANGED <<session, leave_requests, audit_log>>
    PROVE  KeyInv'
  <1>1. Submitted' = Submitted
    BY DEF Submitted
  <1>2. KeysDense' /\ \A y : OfYear(y)' = OfYear(y)
    BY <1>1, KeysKept DEF KeyInv
  <1>3. ASSUME NEW v \in Worker, session'[v] # Idle PROVE KeyClaim(session[v])'
    <2>1. PICK y : y = session[v] /\ KeyClaim(y) /\ session'[v] = y /\ leave_requests' = leave_requests
      BY <1>3 DEF KeyInv
    <2>2. KeyClaim(y)'
      BY ONLY <1>1, <1>2, <2>1 DEF KeyClaim, NumberOf
    <2> QED BY ONLY <2>1, <2>2 DEF KeyClaim, NumberOf
  <1> QED BY <1>1, <1>2, <1>3 DEF KeyInv

\* Neither an administrator's edit nor the workbook concerns the requests.
LEMMA KeyMaintain ==
    ASSUME KeyInv, NEW w \in Worker, Maintain(w)
    PROVE  KeyInv'
  <1>1. SessionInv'
    BY MaintainKeeps DEF KeyInv
  <1> QED BY <1>1, KeyRequestsAlone DEF Maintain, UpdateLeaveType, SeedBalance

\* Whose keys are whose when a session commits a submission.
LEMMA SubmissionClaims ==
    ASSUME KeyInv, NEW w \in Worker, NEW x \in Transaction, x = session[w], x.verdict = "Submitted",
           x.phase = "Numbered", Wanted(w) = {}
    PROVE  /\ x.submission \notin Submitted
           /\ x.row.number = NextRequestNumber(x.row.request_year)
           /\ \A v \in Worker \ {w} : /\ <<"submission", x.submission>> \notin session[v].held
                                      /\ NumberOf(x) \notin session[v].held
  <1>1. <<"submission", x.submission>> \in x.held /\ NumberOf(x) \in x.held
    BY DEF Wanted, Flush, NumberOf
  <1>2. KeyClaim(x)
    BY DEF KeyInv, Transaction, Idle
  <1>3. \A s \in OfYear(x.row.request_year) : leave_requests[s].number # x.row.number
    BY <1>1, <1>2 DEF KeyClaim
  <1>4. x.row.number \notin 1..Cardinality(OfYear(x.row.request_year))
    <2>1. x.row.request_year \in Year
      BY DEF Transaction, LeaveRequestRow
    <2> QED BY <1>3, <2>1 DEF KeyInv, KeysDense
  <1>5. x.row.number = NextRequestNumber(x.row.request_year)
    BY <1>2, <1>4, YearFinite DEF KeyClaim, NextRequestNumber, KeyInv, SessionInv
  <1>6. \A v \in Worker \ {w} : x.held \cap session[v].held = {}
    BY DEF KeyInv, SessionInv, Exclusive
  <1> QED BY <1>1, <1>2, <1>5, <1>6 DEF KeyClaim

\* A commit keeps the keys and the trails.
LEMMA KeyCommit ==
    ASSUME KeyInv, NEW w \in Worker, Commit(w)
    PROVE  KeyInv'
  <1>1. SessionInv'
    BY CommitKeeps DEF KeyInv
  <1>0. PICK x \in Transaction : Writes(w, x)
    BY CommitWrites DEF KeyInv
  <1>2. /\ x = session[w] /\ Wanted(w) = {} /\ Grounded(x)
        /\ session' = [session EXCEPT ![w] = Idle]
        /\ Submitted' = Submitted \cup {x.submission}
        /\ \A s \in Submitted \ {x.submission} :
              leave_requests'[s] = leave_requests[s] /\ audit_log'[s] = audit_log[s]
        /\ \/ /\ x.verdict = "Submitted" /\ x.phase = "Numbered"
              /\ leave_requests' = Insert(leave_requests, x.submission, x.row)
              /\ audit_log' = Insert(audit_log, x.submission, <<"Submitted">>)
           \/ /\ x.verdict \in {"Approved", "Rejected", "Cancelled"}
              /\ x.submission \in Submitted
              /\ leave_requests' = [leave_requests EXCEPT ![x.submission].status = x.verdict]
              /\ audit_log' = [audit_log EXCEPT ![x.submission] = Append(@, AuditEntry(x))]
    BY <1>0 DEF Writes
  <1>3. /\ \A v \in Worker : session'[v] # Idle => v # w /\ session'[v] = session[v]
        /\ TypeInv /\ TypeOK /\ x.row \in LeaveRequestRow /\ x.submission \in SubmissionId
    BY <1>2 DEF KeyInv, SessionInv, TypeInv, Transaction
  <1>4. CASE /\ x.verdict = "Submitted" /\ x.phase = "Numbered"
             /\ leave_requests' = Insert(leave_requests, x.submission, x.row)
             /\ audit_log' = Insert(audit_log, x.submission, <<"Submitted">>)
    <2>1. /\ x.submission \notin Submitted
          /\ x.row.number = NextRequestNumber(x.row.request_year)
          /\ \A v \in Worker \ {w} : /\ <<"submission", x.submission>> \notin session[v].held
                                     /\ NumberOf(x) \notin session[v].held
      BY <1>2, <1>4, SubmissionClaims
    <2>2. /\ KeysDense'
          /\ \A y : OfYear(y)' = IF y = x.row.request_year THEN OfYear(y) \cup {x.submission}
                                 ELSE OfYear(y)
          /\ \A y : Cardinality(OfYear(y)') >= Cardinality(OfYear(y))
      BY <1>3, <1>4, <2>1, KeyAdded DEF KeyInv
    <2>3. leave_requests'[x.submission] = x.row /\ audit_log'[x.submission] = <<"Submitted">>
      BY <1>4 DEF Insert, Write
    <2>4. \A s \in Submitted' : TrailTells(leave_requests'[s].status, audit_log'[s])
      <3>1. x.row.status = "Pending"
        BY <1>2, <1>4 DEF Grounded
      <3> QED BY <1>2, <2>1, <2>3, <3>1, TrailStarts DEF KeyInv
    <2>5. ASSUME NEW v \in Worker, session'[v] # Idle PROVE KeyClaim(session[v])'
      <3>1. PICK y : y = session[v]
        OBVIOUS
      <3>2. /\ KeyClaim(y) /\ session'[v] = y /\ y \in Transaction
            /\ <<"submission", x.submission>> \notin y.held
            /\ NumberOf(x) \notin y.held
        BY <1>3, <2>1, <2>5, <3>1 DEF KeyInv, SessionInv
      <3>3. <<"submission", y.submission>> \in y.held => y.submission \notin Submitted'
        BY <1>2, <3>2 DEF KeyClaim
      <3>4. y.phase = "Numbered" =>
                y.row.number \in 1..(Cardinality(OfYear(y.row.request_year)') + 1)
        <4>1. y.row.request_year \in Year /\ y.row.number \in Nat
          BY <3>2 DEF Transaction, LeaveRequestRow
        <4>2. IsFiniteSet(OfYear(y.row.request_year)')
              /\ Cardinality(OfYear(y.row.request_year)') \in Nat
              /\ Cardinality(OfYear(y.row.request_year)) \in Nat
          <5>1. IsFiniteSet(OfYear(y.row.request_year)')
            BY <1>3, <2>2, YearFinite, FS_AddElement
          <5> QED BY <1>3, <5>1, YearFinite, FS_CardinalityType
        <4> QED BY <2>2, <3>2, <4>1, <4>2 DEF KeyClaim
      <3>5. y.phase = "Numbered" /\ NumberOf(y) \in y.held =>
                \A s \in OfYear(y.row.request_year)' : leave_requests'[s].number # y.row.number
        <4> SUFFICES ASSUME y.phase = "Numbered", NumberOf(y) \in y.held,
                            NEW s \in OfYear(y.row.request_year)'
                     PROVE  leave_requests'[s].number # y.row.number
          OBVIOUS
        <4>1. CASE s = x.submission
          <5>1. ASSUME y.row.request_year # x.row.request_year PROVE FALSE
            <6>1. s \in OfYear(y.row.request_year)
              BY <2>2, <5>1
            <6> QED BY <2>1, <4>1, <6>1 DEF OfYear
          <5> QED BY <2>3, <3>2, <4>1, <5>1 DEF NumberOf
        <4>2. CASE s # x.submission
          <5>1. s \in OfYear(y.row.request_year)
            BY <2>2, <4>2
          <5> QED BY <1>2, <3>2, <4>2, <5>1 DEF KeyClaim, OfYear
        <4> QED BY <4>1, <4>2
      <3>6. y.phase # "Numbered" => \A n : <<"number", n>> \notin y.held
        BY <3>2 DEF KeyClaim
      <3> QED BY ONLY <3>2, <3>3, <3>4, <3>5, <3>6 DEF KeyClaim, NumberOf
    <2> QED BY <1>1, <2>2, <2>4, <2>5 DEF KeyInv
  <1>5. CASE /\ x.verdict \in {"Approved", "Rejected", "Cancelled"}
             /\ x.submission \in Submitted
             /\ leave_requests' = [leave_requests EXCEPT ![x.submission].status = x.verdict]
             /\ audit_log' = [audit_log EXCEPT ![x.submission] = Append(@, AuditEntry(x))]
    <2>1. /\ Submitted' = Submitted
          /\ \A s \in Submitted : /\ leave_requests'[s].request_year = leave_requests[s].request_year
                                  /\ leave_requests'[s].number = leave_requests[s].number
      BY <1>2, <1>3, <1>5 DEF TypeOK, LeaveRequestRow
    <2>2. KeysDense' /\ \A y : OfYear(y)' = OfYear(y)
      BY <2>1, KeysKept DEF KeyInv
    <2>3. \A s \in Submitted' : TrailTells(leave_requests'[s].status, audit_log'[s])
      <3>1. PICK trail \in Seq(AuditAction) : trail = audit_log[x.submission]
        BY <1>3, <1>5 DEF TypeOK
      <3>2. PICK status \in Status : status = leave_requests[x.submission].status
        BY <1>3, <1>5 DEF TypeOK, LeaveRequestRow
      <3>3. TrailTells(status, trail)
        BY <1>5, <3>1, <3>2 DEF KeyInv
      <3>4. AuditEntry(x) = LastEntry(x.verdict)
        BY <1>5 DEF AuditEntry, LastEntry, Decision
      <3>5. TrailTells(x.verdict, Append(trail, LastEntry(x.verdict)))
        BY <1>5, <3>3, TrailGrows
      <3>6. /\ leave_requests'[x.submission].status = x.verdict
            /\ audit_log'[x.submission] = Append(trail, LastEntry(x.verdict))
        BY <1>3, <1>5, <3>1, <3>4 DEF TypeOK, LeaveRequestRow
      <3>7. \A s \in Submitted \ {x.submission} :
               TrailTells(leave_requests'[s].status, audit_log'[s])
        BY <1>2 DEF KeyInv
      <3> QED BY <2>1, <3>5, <3>6, <3>7
    <2>4. ASSUME NEW v \in Worker, session'[v] # Idle PROVE KeyClaim(session[v])'
      <3>1. PICK y : y = session[v] /\ KeyClaim(y) /\ session'[v] = y
        BY <1>3, <2>4 DEF KeyInv
      <3>2. \A s \in OfYear(y.row.request_year) : s \in Submitted
        BY DEF OfYear
      <3>3. KeyClaim(y)'
        BY ONLY <2>1, <2>2, <3>1, <3>2 DEF KeyClaim, NumberOf
      <3> QED BY ONLY <3>1, <3>3 DEF KeyClaim, NumberOf
    <2> QED BY <1>1, <2>2, <2>3, <2>4 DEF KeyInv
  <1> QED BY <1>2, <1>4, <1>5

\* Every step keeps the keys and the trails.
LEMMA KeyStep == KeyInv /\ [SessionNext]_sessionVars => KeyInv'
  <1> SUFFICES ASSUME KeyInv, [SessionNext]_sessionVars PROVE KeyInv'
    OBVIOUS
  <1>1. ASSUME NEW w \in Worker, Advance(w) PROVE KeyInv'
    BY <1>1, KeyAcquire, KeyQuery, KeyNumber, KeyCommit, KeyOpen DEF Advance, Fail, FailOn
  <1>2. ASSUME NEW w \in Worker, OpenAny(w) \/ Crash(w) \/ Maintain(w) PROVE KeyInv'
    BY <1>2, KeyOpen, KeyMaintain DEF Crash
  <1>3. CASE UNCHANGED sessionVars
    <2>1. SessionInv'
      BY <1>3, SessionStep DEF KeyInv
    <2> QED BY <1>3, <2>1, KeyRequestsAlone DEF sessionVars, vars
  <1> QED BY <1>1, <1>2, <1>3 DEF SessionNext

\* At the start there is neither.
LEMMA KeyStarts == SessionInit => KeyInv
  <1> SUFFICES ASSUME SessionInit PROVE KeyInv
    OBVIOUS
  <1>1. SessionInv /\ Submitted = {} /\ \A y : OfYear(y) = {}
    BY SessionStarts DEF SessionInit, Init, Submitted, OfYear
  <1>2. KeysDense
    BY <1>1, FS_EmptySet DEF KeysDense
  <1> QED BY <1>1, <1>2 DEF SessionInit, KeyInv

\* The keys of a year are consecutive and distinct although racing submissions
\* count the same requests: the unique key makes all but one of them fail.
THEOREM SessionKeysTheorem == SessionSpec => []KeysDense
  BY KeyStarts, KeyStep, PTL DEF SessionSpec, KeyInv

\* The requests, their steps and their trails change in commits alone.
LEMMA OnlyCommits ==
    [SessionNext]_sessionVars =>
        (\E w \in Worker : Commit(w)) \/ UNCHANGED <<leave_requests, approval_steps, audit_log>>
  <1> SUFFICES ASSUME [SessionNext]_sessionVars
               PROVE  \/ \E w \in Worker : Commit(w)
                      \/ UNCHANGED <<leave_requests, approval_steps, audit_log>>
    OBVIOUS
  <1>1. ASSUME NEW w \in Worker, OpenAny(w)
        PROVE  UNCHANGED <<leave_requests, approval_steps, audit_log>>
    BY <1>1 DEF OpenAny, OpenSubmit, OpenDecide, OpenCancel, vars
  <1>2. ASSUME NEW w \in Worker, Advance(w)
        PROVE  Commit(w) \/ UNCHANGED <<leave_requests, approval_steps, audit_log>>
    BY <1>2 DEF Advance, Acquire, ReadType, ReadBalance, Number, Fail, FailOn, RollBack, vars
  <1>3. ASSUME NEW w \in Worker, Crash(w) \/ Maintain(w)
        PROVE  UNCHANGED <<leave_requests, approval_steps, audit_log>>
    BY <1>3 DEF Crash, RollBack, Maintain, UpdateLeaveType, SeedBalance, vars
  <1>4. UNCHANGED sessionVars => UNCHANGED <<leave_requests, approval_steps, audit_log>>
    BY DEF sessionVars, vars
  <1> QED BY <1>1, <1>2, <1>3, <1>4 DEF SessionNext

\* The formula of FirstSubmissionStands for one request.
FirstStands(s) ==
    /\ s \in Submitted'
    /\ leave_requests'[s] = [leave_requests[s] EXCEPT !.status = leave_requests'[s].status]
    /\ Head(audit_log'[s]) = "Submitted"
    /\ \A i \in 2..Len(audit_log'[s]) : audit_log'[s][i] # "Submitted"

\* No step replaces a stored request or records it again.
LEMMA FirstStep == KeyInv /\ [SessionNext]_sessionVars => \A s \in Submitted : FirstStands(s)
  <1> SUFFICES ASSUME KeyInv, [SessionNext]_sessionVars, NEW s \in Submitted PROVE FirstStands(s)
    OBVIOUS
  <1>1. KeyInv'
    BY KeyStep
  <1>2. leave_requests[s] \in LeaveRequestRow
    BY DEF KeyInv, SessionInv, TypeInv, TypeOK
  <1>3. PICK row \in LeaveRequestRow : row = leave_requests[s]
    BY <1>2
  <1>4. /\ s \in Submitted'
        /\ \E st : leave_requests'[s] = [row EXCEPT !.status = st]
    <2>1. ASSUME NEW w \in Worker, Commit(w)
          PROVE  s \in Submitted' /\ \E st : leave_requests'[s] = [row EXCEPT !.status = st]
      <3>0. PICK x \in Transaction : Writes(w, x)
        BY <2>1, CommitWrites DEF KeyInv
      <3>1. /\ x = session[w] /\ Wanted(w) = {}
            /\ Submitted' = Submitted \cup {x.submission}
            /\ \A r \in Submitted \ {x.submission} :
                  leave_requests'[r] = leave_requests[r] /\ audit_log'[r] = audit_log[r]
            /\ \/ x.verdict = "Submitted" /\ x.phase = "Numbered"
               \/ /\ x.verdict \in {"Approved", "Rejected", "Cancelled"}
                  /\ leave_requests' = [leave_requests EXCEPT ![x.submission].status = x.verdict]
        BY <3>0 DEF Writes
      <3>2. CASE s # x.submission
        <4>1. row = [row EXCEPT !.status = row.status]
          BY DEF LeaveRequestRow
        <4> QED BY <1>3, <3>1, <3>2, <4>1
      <3>3. CASE s = x.submission
        <4>1. leave_requests' = [leave_requests EXCEPT ![x.submission].status = x.verdict]
          BY <3>1, <3>3, SubmissionClaims
        <4>2. leave_requests'[s] = [row EXCEPT !.status = x.verdict]
          BY <1>3, <3>3, <4>1 DEF KeyInv, SessionInv, TypeInv, TypeOK
        <4> QED BY <3>1, <4>2
      <3> QED BY <3>2, <3>3
    <2>2. CASE leave_requests' = leave_requests
      BY <1>3, <2>2 DEF Submitted, LeaveRequestRow
    <2> QED BY <2>1, <2>2, OnlyCommits
  <1>5. leave_requests'[s] = [leave_requests[s] EXCEPT !.status = leave_requests'[s].status]
    BY <1>3, <1>4 DEF LeaveRequestRow
  <1>6. /\ audit_log'[s] \in Seq(AuditAction) /\ TrailTells(leave_requests'[s].status, audit_log'[s])
    BY <1>1, <1>4 DEF KeyInv, SessionInv, TypeInv, TypeOK
  <1> QED BY <1>4, <1>5, <1>6 DEF TrailTells, FirstStands

\* The first submission under an id is the one that stays, whatever races it.
THEOREM FirstSubmissionTheorem == SessionSpec => FirstSubmissionStands
  <1>1. KeyInv /\ [SessionNext]_sessionVars => [\A s \in Submitted : FirstStands(s)]_sessionVars
    BY FirstStep
  <1> QED BY <1>1, KeyStarts, KeyStep, PTL DEF SessionSpec, FirstSubmissionStands, FirstStands

-----------------------------------------------------------------------------
(***************************************************************************)
(* Verdicts that race.                                                     *)
(***************************************************************************)

\* What the approval steps of one request say, compared with its trail.
StepsTell(status, steps, trail) ==
    /\ status \in Decision => \E k \in Stage : steps[k] = status
    /\ \A k \in Stage : steps[k] # "Pending" =>
            \E i \in 2..Len(trail) : trail[i] = DecisionAction(steps[k])

VerdictInv ==
    \A s \in Submitted : StepsTell(leave_requests[s].status, approval_steps[s], audit_log[s])

\* A decision leaves its verdict in a step and in the trail; a cancellation in the
\* trail alone.
LEMMA StepsGrow ==
    ASSUME NEW steps \in [Stage -> StepStatus], NEW trail \in Seq(AuditAction), Len(trail) >= 1,
           NEW status, StepsTell(status, steps, trail),
           NEW verdict \in {"Approved", "Rejected", "Cancelled"}, NEW stage \in Stage
    PROVE  StepsTell(verdict,
                     IF verdict \in Decision THEN [steps EXCEPT ![stage] = verdict] ELSE steps,
                     Append(trail, LastEntry(verdict)))
  <1>1. PICK entry \in AuditAction : entry = LastEntry(verdict)
    BY DEF LastEntry, DecisionAction, AuditAction, Decision
  <1>2. verdict \in Decision => entry = DecisionAction(verdict)
    BY <1>1 DEF LastEntry
  <1>3. PICK longer : longer = Append(trail, entry)
    OBVIOUS
  <1>4. /\ Len(longer) = Len(trail) + 1 /\ Len(trail) \in Nat /\ longer[Len(longer)] = entry
        /\ \A i \in 1..Len(trail) : longer[i] = trail[i]
    BY <1>3
  <1>5. Len(longer) \in 2..Len(longer) /\ 2..Len(trail) \subseteq 2..Len(longer)
    BY <1>4
  <1>6. ASSUME NEW k \in Stage, steps[k] # "Pending"
        PROVE  \E i \in 2..Len(longer) : longer[i] = DecisionAction(steps[k])
    <2>1. PICK i \in 2..Len(trail) : trail[i] = DecisionAction(steps[k])
      BY <1>6 DEF StepsTell
    <2> QED BY <1>4, <1>5, <2>1
  <1>7. CASE verdict \in Decision
    <2>1. PICK now : now = [steps EXCEPT ![stage] = verdict]
      OBVIOUS
    <2>2. now[stage] = verdict /\ \A k \in Stage \ {stage} : now[k] = steps[k]
      BY <2>1
    <2>3. \A k \in Stage : now[k] # "Pending" =>
              \E i \in 2..Len(longer) : longer[i] = DecisionAction(now[k])
      BY <1>2, <1>4, <1>5, <1>6, <1>7, <2>2
    <2>4. StepsTell(verdict, now, longer)
      BY <2>2, <2>3 DEF StepsTell
    <2> QED BY <1>1, <1>3, <1>7, <2>1, <2>4
  <1>8. CASE verdict \notin Decision
    <2>1. StepsTell(verdict, steps, longer)
      BY <1>6, <1>8 DEF StepsTell
    <2> QED BY <1>1, <1>3, <1>8, <2>1
  <1> QED BY <1>7, <1>8

\* A commit of x that settles a request, seen from the request.
LEMMA SettlingCommit ==
    ASSUME KeyInv, NEW w \in Worker, NEW x \in Transaction, Writes(w, x), x.verdict # "Submitted"
    PROVE  /\ x.submission \in Submitted /\ Submitted' = Submitted
           /\ x.verdict \in {"Approved", "Rejected", "Cancelled"}
           /\ leave_requests'[x.submission].status = x.verdict
           /\ approval_steps'[x.submission] =
                 IF x.verdict \in Decision
                 THEN [approval_steps[x.submission] EXCEPT ![x.step] = x.verdict]
                 ELSE approval_steps[x.submission]
           /\ audit_log'[x.submission] = Append(audit_log[x.submission], LastEntry(x.verdict))
           /\ \A s \in Submitted \ {x.submission} :
                 /\ leave_requests'[s] = leave_requests[s]
                 /\ approval_steps'[s] = approval_steps[s]
                 /\ audit_log'[s] = audit_log[s]
  <1>1. /\ x.verdict \in {"Approved", "Rejected", "Cancelled"} /\ x.submission \in Submitted
        /\ Submitted' = Submitted \cup {x.submission}
        /\ leave_requests' = [leave_requests EXCEPT ![x.submission].status = x.verdict]
        /\ approval_steps' = IF x.verdict \in Decision
                THEN [approval_steps EXCEPT ![x.submission][x.step] = x.verdict]
                ELSE approval_steps
        /\ audit_log' = [audit_log EXCEPT ![x.submission] = Append(@, AuditEntry(x))]
        /\ \A s \in Submitted \ {x.submission} :
              leave_requests'[s] = leave_requests[s] /\ audit_log'[s] = audit_log[s]
    BY DEF Writes
  <1>2. TypeOK
    BY DEF KeyInv, SessionInv, TypeInv
  <1>3. AuditEntry(x) = LastEntry(x.verdict)
    BY <1>1 DEF AuditEntry, LastEntry, Decision
  <1>4. audit_log'[x.submission] = Append(audit_log[x.submission], LastEntry(x.verdict))
    BY <1>1, <1>2, <1>3 DEF TypeOK
  <1>5. leave_requests'[x.submission].status = x.verdict
    BY <1>1, <1>2 DEF TypeOK, LeaveRequestRow
  <1>6. approval_steps'[x.submission] =
            IF x.verdict \in Decision
            THEN [approval_steps[x.submission] EXCEPT ![x.step] = x.verdict]
            ELSE approval_steps[x.submission]
    BY <1>1, <1>2 DEF TypeOK
  <1>7. \A s \in Submitted \ {x.submission} : approval_steps'[s] = approval_steps[s]
    BY <1>1, <1>2 DEF TypeOK
  <1> QED BY <1>1, <1>4, <1>5, <1>6, <1>7

\* Every step keeps the steps and the trails in agreement.
LEMMA VerdictStep == KeyInv /\ VerdictInv /\ [SessionNext]_sessionVars => VerdictInv'
  <1> SUFFICES ASSUME KeyInv, VerdictInv, [SessionNext]_sessionVars PROVE VerdictInv'
    OBVIOUS
  <1>1. ASSUME NEW w \in Worker, Commit(w) PROVE VerdictInv'
    <2>1. PICK x \in Transaction : Writes(w, x)
      BY <1>1, CommitWrites DEF KeyInv
    <2>2. CASE x.verdict = "Submitted"
      <3>1. /\ Submitted' = Submitted \cup {x.submission} /\ x = session[w] /\ Wanted(w) = {}
            /\ x.phase = "Numbered" /\ x.row.status = "Pending"
            /\ leave_requests' = Insert(leave_requests, x.submission, x.row)
            /\ approval_steps' = Insert(approval_steps, x.submission, [k \in Stage |-> "Pending"])
            /\ \A s \in Submitted \ {x.submission} :
                  leave_requests'[s] = leave_requests[s] /\ audit_log'[s] = audit_log[s]
        BY <2>1, <2>2 DEF Writes, Grounded
      <3>2. x.submission \notin Submitted
        BY <2>2, <3>1, SubmissionClaims
      <3>3. DOMAIN approval_steps = Submitted
        BY DEF KeyInv, SessionInv, TypeInv, TypeOK
      <3>4. \A s \in Submitted : approval_steps'[s] = approval_steps[s]
        BY <3>1, <3>2, <3>3 DEF Insert, Write
      <3>5. \A s \in Submitted : StepsTell(leave_requests'[s].status, approval_steps'[s], audit_log'[s])
        BY <3>1, <3>2, <3>4 DEF VerdictInv
      <3>6. /\ leave_requests'[x.submission].status = "Pending"
            /\ \A k \in Stage : approval_steps'[x.submission][k] = "Pending"
        BY <3>1 DEF Insert, Write
      <3>7. StepsTell(leave_requests'[x.submission].status, approval_steps'[x.submission],
                      audit_log'[x.submission])
        BY <3>6 DEF StepsTell, Decision
      <3> QED BY <3>1, <3>5, <3>7 DEF VerdictInv
    <2>3. CASE x.verdict # "Submitted"
      <3>1. /\ x.submission \in Submitted /\ Submitted' = Submitted
            /\ x.verdict \in {"Approved", "Rejected", "Cancelled"}
            /\ leave_requests'[x.submission].status = x.verdict
            /\ approval_steps'[x.submission] =
                  IF x.verdict \in Decision
                  THEN [approval_steps[x.submission] EXCEPT ![x.step] = x.verdict]
                  ELSE approval_steps[x.submission]
            /\ audit_log'[x.submission] = Append(audit_log[x.submission], LastEntry(x.verdict))
            /\ \A s \in Submitted \ {x.submission} :
                  /\ leave_requests'[s] = leave_requests[s]
                  /\ approval_steps'[s] = approval_steps[s]
                  /\ audit_log'[s] = audit_log[s]
        BY <2>1, <2>3, SettlingCommit
      <3>2. /\ approval_steps[x.submission] \in [Stage -> StepStatus]
            /\ audit_log[x.submission] \in Seq(AuditAction) /\ Len(audit_log[x.submission]) >= 1
        BY <3>1 DEF KeyInv, SessionInv, TypeInv, TypeOK, TrailTells
      <3>3. PICK steps \in [Stage -> StepStatus], trail \in Seq(AuditAction) :
                /\ steps = approval_steps[x.submission] /\ trail = audit_log[x.submission]
                /\ Len(trail) >= 1
        BY <3>2
      <3>4. StepsTell(leave_requests[x.submission].status, steps, trail)
        BY <3>1, <3>3 DEF VerdictInv
      <3>5. PICK stage \in Stage, verdict \in {"Approved", "Rejected", "Cancelled"} :
                stage = x.step /\ verdict = x.verdict
        BY <3>1 DEF Transaction
      <3>6. StepsTell(verdict,
                      IF verdict \in Decision THEN [steps EXCEPT ![stage] = verdict] ELSE steps,
                      Append(trail, LastEntry(verdict)))
        BY <3>3, <3>4, <3>5, StepsGrow
      <3>7. StepsTell(leave_requests'[x.submission].status, approval_steps'[x.submission],
                      audit_log'[x.submission])
        BY <3>1, <3>3, <3>5, <3>6
      <3> QED BY <3>1, <3>7 DEF VerdictInv
    <2> QED BY <2>2, <2>3
  <1>2. CASE UNCHANGED <<leave_requests, approval_steps, audit_log>>
    BY <1>2 DEF VerdictInv, Submitted
  <1> QED BY <1>1, <1>2, OnlyCommits

\* When decisions and cancellations race, the status is the one audited last, and
\* the steps show no verdict that the trail does not record.
THEOREM LastVerdictTheorem == SessionSpec => []LastVerdictStands
  <1>1. SessionInit => VerdictInv
    BY DEF SessionInit, Init, VerdictInv, Submitted
  <1>2. KeyInv /\ VerdictInv => LastVerdictStands
    BY DEF KeyInv, VerdictInv, TrailTells, StepsTell, LastVerdictStands
  <1> QED BY <1>1, <1>2, KeyStarts, KeyStep, VerdictStep, PTL DEF SessionSpec

\* Rivals are sessions, hence finitely many.
LEMMA RivalsCounted ==
    ASSUME NEW s
    PROVE  /\ IsFiniteSet(Rivals(s)) /\ Cardinality(Rivals(s)) \in Nat
           /\ Cardinality(Rivals(s)) <= Cardinality(Worker)
           /\ Cardinality(Worker) \in Nat
           /\ \A w \in Rivals(s) : Cardinality(Rivals(s) \ {w}) = Cardinality(Rivals(s)) - 1
  <1>1. IsFiniteSet(Worker) /\ Rivals(s) \subseteq Worker
    BY SessionAssumption DEF Rivals
  <1>2. IsFiniteSet(Rivals(s)) /\ Cardinality(Rivals(s)) <= Cardinality(Worker)
    BY <1>1, FS_Subset
  <1>3. Cardinality(Rivals(s)) \in Nat /\ Cardinality(Worker) \in Nat
    BY <1>1, <1>2, FS_CardinalityType
  <1> QED BY <1>2, <1>3, FS_RemoveElement

\* A session that goes on does so for the same request and the same purpose.
LEMMA SameErrand ==
    ASSUME SessionInv, NEW w \in Worker,
           (\E l : Acquire(w, l)) \/ ReadType(w) \/ ReadBalance(w) \/ Number(w)
    PROVE  /\ session[w] # Idle
           /\ \E x : /\ session' = [session EXCEPT ![w] = x]
                     /\ x.submission = session[w].submission /\ x.verdict = session[w].verdict
  <1>1. session[w].phase # "Idle"
    BY DEF Acquire, Wanted, Flush, ReadType, ReadBalance, Number
  <1>2. PICK y \in Transaction : y = session[w] /\ y # Idle
    BY <1>1, OpenSession
  <1> SUFFICES \E x : /\ session' = [session EXCEPT ![w] = x]
                      /\ x.submission = y.submission /\ x.verdict = y.verdict
    BY <1>2
  <1>3. CASE \E l : Acquire(w, l)
    <2>1. PICK l : Acquire(w, l)
      BY <1>3
    <2>2. PICK x : x = [y EXCEPT !.held = @ \cup {l}]
      OBVIOUS
    <2>3. session' = [session EXCEPT ![w] = x]
      BY <1>2, <2>1, <2>2 DEF Acquire
    <2>4. x.submission = y.submission /\ x.verdict = y.verdict
      BY <2>2 DEF Transaction
    <2> QED BY <2>3, <2>4
  <1>4. CASE ReadType(w)
    <2>1. PICK x : x = [y EXCEPT !.phase = "Reading", !.charged = Charged(y.row)]
      OBVIOUS
    <2>2. session' = [session EXCEPT ![w] = x]
      BY <1>2, <1>4, <2>1 DEF ReadType
    <2>3. x.submission = y.submission /\ x.verdict = y.verdict
      BY <2>1 DEF Transaction
    <2> QED BY <2>2, <2>3
  <1>5. CASE ReadBalance(w)
    <2>1. PICK was, fresh : session' = [session EXCEPT ![w].was = was, ![w].fresh = fresh]
      BY <1>5 DEF ReadBalance
    <2>2. PICK x : x = [y EXCEPT !.was = was, !.fresh = fresh]
      OBVIOUS
    <2>3. session' = [session EXCEPT ![w] = x]
      BY <1>2, <2>1, <2>2 DEF SessionInv
    <2>4. x.submission = y.submission /\ x.verdict = y.verdict
      BY <2>2 DEF Transaction
    <2> QED BY <2>3, <2>4
  <1>6. CASE Number(w)
    <2>1. PICK n : session' = [session EXCEPT ![w].phase = "Numbered", ![w].row.number = n]
      BY <1>6 DEF Number
    <2>2. PICK x : x = [y EXCEPT !.phase = "Numbered", !.row = [y.row EXCEPT !.number = n]]
      OBVIOUS
    <2>3. session' = [session EXCEPT ![w] = x]
      BY <1>2, <2>1, <2>2 DEF SessionInv
    <2>4. x.submission = y.submission /\ x.verdict = y.verdict
      BY <2>2 DEF Transaction
    <2> QED BY <2>3, <2>4
  <1> QED BY <1>3, <1>4, <1>5, <1>6

\* Nobody becomes the rival of a settled request, and nothing is recorded, in any
\* step but a commit.
LEMMA RivalsKept ==
    ASSUME KeyInv, SettledByRivals, UNCHANGED <<leave_requests, audit_log>>,
           \A s \in Submitted : leave_requests[s].status # "Pending" => Rivals(s)' \subseteq Rivals(s)
    PROVE  SettledByRivals'
  <1> SUFFICES ASSUME NEW s \in Submitted, leave_requests[s].status # "Pending"
               PROVE  Len(audit_log[s]) - 1 + Cardinality(Rivals(s)') <= Cardinality(Worker)
    BY DEF SettledByRivals, Submitted
  <1>1. /\ IsFiniteSet(Rivals(s)) /\ Rivals(s)' \subseteq Rivals(s)
        /\ Cardinality(Rivals(s)) \in Nat /\ Cardinality(Worker) \in Nat
    BY RivalsCounted
  <1>2. Cardinality(Rivals(s)') <= Cardinality(Rivals(s)) /\ Cardinality(Rivals(s)') \in Nat
    BY <1>1, FS_Subset, FS_CardinalityType
  <1>3. Len(audit_log[s]) \in Nat
    BY DEF KeyInv, SessionInv, TypeInv, TypeOK
  <1>4. Len(audit_log[s]) - 1 + Cardinality(Rivals(s)) <= Cardinality(Worker)
    BY DEF SettledByRivals
  <1> QED BY <1>1, <1>2, <1>3, <1>4

\* A handler opens with a request it finds pending, or with a new one.
LEMMA RivalsOpen ==
    ASSUME KeyInv, NEW w \in Worker, OpenAny(w),
           NEW s \in Submitted, leave_requests[s].status # "Pending"
    PROVE  Rivals(s)' \subseteq Rivals(s)
  <1>1. \E x : /\ session' = [session EXCEPT ![w] = x]
               /\ x.verdict = "Submitted" \/ x.submission # s
    <2>1. ASSUME NEW phase, NEW verdict, NEW r, NEW k, NEW row, NEW charged,
                 session' = [session EXCEPT ![w] = Open(phase, verdict, r, k, row, charged)],
                 verdict = "Submitted" \/ r # s
          PROVE  \E x : /\ session' = [session EXCEPT ![w] = x]
                        /\ x.verdict = "Submitted" \/ x.submission # s
      <3>1. PICK x : x = Open(phase, verdict, r, k, row, charged)
        OBVIOUS
      <3>2. x.verdict = verdict /\ x.submission = r
        BY <3>1 DEF Open
      <3> QED BY <2>1, <3>1, <3>2
    <2>2. ASSUME NEW r, NEW row, OpenSubmit(w, r, row)
          PROVE  session' = [session EXCEPT ![w] = Open("Reading", "Submitted", r, 1, row, Charged(row))]
      BY <2>2 DEF OpenSubmit
    <2>3. ASSUME NEW r, NEW actor, NEW decision, NEW k, OpenDecide(w, r, actor, decision, k)
          PROVE  /\ session' = [session EXCEPT
                        ![w] = Open("Open", decision, r, k, leave_requests[r], {})]
                 /\ r # s
      BY <2>3 DEF OpenDecide, MayDecide
    <2>4. ASSUME NEW r, NEW actor, OpenCancel(w, r, actor)
          PROVE  /\ session' = [session EXCEPT ![w] = Open("Reading", "Cancelled", r, 1,
                                        leave_requests[r], Charged(leave_requests[r]))]
                 /\ r # s
      BY <2>4 DEF OpenCancel, MayCancel
    <2> QED BY <2>1, <2>2, <2>3, <2>4 DEF OpenAny
  <1>2. PICK x : /\ session' = [session EXCEPT ![w] = x]
                 /\ x.verdict = "Submitted" \/ x.submission # s
    BY <1>1
  <1>3. session'[w] = x /\ \A v \in Worker \ {w} : session'[v] = session[v]
    BY <1>2 DEF KeyInv, SessionInv
  <1> QED BY <1>2, <1>3 DEF Rivals

\* A commit that settles a request adds one verdict and ends one of the rivals; the
\* first one finds no verdict and at most all sessions as rivals.
LEMMA RivalsCommit ==
    ASSUME KeyInv, SettledByRivals, NEW w \in Worker, Commit(w)
    PROVE  SettledByRivals'
  <1>1. PICK x \in Transaction : Writes(w, x)
    BY CommitWrites DEF KeyInv
  <1>2. /\ x = session[w] /\ Wanted(w) = {} /\ session' = [session EXCEPT ![w] = Idle]
        /\ Submitted' = Submitted \cup {x.submission}
        /\ \A s \in Submitted \ {x.submission} :
              leave_requests'[s] = leave_requests[s] /\ audit_log'[s] = audit_log[s]
        /\ x # Idle
    BY <1>1, Phases DEF Writes, Commit
  <1>3. session'[w] = Idle /\ \A v \in Worker \ {w} : session'[v] = session[v]
    BY <1>2 DEF KeyInv, SessionInv
  <1>4. \A s : Rivals(s)' = Rivals(s) \ {w}
    BY <1>3 DEF Rivals
  <1>5. ASSUME NEW s \in Submitted \ {x.submission}, leave_requests'[s].status # "Pending"
        PROVE  Len(audit_log'[s]) - 1 + Cardinality(Rivals(s)') <= Cardinality(Worker)
    <2>1. w \notin Rivals(s)
      BY <1>2, <1>5 DEF Rivals
    <2>2. Rivals(s)' = Rivals(s)
      BY <1>4, <2>1
    <2> QED BY <1>2, <1>5, <2>2 DEF SettledByRivals
  <1>6. CASE x.verdict = "Submitted"
    <2>1. x.phase = "Numbered" /\ x.row.status = "Pending"
          /\ leave_requests' = Insert(leave_requests, x.submission, x.row)
      BY <1>1, <1>6 DEF Writes, Grounded
    <2>2. leave_requests'[x.submission].status = "Pending"
      BY <2>1 DEF Insert, Write
    <2> QED BY <1>2, <1>5, <2>2 DEF SettledByRivals
  <1>7. CASE x.verdict # "Submitted"
    <2>1. x.submission \in Submitted
          /\ audit_log'[x.submission] = Append(audit_log[x.submission], LastEntry(x.verdict))
      BY <1>1, <1>7, SettlingCommit
    <2>2. PICK trail \in Seq(AuditAction) : trail = audit_log[x.submission]
      BY <2>1 DEF KeyInv, SessionInv, TypeInv, TypeOK
    <2>3. Len(audit_log'[x.submission]) = Len(trail) + 1 /\ Len(trail) \in Nat
      BY <2>1, <2>2
    <2>4. w \in Rivals(x.submission)
      BY <1>2, <1>7 DEF Rivals
    <2>5. /\ Cardinality(Rivals(x.submission)') = Cardinality(Rivals(x.submission)) - 1
          /\ Cardinality(Rivals(x.submission)) \in Nat /\ Cardinality(Worker) \in Nat
          /\ Cardinality(Rivals(x.submission)) <= Cardinality(Worker)
      BY <1>4, <2>4, RivalsCounted
    <2>6. CASE leave_requests[x.submission].status # "Pending"
      <3>1. Len(trail) - 1 + Cardinality(Rivals(x.submission)) <= Cardinality(Worker)
        BY <2>1, <2>2, <2>6 DEF SettledByRivals
      <3>2. Len(audit_log'[x.submission]) - 1 + Cardinality(Rivals(x.submission)')
                <= Cardinality(Worker)
        BY <2>3, <2>5, <3>1
      <3> QED BY <1>2, <1>5, <2>1, <3>2 DEF SettledByRivals
    <2>7. CASE leave_requests[x.submission].status = "Pending"
      <3>1. TrailTells("Pending", trail)
        BY <2>1, <2>2, <2>7 DEF KeyInv
      <3>2. trail[Len(trail)] = "Submitted"
        BY <3>1 DEF TrailTells, LastEntry, Decision
      <3>3. PICK n \in Nat : n = Len(trail)
        BY <2>3
      <3>4. n >= 1 /\ n \notin 2..n
        BY <3>1, <3>2, <3>3 DEF TrailTells
      <3>5. Len(audit_log'[x.submission]) - 1 + Cardinality(Rivals(x.submission)')
                <= Cardinality(Worker)
        BY <2>3, <2>5, <3>3, <3>4
      <3> QED BY <1>2, <1>5, <2>1, <3>5 DEF SettledByRivals
    <2> QED BY <2>6, <2>7
  <1> QED BY <1>6, <1>7

\* A settled request gets no new rivals, and it changes only in a step that takes one
\* of them away.
Dwindles(s) ==
    leave_requests[s].status # "Pending" =>
        /\ Rivals(s)' \subseteq Rivals(s)
        /\ \/ leave_requests'[s] = leave_requests[s] /\ audit_log'[s] = audit_log[s]
           \/ \E w \in Rivals(s) : Rivals(s)' = Rivals(s) \ {w}

\* So it is with every step.
LEMMA DwindleStep ==
    ASSUME KeyInv, [SessionNext]_sessionVars, NEW s \in Submitted
    PROVE  Dwindles(s)
  <1> SUFFICES ASSUME leave_requests[s].status # "Pending" PROVE Dwindles(s)
    BY DEF Dwindles
  <1>1. ASSUME UNCHANGED <<leave_requests, audit_log>>, Rivals(s)' \subseteq Rivals(s)
        PROVE  Dwindles(s)
    BY <1>1 DEF Dwindles
  <1>2. ASSUME NEW w \in Worker, OpenAny(w) PROVE Dwindles(s)
    <2>1. UNCHANGED <<leave_requests, audit_log>>
      BY <1>2 DEF OpenAny, OpenSubmit, OpenDecide, OpenCancel, vars
    <2> QED BY <1>1, <1>2, <2>1, RivalsOpen
  <1>3. ASSUME NEW w \in Worker,
               (\E l : Acquire(w, l)) \/ ReadType(w) \/ ReadBalance(w) \/ Number(w)
        PROVE  Dwindles(s)
    <2>1. UNCHANGED <<leave_requests, audit_log>>
      BY <1>3 DEF Acquire, ReadType, ReadBalance, Number, vars
    <2>2. session[w] # Idle /\ \E x : /\ session' = [session EXCEPT ![w] = x]
                                      /\ x.submission = session[w].submission
                                      /\ x.verdict = session[w].verdict
      BY <1>3, SameErrand DEF KeyInv
    <2>3. Rivals(s)' \subseteq Rivals(s)
      BY <2>2 DEF Rivals, KeyInv, SessionInv
    <2> QED BY <1>1, <2>1, <2>3
  <1>4. ASSUME NEW w \in Worker, RollBack(w) PROVE Dwindles(s)
    <2>1. UNCHANGED <<leave_requests, audit_log>>
      BY <1>4 DEF RollBack, vars
    <2>2. Rivals(s)' \subseteq Rivals(s)
      BY <1>4 DEF RollBack, Rivals, KeyInv, SessionInv
    <2> QED BY <1>1, <2>1, <2>2
  <1>5. ASSUME NEW w \in Worker, Commit(w) PROVE Dwindles(s)
    <2>1. PICK x \in Transaction : Writes(w, x)
      BY <1>5, CommitWrites DEF KeyInv
    <2>2. /\ x = session[w] /\ Wanted(w) = {} /\ session' = [session EXCEPT ![w] = Idle]
          /\ \A r \in Submitted \ {x.submission} :
                leave_requests'[r] = leave_requests[r] /\ audit_log'[r] = audit_log[r]
          /\ x.verdict = "Submitted" => x.phase = "Numbered"
          /\ x # Idle
      BY <2>1, Phases DEF Writes
    <2>3. Rivals(s)' = Rivals(s) \ {w}
      BY <2>2 DEF Rivals, KeyInv, SessionInv
    <2>4. CASE s # x.submission
      BY <2>2, <2>3, <2>4 DEF Dwindles
    <2>5. CASE s = x.submission
      <3>1. x.verdict # "Submitted"
        BY <2>2, <2>5, SubmissionClaims
      <3>2. w \in Rivals(s)
        BY <2>2, <2>5, <3>1 DEF Rivals
      <3> QED BY <2>3, <3>2 DEF Dwindles
    <2> QED BY <2>4, <2>5
  <1>6. ASSUME UNCHANGED <<leave_requests, audit_log, session>> PROVE Dwindles(s)
    BY <1>1, <1>6 DEF Rivals
  <1>7. ASSUME NEW w \in Worker, Maintain(w) PROVE Dwindles(s)
    BY <1>6, <1>7 DEF Maintain, UpdateLeaveType, SeedBalance
  <1>8. CASE UNCHANGED sessionVars
    BY <1>6, <1>8 DEF sessionVars, vars
  <1> QED BY <1>2, <1>3, <1>4, <1>5, <1>7, <1>8 DEF SessionNext, Advance, Fail, FailOn, Crash

\* Every step keeps the count.
LEMMA RivalsStep == KeyInv /\ SettledByRivals /\ [SessionNext]_sessionVars => SettledByRivals'
  <1> SUFFICES ASSUME KeyInv, SettledByRivals, [SessionNext]_sessionVars PROVE SettledByRivals'
    OBVIOUS
  <1>1. CASE \E w \in Worker : Commit(w)
    BY <1>1, RivalsCommit
  <1>2. CASE UNCHANGED <<leave_requests, approval_steps, audit_log>>
    BY <1>2, DwindleStep, RivalsKept DEF Dwindles
  <1> QED BY <1>1, <1>2, OnlyCommits

\* However handlers race, a request has no more verdicts than there are sessions.
THEOREM SettledByRivalsTheorem == SessionSpec => []SettledByRivals
  <1>1. SessionInit => SettledByRivals
    BY DEF SessionInit, Init, SettledByRivals, Submitted
  <1> QED BY <1>1, KeyStarts, KeyStep, RivalsStep, PTL DEF SessionSpec

\* DecisionIsFinal, which races break, in the form they keep: whoever settles a
\* settled request again had found it pending before it was settled, and settles
\* it no second time.
THEOREM OnlyRivalsTheorem == SessionSpec => [][\A s \in Submitted : Dwindles(s)]_sessionVars
  <1>1. KeyInv /\ [SessionNext]_sessionVars => [\A s \in Submitted : Dwindles(s)]_sessionVars
    BY DwindleStep
  <1> QED BY <1>1, KeyStarts, KeyStep, PTL DEF SessionSpec

-----------------------------------------------------------------------------
(***************************************************************************)
(* The book of requests.                                                   *)
(***************************************************************************)

\* What a trail records after the submission, when an entry is added to it.
LEMMA TailGrows ==
    ASSUME NEW S, NEW trail \in Seq(S), Len(trail) >= 1, NEW entry \in S
    PROVE  Tail(Append(trail, entry)) = Append(Tail(trail), entry)
  <1> DEFINE left == Tail(Append(trail, entry))
  <1> DEFINE right == Append(Tail(trail), entry)
  <1>1. /\ left \in Seq(S) /\ right \in Seq(S) /\ Len(left) = Len(trail)
        /\ Len(right) = Len(trail) /\ Len(trail) \in Nat
    OBVIOUS
  <1>2. \A i \in 1..Len(trail) : left[i] = right[i]
    OBVIOUS
  <1> HIDE DEF left, right
  <1> QED BY <1>1, <1>2

\* The page of a request.
PageOf(row, trail) ==
    [request |-> [row EXCEPT !.status = "Pending"], year |-> row.request_year,
     number |-> row.number, verdicts |-> Tail(trail),
     shows |-> IF row.status = "Pending" THEN <<>> ELSE <<LastEntry(row.status)>>]

LEMMA PagesAre ==
    /\ DOMAIN Pages = Submitted
    /\ \A s \in Submitted : Pages[s] = PageOf(leave_requests[s], audit_log[s])
    /\ \A y : Book!OfYear(y) = OfYear(y)
  <1>1. DOMAIN Pages = Submitted
    BY DEF Pages
  <1>2. \A s \in Submitted : Pages[s] = PageOf(leave_requests[s], audit_log[s])
    BY DEF Pages, PageOf
  <1>3. \A s \in Submitted : Pages[s].year = leave_requests[s].request_year
    BY DEF Pages
  <1> QED BY <1>1, <1>2, <1>3 DEF Book!OfYear, Book!Entered, OfYear

\* The pages after a step.
LEMMA PagesAfter ==
    \A s \in Submitted' : Pages'[s] = PageOf(leave_requests'[s], audit_log'[s])
  BY DEF Pages, PageOf

Page(request, year, number, verdicts, shows) ==
    [request |-> request, year |-> year, number |-> number, verdicts |-> verdicts,
     shows |-> shows]

LEMMA CardinalityInBook == \A S : Book!Cardinality(S) = Cardinality(S)
  BY DEF Book!Cardinality, Cardinality

\* The commit of a submission enters it under the next number.
LEMMA SubmissionIsEntered ==
    ASSUME KeyInv, NEW w \in Worker, NEW x \in Transaction, Writes(w, x), x.verdict = "Submitted"
    PROVE  Book!BookNext
  <1> DEFINE s == x.submission
  <1>1. /\ x = session[w] /\ Wanted(w) = {} /\ Grounded(x) /\ x.phase = "Numbered"
        /\ Submitted' = Submitted \cup {s}
        /\ \A r \in Submitted \ {s} :
              leave_requests'[r] = leave_requests[r] /\ audit_log'[r] = audit_log[r]
        /\ leave_requests' = Insert(leave_requests, s, x.row)
        /\ audit_log' = Insert(audit_log, s, <<"Submitted">>)
    BY DEF Writes
  <1>2. s \notin Submitted /\ x.row.number = NextRequestNumber(x.row.request_year)
    BY <1>1, SubmissionClaims
  <1>3. leave_requests'[s] = x.row /\ audit_log'[s] = <<"Submitted">>
    BY <1>1 DEF Insert, Write
  <1>4. x.row \in LeaveRequestRow /\ x.row.status = "Pending"
    BY <1>1 DEF Grounded, Transaction
  <1> HIDE DEF s
  <1> DEFINE page == [request |-> x.row, year |-> x.row.request_year,
                      number |-> Cardinality(OfYear(x.row.request_year)) + 1,
                      verdicts |-> <<>>, shows |-> <<>>]
  <1>5. Pages'[s] = page
    <2>1. Pages'[s] = PageOf(x.row, <<"Submitted">>)
      BY <1>1, <1>3, PagesAfter
    <2>2. [x.row EXCEPT !.status = "Pending"] = x.row
      BY <1>4 DEF LeaveRequestRow
    <2>3. Tail(<<"Submitted">>) = <<>>
      OBVIOUS
    <2> QED BY <1>2, <1>4, <2>1, <2>2, <2>3 DEF PageOf, NextRequestNumber
  <1>6. \A r \in Submitted : Pages'[r] = Pages[r]
    BY <1>1, <1>2 DEF Pages
  <1> HIDE DEF page
  <1>7. Pages' = [r \in Submitted \cup {s} |-> IF r = s THEN page ELSE Pages[r]]
    <2>1. DOMAIN Pages' = Submitted \cup {s}
      BY <1>1 DEF Pages
    <2>2. Pages' = [r \in DOMAIN Pages' |-> Pages'[r]]
      BY DEF Pages
    <2> QED BY <1>5, <1>6, <2>1, <2>2
  <1>8. Book!Enter(s, Pages'[s].request, Pages'[s].year)
    <2>1. Pages'[s].request = x.row /\ Pages'[s].year = x.row.request_year
      BY <1>5 DEF page
    <2> QED BY <1>2, <1>7, <2>1, PagesAre, CardinalityInBook DEF Book!Enter, Book!Entered, page
  <1>9. s \in DOMAIN Pages'
    BY <1>1 DEF Pages
  <1> QED BY <1>8, <1>9 DEF Book!BookNext, Book!Entered

\* Any other commit adds its verdict, and the request shows it.
LEMMA VerdictIsAdded ==
    ASSUME KeyInv, NEW w \in Worker, NEW x \in Transaction, Writes(w, x), x.verdict # "Submitted"
    PROVE  Book!BookNext
  <1> DEFINE s == x.submission
  <1> DEFINE entry == LastEntry(x.verdict)
  <1>1. /\ Submitted' = Submitted \cup {s}
        /\ \A r \in Submitted \ {s} :
              leave_requests'[r] = leave_requests[r] /\ audit_log'[r] = audit_log[r]
        /\ x.verdict \in {"Approved", "Rejected", "Cancelled"} /\ s \in Submitted
        /\ leave_requests' = [leave_requests EXCEPT ![s].status = x.verdict]
        /\ audit_log' = [audit_log EXCEPT ![s] = Append(@, AuditEntry(x))]
    BY DEF Writes
  <1>2. /\ entry \in AuditAction \ {"Submitted"} /\ AuditEntry(x) = entry
        /\ entry \in AuditAction
    BY <1>1 DEF AuditEntry, LastEntry, DecisionAction, AuditAction, Decision
  <1>3. PICK row \in LeaveRequestRow, trail \in Seq(AuditAction) :
            /\ row = leave_requests[s] /\ trail = audit_log[s]
            /\ Len(trail) >= 1
    <2>1. leave_requests[s] \in LeaveRequestRow /\ audit_log[s] \in Seq(AuditAction)
      BY <1>1 DEF KeyInv, SessionInv, TypeInv, TypeOK
    <2>2. TrailTells(leave_requests[s].status, audit_log[s])
      BY <1>1 DEF KeyInv
    <2> QED BY <2>1, <2>2 DEF TrailTells
  <1>4. /\ leave_requests'[s] = [row EXCEPT !.status = x.verdict]
        /\ audit_log'[s] = Append(trail, entry)
    BY <1>1, <1>2, <1>3 DEF KeyInv, SessionInv, TypeInv, TypeOK
  <1> HIDE DEF s, entry
  <1>5. Pages[s] = PageOf(row, trail)
    BY <1>1, <1>3, PagesAre
  <1>6. Pages'[s] = PageOf([row EXCEPT !.status = x.verdict], Append(trail, entry))
    BY <1>1, <1>4, PagesAfter
  <1>7. Pages'[s] = [Pages[s] EXCEPT !.verdicts = Append(@, entry), !.shows = <<entry>>]
    <2>1. Tail(Append(trail, entry)) = Append(Tail(trail), entry)
      BY <1>2, <1>3, TailGrows
    <2>2. PICK after : after = [row EXCEPT !.status = x.verdict]
      OBVIOUS
    <2>3. /\ [after EXCEPT !.status = "Pending"] = [row EXCEPT !.status = "Pending"]
          /\ after.request_year = row.request_year /\ after.number = row.number
          /\ after.status = x.verdict /\ after.status # "Pending"
      BY <1>1, <2>2 DEF LeaveRequestRow
    <2> DEFINE asked == [row EXCEPT !.status = "Pending"]
    <2>4. PICK old, shows :
            /\ old = Pages[s]
            /\ old = Page(asked, row.request_year, row.number, Tail(trail), shows)
      BY <1>5 DEF PageOf, Page
    <2>5. Pages'[s] = Page(asked, row.request_year, row.number, Append(Tail(trail), entry),
                           <<entry>>)
      BY <1>6, <2>1, <2>2, <2>3 DEF PageOf, Page, entry
    <2> HIDE DEF asked
    <2>6. Pages'[s] = [old EXCEPT !.verdicts = Append(@, entry), !.shows = <<entry>>]
      <3> DEFINE left == [old EXCEPT !.verdicts = Append(@, entry), !.shows = <<entry>>]
      <3> DEFINE right == Pages'[s]
      <3> DEFINE columns == {"request", "year", "number", "verdicts", "shows"}
      <3>1. left = [c \in columns |-> left[c]]
        BY <2>4 DEF Page
      <3>2. right = [c \in columns |-> right[c]]
        BY <2>5 DEF Page
      <3>3. /\ left["request"] = right["request"] /\ left["year"] = right["year"]
            /\ left["number"] = right["number"] /\ left["shows"] = right["shows"]
        BY <2>4, <2>5 DEF Page
      <3>4. left["verdicts"] = right["verdicts"]
        BY <2>4, <2>5 DEF Page
      <3> HIDE DEF left, right
      <3>5. \A c \in columns : left[c] = right[c]
        BY <3>3, <3>4
      <3>6. left = right
        BY <3>1, <3>2, <3>5
      <3> QED BY <3>6 DEF left, right
    <2> QED BY <2>4, <2>6
  <1>8. DOMAIN Pages' = DOMAIN Pages /\ DOMAIN Pages = Submitted
    BY <1>1 DEF Pages
  <1>9. \A r \in Submitted \ {s} : Pages'[r] = Pages[r]
    BY <1>1 DEF Pages
  <1>10. Pages' = [Pages EXCEPT ![s].verdicts = Append(@, entry), ![s].shows = <<entry>>]
    <2>1. /\ Pages' = [r \in DOMAIN Pages' |-> Pages'[r]]
          /\ Pages = [r \in DOMAIN Pages |-> Pages[r]]
      BY DEF Pages
    <2> QED BY <1>1, <1>7, <1>8, <1>9, <2>1
  <1>11. Book!Settle(s, entry)
    BY <1>1, <1>2, <1>8, <1>10 DEF Book!Settle, Book!Entered
  <1>12. Pages'[s].shows = <<entry>>
    BY <1>5, <1>7 DEF PageOf
  <1>13. Pages'[s].shows # <<>> /\ Pages'[s].shows[1] = entry
    BY <1>12
  <1> QED BY <1>1, <1>8, <1>11, <1>13 DEF Book!BookNext, Book!Entered

\* Every step is a step of the book, or none.
LEMMA BookStep == KeyInv /\ [SessionNext]_sessionVars => [Book!BookNext]_Pages
  <1> SUFFICES ASSUME KeyInv, [SessionNext]_sessionVars PROVE Book!BookNext \/ Pages' = Pages
    OBVIOUS
  <1>1. ASSUME NEW w \in Worker, Commit(w) PROVE Book!BookNext
    <2>1. PICK x \in Transaction : Writes(w, x)
      BY <1>1, CommitWrites DEF KeyInv
    <2> QED BY <2>1, SubmissionIsEntered, VerdictIsAdded
  <1>2. CASE UNCHANGED <<leave_requests, audit_log>>
    BY <1>2 DEF Pages, Submitted
  <1> QED BY <1>1, <1>2, OnlyCommits

\* Any number of racing sessions keep one book: a request is entered once under the
\* next number of its year, and every verdict is added to it.
THEOREM BookTheorem == SessionSpec => ImplementsBook
  <1>1. SessionInit => Book!BookInit
    BY DEF SessionInit, Init, Book!BookInit, Pages, Submitted
  <1> QED BY <1>1, KeyStarts, KeyStep, BookStep, PTL
          DEF SessionSpec, ImplementsBook, Book!BookSpec

-----------------------------------------------------------------------------
(***************************************************************************)
(* What a session holds is its own.                                        *)
(***************************************************************************)

\* A row or key that a session has inserted is in no table yet, and a numbered
\* submission has written its balances.
HoldClaim(x) ==
    /\ \A s : <<"submission", s>> \in x.held => s = x.submission
    /\ \A n : <<"number", n>> \in x.held => NumberOf(x) = <<"number", n>> /\ x.phase = "Numbered"
    /\ \A a \in x.fresh : <<"balance", a>> \in x.held => a \notin DOMAIN leave_balances
    /\ x.phase = "Numbered" => \A a \in Dirty(x) : <<"balance", a>> \in x.held

HoldInv ==
    /\ KeyInv
    /\ \A w \in Worker : session[w] # Idle => HoldClaim(session[w])

\* A step of a session that leaves the tables alone.
LEMMA HoldTablesAlone ==
    ASSUME HoldInv, KeyInv', UNCHANGED vars, NEW w \in Worker, NEW x,
           x # Idle => HoldClaim(x), session' = [session EXCEPT ![w] = x]
    PROVE  HoldInv'
  <1>1. ASSUME NEW v \in Worker, session'[v] # Idle PROVE HoldClaim(session[v])'
    <2>1. PICK y : y = session'[v] /\ HoldClaim(y) /\ leave_balances' = leave_balances
      BY <1>1 DEF HoldInv, KeyInv, SessionInv, vars
    <2>2. HoldClaim(y)'
      BY ONLY <2>1 DEF HoldClaim, NumberOf, Dirty, Moved, Reserve, CommitPendingToUsed, ReleasePending
    <2> QED BY ONLY <2>1, <2>2 DEF HoldClaim, NumberOf, Dirty, Moved, Reserve,
                                   CommitPendingToUsed, ReleasePending
  <1> QED BY <1>1 DEF HoldInv

\* A flush or a query.
LEMMA HoldQuery ==
    ASSUME HoldInv, NEW w \in Worker,
           (\E l : Acquire(w, l)) \/ ReadType(w) \/ ReadBalance(w) \/ Number(w)
    PROVE  HoldInv'
  <1>1. UNCHANGED vars
    BY DEF Acquire, ReadType, ReadBalance, Number
  <1>2. KeyInv'
    BY KeyAcquire, KeyQuery, KeyNumber DEF HoldInv
  <1>3. session[w].phase # "Idle"
    BY DEF Acquire, Wanted, Flush, ReadType, ReadBalance, Number
  <1>4. PICK y \in Transaction : y = session[w] /\ Grounded(y) /\ HoldClaim(y)
    BY <1>3, OpenSession DEF HoldInv, KeyInv
  <1>5. ASSUME NEW l, Acquire(w, l) PROVE HoldInv'
    <2>1. PICK x : x = [y EXCEPT !.held = @ \cup {l}]
      OBVIOUS
    <2>2. session' = [session EXCEPT ![w] = x] /\ l \in Flush(y) /\ ~BalanceTaken(y, l)
      BY <1>4, <1>5, <2>1 DEF Acquire, Wanted, Taken
    <2>3. /\ x.held = y.held \cup {l} /\ x.phase = y.phase /\ x.submission = y.submission
          /\ x.row = y.row /\ x.fresh = y.fresh /\ x.was = y.was /\ x.verdict = y.verdict
      BY <2>1 DEF Transaction
    <2>4. Dirty(x) = Dirty(y)
      BY <2>3 DEF Dirty, Moved
    <2>5. /\ \A s : l = <<"submission", s>> => s = y.submission
          /\ \A n : l = <<"number", n>> => y.phase = "Numbered" /\ l = NumberOf(y)
      BY <2>2 DEF Flush, NumberOf
    <2>6. \A a \in y.fresh : l = <<"balance", a>> => a \notin DOMAIN leave_balances
      BY <2>2 DEF BalanceTaken
    <2>7. HoldClaim(x)
      <3> HIDE DEF Dirty
      <3> QED BY <1>4, <2>3, <2>4, <2>5, <2>6 DEF HoldClaim, NumberOf
    <2> QED BY <1>1, <1>2, <2>2, <2>7, HoldTablesAlone
  <1>6. CASE ReadType(w)
    <2>1. PICK charged : charged = Charged(y.row)
      OBVIOUS
    <2>2. PICK x : x = [y EXCEPT !.phase = "Reading", !.charged = charged]
      OBVIOUS
    <2>3. session' = [session EXCEPT ![w] = x] /\ y.phase = "Open"
      BY <1>4, <1>6, <2>1, <2>2 DEF ReadType
    <2>4. HoldClaim(x)
      BY <1>4, <2>2, <2>3 DEF HoldClaim, Transaction
    <2> QED BY <1>1, <1>2, <2>3, <2>4, HoldTablesAlone
  <1>7. CASE ReadBalance(w)
    <2>1. PICK a : a = IF Primary(y.row) \in Unread(y) THEN Primary(y.row) ELSE Secondary(y.row)
      OBVIOUS
    <2>2. y.phase = "Reading"
      BY <1>4, <1>7 DEF ReadBalance
    <2>3. PICK was : was = Insert(y.was, a, BalanceOf(a))
      OBVIOUS
    <2>4. PICK fresh : fresh = IF a \in DOMAIN leave_balances THEN y.fresh ELSE y.fresh \cup {a}
      OBVIOUS
    <2>5. PICK x : x = [y EXCEPT !.was = was, !.fresh = fresh]
      OBVIOUS
    <2>6. session' = [session EXCEPT ![w] = x]
      BY <1>4, <1>7, <2>1, <2>3, <2>4, <2>5 DEF ReadBalance, HoldInv, KeyInv, SessionInv
    <2>7. /\ x.phase = "Reading" /\ x.submission = y.submission /\ x.row = y.row
          /\ x.fresh = fresh /\ x.held = y.held
      BY <2>2, <2>5 DEF Transaction
    <2>8. HoldClaim(x)
      BY <1>4, <2>2, <2>4, <2>7 DEF HoldClaim, NumberOf
    <2> QED BY <1>1, <1>2, <2>6, <2>8, HoldTablesAlone
  <1>8. CASE Number(w)
    <2>1. y.phase = "Reading" /\ y.verdict = "Submitted" /\ Unread(y) = {} /\ Wanted(w) = {}
      BY <1>4, <1>8 DEF Number
    <2>2. PICK n : n = NextRequestNumber(y.row.request_year)
      OBVIOUS
    <2>3. PICK row : row = [y.row EXCEPT !.number = n]
      OBVIOUS
    <2>4. PICK x : x = [y EXCEPT !.phase = "Numbered", !.row = row]
      OBVIOUS
    <2>5. session' = [session EXCEPT ![w] = x]
      <3>1. session' = [session EXCEPT ![w].phase = "Numbered", ![w].row.number = n]
        BY <1>4, <1>8, <2>2 DEF Number
      <3> QED BY <1>4, <2>3, <2>4, <3>1 DEF HoldInv, KeyInv, SessionInv, Transaction
    <2>6. /\ x.phase = "Numbered" /\ x.submission = y.submission /\ x.row = row
          /\ x.verdict = y.verdict /\ x.was = y.was
          /\ x.fresh = y.fresh /\ x.held = y.held /\ row.working_days = y.row.working_days
      BY <2>3, <2>4 DEF Transaction, LeaveRequestRow
    <2>7. Dirty(x) = Dirty(y)
      BY <2>6 DEF Dirty, Moved
    <2>8. \A a \in Dirty(y) : <<"balance", a>> \in y.held
      <3> HIDE DEF Dirty
      <3> QED BY <1>4, <2>1 DEF Wanted, Flush, Decision
    <2>9. \A k : <<"number", k>> \notin y.held
      BY <1>4, <2>1 DEF HoldClaim
    <2>10. HoldClaim(x)
      <3> HIDE DEF Dirty
      <3> QED BY <1>4, <2>6, <2>7, <2>8, <2>9 DEF HoldClaim
    <2> QED BY <1>1, <1>2, <2>5, <2>10, HoldTablesAlone
  <1> QED BY <1>5, <1>6, <1>7, <1>8

\* A session that opens or ends without a commit holds nothing.
LEMMA HoldOpen ==
    ASSUME HoldInv, NEW w \in Worker, OpenAny(w) \/ RollBack(w)
    PROVE  HoldInv'
  <1>1. KeyInv'
    BY KeyOpen DEF HoldInv
  <1>2. CASE RollBack(w)
    BY <1>1, <1>2, HoldTablesAlone DEF RollBack
  <1>3. ASSUME NEW phase \in {"Open", "Reading"}, NEW verdict, NEW s, NEW k, NEW row, NEW charged,
               session' = [session EXCEPT ![w] = Open(phase, verdict, s, k, row, charged)],
               UNCHANGED vars
        PROVE  HoldInv'
    <2>1. PICK x : x = Open(phase, verdict, s, k, row, charged)
      OBVIOUS
    <2>2. x.held = {} /\ x.phase # "Numbered"
      BY <2>1 DEF Open
    <2>3. HoldClaim(x)
      BY <2>2 DEF HoldClaim
    <2> QED BY <1>1, <1>3, <2>1, <2>3, HoldTablesAlone
  <1>4. ASSUME NEW s, NEW r, OpenSubmit(w, s, r) PROVE HoldInv'
    BY <1>3, <1>4 DEF OpenSubmit
  <1>5. ASSUME NEW s, NEW actor, NEW decision, NEW k, OpenDecide(w, s, actor, decision, k)
        PROVE HoldInv'
    BY <1>3, <1>5 DEF OpenDecide
  <1>6. ASSUME NEW s, NEW actor, OpenCancel(w, s, actor) PROVE HoldInv'
    BY <1>3, <1>6 DEF OpenCancel
  <1> QED BY <1>2, <1>4, <1>5, <1>6 DEF OpenAny

\* New balances that nobody else has inserted leave the others their claims.
LEMMA HoldOthers ==
    ASSUME HoldInv, NEW w \in Worker, NEW v \in Worker \ {w}, session[v] # Idle, session'[v] = session[v],
           NEW D, DOMAIN leave_balances' = DOMAIN leave_balances \cup D,
           \A a \in D : <<"balance", a>> \notin session[v].held
    PROVE  HoldClaim(session[v])'
  <1>1. PICK y : y = session[v] /\ HoldClaim(y)
    BY DEF HoldInv
  <1>2. HoldClaim(y)'
    BY <1>1 DEF HoldClaim, NumberOf, Dirty, Moved, Reserve, CommitPendingToUsed, ReleasePending
  <1> QED BY <1>1, <1>2 DEF HoldClaim, NumberOf, Dirty, Moved, Reserve,
                            CommitPendingToUsed, ReleasePending

\* A commit writes balances it holds.
LEMMA HoldCommit ==
    ASSUME HoldInv, NEW w \in Worker, Commit(w)
    PROVE  HoldInv'
  <1>1. KeyInv' /\ SessionInv
    BY KeyCommit DEF HoldInv, KeyInv
  <1>2. session[w] # Idle /\ session[w] \in Transaction
    BY <1>1 DEF Commit, SessionInv
  <1>3. PICK x \in Transaction : x = session[w] /\ HoldClaim(x)
    BY <1>2 DEF HoldInv
  <1>4. /\ Complete(x) /\ Wanted(w) = {} /\ session' = [session EXCEPT ![w] = Idle]
        /\ leave_balances' = Write(leave_balances, [a \in Dirty(x) |-> Merged(x, a)])
    BY <1>3 DEF Commit
  <1>5. PICK D : D = Dirty(x)
    OBVIOUS
  <1>6. DOMAIN leave_balances' = DOMAIN leave_balances \cup D
    <2>1. PICK rows : rows = [a \in D |-> Merged(x, a)]
      OBVIOUS
    <2>2. leave_balances' = Write(leave_balances, rows) /\ DOMAIN rows = D
      BY <1>4, <1>5, <2>1
    <2> QED BY ONLY <2>2 DEF Write
  <1>7. \A a \in D : <<"balance", a>> \in x.held
    <2>1. CASE x.phase = "Numbered"
      BY <1>3, <1>5, <2>1 DEF HoldClaim
    <2>2. CASE x.phase # "Numbered"
      <3> HIDE DEF Dirty
      <3> QED BY <1>3, <1>4, <1>5, <2>2 DEF Complete, Wanted, Flush
    <2> QED BY <2>1, <2>2
  <1>8. ASSUME NEW v \in Worker, session'[v] # Idle PROVE HoldClaim(session[v])'
    <2>1. v # w /\ session'[v] = session[v]
      BY <1>1, <1>4, <1>8 DEF SessionInv
    <2>2. x.held \cap session[v].held = {}
      BY <1>1, <1>3, <2>1 DEF SessionInv, Exclusive
    <2> QED BY <1>6, <1>7, <1>8, <2>1, <2>2, HoldOthers
  <1> QED BY <1>1, <1>8 DEF HoldInv

\* The workbook takes no balance that a session holds.
LEMMA HoldMaintain ==
    ASSUME HoldInv, NEW w \in Worker, Maintain(w)
    PROVE  HoldInv'
  <1>1. KeyInv' /\ SessionInv /\ session' = session /\ session[w] = Idle
    BY KeyMaintain DEF HoldInv, KeyInv, Maintain
  <1>2. PICK D : /\ DOMAIN leave_balances' = DOMAIN leave_balances \cup D
                 /\ \A a \in D : Free(w, <<"balance", a>>)
    <2>1. CASE \E t \in LeaveType, row \in LeaveTypeRow : UpdateLeaveType(t, row)
      <3>1. PICK D : D = {}
        OBVIOUS
      <3>2. DOMAIN leave_balances' = DOMAIN leave_balances \cup D
        BY <2>1, <3>1 DEF UpdateLeaveType
      <3>3. \A a \in D : Free(w, <<"balance", a>>)
        BY <3>1
      <3> QED BY <3>2, <3>3
    <2>2. CASE \E line \in Workbook :
                  Free(w, <<"balance", SeededAccount(line)>>) /\ SeedBalance(line)
      <3>1. PICK line \in Workbook :
                  Free(w, <<"balance", SeededAccount(line)>>) /\ SeedBalance(line)
        BY <2>2
      <3>2. PICK a : a = SeededAccount(line)
        OBVIOUS
      <3>3. PICK D : D = {a}
        OBVIOUS
      <3>4. DOMAIN leave_balances' = DOMAIN leave_balances \cup D
        BY <3>1, <3>2, <3>3 DEF SeedBalance, Insert, Write
      <3>5. \A b \in D : Free(w, <<"balance", b>>)
        BY <3>1, <3>2, <3>3
      <3> QED BY <3>4, <3>5
    <2> QED BY <2>1, <2>2 DEF Maintain
  <1>3. ASSUME NEW v \in Worker, session'[v] # Idle PROVE HoldClaim(session[v])'
    <2>1. v # w /\ session'[v] = session[v] /\ session[v] # Idle
      BY <1>1, <1>3
    <2>2. \A a \in D : <<"balance", a>> \notin session[v].held
      BY <1>2, <2>1 DEF Free, HeldBy
    <2> QED BY <1>2, <2>1, <2>2, HoldOthers
  <1> QED BY <1>1, <1>3 DEF HoldInv

-----------------------------------------------------------------------------
(***************************************************************************)
(* Handlers that find what they have read.                                 *)
(***************************************************************************)

\* A row that a submission has built, up to its number.
Asked(r) ==
    /\ r.status = "Pending" /\ r.request_year = YearOf[r.start_date]
    /\ r.working_days \in 1..(r.end_date - r.start_date + 1)

\* What a handler knows of its own reads, whatever the others have done since.
Drafted(x) ==
    /\ x.verdict = "Submitted" => Asked(x.row)
    /\ x.verdict \in Decision => \E actor \in Employee : MayDecide(x.row, actor)
    /\ x.verdict = "Cancelled" => \E actor \in Employee : MayCancel(x.row, actor)
    /\ x.phase = "Open" => x.charged = {}
    /\ DOMAIN x.was \subseteq x.charged
    /\ x.phase = "Numbered" =>
          /\ x.charged \subseteq DOMAIN x.was
          /\ \A a \in x.charged : CanReserve(x.was[a], x.row.working_days)

DraftInv ==
    /\ SessionInv
    /\ \A w \in Worker : session[w] # Idle => Drafted(session[w])

\* A handler's reads are not the tables: only its own steps change them.
LEMMA DraftOne ==
    ASSUME DraftInv, SessionInv', NEW w \in Worker, NEW x, x # Idle => Drafted(x),
           session' = [session EXCEPT ![w] = x]
    PROVE  DraftInv'
  <1>1. ASSUME NEW v \in Worker, session'[v] # Idle PROVE Drafted(session'[v])
    BY <1>1 DEF DraftInv, SessionInv
  <1> QED BY <1>1 DEF DraftInv, Drafted

\* The row a submission builds is what its checks have seen.
LEMMA AskedRow ==
    ASSUME NEW e \in Employee, NEW t \in LeaveType, NEW sub \in Employee \cup {NoOne},
           NEW from \in Day, NEW until \in Day, NEW n \in 1..(until - from + 1)
    PROVE  Asked(NewRequest(e, t, sub, from, until, n))
  BY DEF Asked, NewRequest

\* The handlers' first checks.
LEMMA DraftOpen ==
    ASSUME DraftInv, NEW w \in Worker, OpenAny(w)
    PROVE  DraftInv'
  <1>1. SessionInv'
    BY OpenKeeps DEF DraftInv
  <1>2. ASSUME NEW s \in SubmissionId, NEW r, Asked(r), OpenSubmit(w, s, r) PROVE DraftInv'
    <2>1. PICK x : x = Open("Reading", "Submitted", s, 1, r, Charged(r))
      OBVIOUS
    <2>2. /\ x.phase = "Reading" /\ x.verdict = "Submitted" /\ x.row = r /\ DOMAIN x.was = {}
      BY <2>1 DEF Open
    <2>3. Drafted(x)
      BY <1>2, <2>2 DEF Drafted, Decision
    <2>4. session' = [session EXCEPT ![w] = x]
      BY <1>2, <2>1 DEF OpenSubmit
    <2> QED BY <1>1, <2>3, <2>4, DraftOne
  <1>3. ASSUME NEW s \in Submitted, NEW actor \in Employee, NEW decision \in Decision, NEW k \in Stage,
               OpenDecide(w, s, actor, decision, k)
        PROVE DraftInv'
    <2>1. PICK x : x = Open("Open", decision, s, k, leave_requests[s], {})
      OBVIOUS
    <2>2. /\ x.phase = "Open" /\ x.verdict = decision /\ x.row = leave_requests[s]
          /\ x.charged = {} /\ DOMAIN x.was = {}
      BY <2>1 DEF Open
    <2>3. Drafted(x)
      BY <1>3, <2>2 DEF Drafted, Decision, OpenDecide
    <2>4. session' = [session EXCEPT ![w] = x]
      BY <1>3, <2>1 DEF OpenDecide
    <2> QED BY <1>1, <2>3, <2>4, DraftOne
  <1>4. ASSUME NEW s \in Submitted, NEW actor \in Employee, OpenCancel(w, s, actor) PROVE DraftInv'
    <2>1. PICK x : x = Open("Reading", "Cancelled", s, 1, leave_requests[s],
                            Charged(leave_requests[s]))
      OBVIOUS
    <2>2. /\ x.phase = "Reading" /\ x.verdict = "Cancelled" /\ x.row = leave_requests[s]
          /\ DOMAIN x.was = {}
      BY <2>1 DEF Open
    <2>3. Drafted(x)
      BY <1>4, <2>2 DEF Drafted, Decision, OpenCancel
    <2>4. session' = [session EXCEPT ![w] = x]
      BY <1>4, <2>1 DEF OpenCancel
    <2> QED BY <1>1, <2>3, <2>4, DraftOne
  <1>5. CASE \E s \in SubmissionId, e \in Employee, t \in LeaveType,
                sub \in Employee \cup {NoOne}, from \in Day, until \in Day :
              \E n \in 1..(until - from + 1) :
                  OpenSubmit(w, s, NewRequest(e, t, sub, from, until, n))
    BY <1>2, <1>5, AskedRow
  <1> QED BY <1>3, <1>4, <1>5 DEF OpenAny

\* A flush or a query.
LEMMA DraftQuery ==
    ASSUME DraftInv, NEW w \in Worker,
           (\E l : Acquire(w, l)) \/ ReadType(w) \/ ReadBalance(w) \/ Number(w)
    PROVE  DraftInv'
  <1>1. SessionInv'
    BY AcquireKeeps, ReadTypeKeeps, ReadBalanceKeeps, NumberKeeps DEF DraftInv
  <1>2. session[w].phase # "Idle"
    BY DEF Acquire, Wanted, Flush, ReadType, ReadBalance, Number
  <1>3. PICK y \in Transaction : y = session[w] /\ Grounded(y) /\ Drafted(y)
    BY <1>2, OpenSession DEF DraftInv
  <1>4. ASSUME NEW l, Acquire(w, l) PROVE DraftInv'
    <2>1. PICK x : x = [y EXCEPT !.held = @ \cup {l}]
      OBVIOUS
    <2>2. session' = [session EXCEPT ![w] = x]
      BY <1>3, <1>4, <2>1 DEF Acquire
    <2>3. Drafted(x)
      BY <1>3, <2>1 DEF Drafted, Transaction
    <2> QED BY <1>1, <2>2, <2>3, DraftOne
  <1>5. CASE ReadType(w)
    <2>1. PICK charged : charged = Charged(y.row)
      OBVIOUS
    <2>2. PICK x : x = [y EXCEPT !.phase = "Reading", !.charged = charged]
      OBVIOUS
    <2>3. session' = [session EXCEPT ![w] = x] /\ y.phase = "Open"
      BY <1>3, <1>5, <2>1, <2>2 DEF ReadType
    <2>4. Drafted(x)
      BY <1>3, <2>2, <2>3 DEF Drafted, Transaction
    <2> QED BY <1>1, <2>3, <2>4, DraftOne
  <1>6. CASE ReadBalance(w)
    <2>1. PICK a : a = IF Primary(y.row) \in Unread(y) THEN Primary(y.row) ELSE Secondary(y.row)
      OBVIOUS
    <2>2. a \in Unread(y) /\ y.phase = "Reading"
      BY <1>3, <1>6, <2>1, NextUnread DEF ReadBalance
    <2>3. PICK was : was = Insert(y.was, a, BalanceOf(a))
      OBVIOUS
    <2>4. PICK fresh : fresh = IF a \in DOMAIN leave_balances THEN y.fresh ELSE y.fresh \cup {a}
      OBVIOUS
    <2>5. PICK x : x = [y EXCEPT !.was = was, !.fresh = fresh]
      OBVIOUS
    <2>6. session' = [session EXCEPT ![w] = x]
      BY <1>3, <1>6, <2>1, <2>3, <2>4, <2>5 DEF ReadBalance, DraftInv, SessionInv
    <2>7. /\ x.phase = "Reading" /\ x.verdict = y.verdict /\ x.row = y.row
          /\ x.charged = y.charged /\ x.was = was
      BY <2>2, <2>5 DEF Transaction
    <2>8. DOMAIN was = DOMAIN y.was \cup {a} /\ a \in y.charged
      BY <2>2, <2>3 DEF Insert, Write, Unread
    <2>9. Drafted(x)
      BY <1>3, <2>7, <2>8 DEF Drafted
    <2> QED BY <1>1, <2>6, <2>9, DraftOne
  <1>7. CASE Number(w)
    <2>1. y.phase = "Reading" /\ y.verdict = "Submitted" /\ Unread(y) = {} /\ ~Insufficient(y)
      BY <1>3, <1>7 DEF Number
    <2>2. PICK n : n = NextRequestNumber(y.row.request_year)
      OBVIOUS
    <2>3. PICK row : row = [y.row EXCEPT !.number = n]
      OBVIOUS
    <2>4. PICK x : x = [y EXCEPT !.phase = "Numbered", !.row = row]
      OBVIOUS
    <2>5. session' = [session EXCEPT ![w] = x]
      <3>1. session' = [session EXCEPT ![w].phase = "Numbered", ![w].row.number = n]
        BY <1>3, <1>7, <2>2 DEF Number
      <3> QED BY <1>3, <2>3, <2>4, <3>1 DEF DraftInv, SessionInv, Transaction
    <2>6. /\ x.phase = "Numbered" /\ x.verdict = "Submitted" /\ x.row = row
          /\ x.charged = y.charged /\ x.was = y.was
      BY <2>1, <2>4 DEF Transaction
    <2>7. Asked(row) /\ row.working_days = y.row.working_days
      BY <1>3, <2>1, <2>3 DEF Drafted, Asked, Transaction, LeaveRequestRow
    <2>8. y.charged \subseteq DOMAIN y.was
          /\ \A a \in y.charged : CanReserve(y.was[a], y.row.working_days)
      BY <2>1 DEF Unread, Insufficient
    <2>9. Drafted(x)
      BY <1>3, <2>6, <2>7, <2>8 DEF Drafted, Decision
    <2> QED BY <1>1, <2>5, <2>9, DraftOne
  <1> QED BY <1>4, <1>5, <1>6, <1>7

\* Every step.
LEMMA DraftStep == DraftInv /\ [SessionNext]_sessionVars => DraftInv'
  <1> SUFFICES ASSUME DraftInv, [SessionNext]_sessionVars PROVE DraftInv'
    OBVIOUS
  <1>1. SessionInv'
    BY SessionStep DEF DraftInv
  <1>2. ASSUME NEW w \in Worker, OpenAny(w) PROVE DraftInv'
    BY <1>2, DraftOpen
  <1>3. ASSUME NEW w \in Worker, (\E l : Acquire(w, l)) \/ ReadType(w) \/ ReadBalance(w) \/ Number(w)
        PROVE  DraftInv'
    BY <1>3, DraftQuery
  <1>4. ASSUME NEW w \in Worker, Commit(w) \/ Fail(w) \/ Crash(w) PROVE DraftInv'
    BY <1>1, <1>4, DraftOne DEF Commit, Fail, FailOn, Crash, RollBack
  <1>5. CASE session' = session
    BY <1>1, <1>5 DEF DraftInv
  <1> QED BY <1>2, <1>3, <1>4, <1>5 DEF SessionNext, Advance, Maintain, sessionVars

\* The balances are what the handler computes in one step.
LEMMA CurrentBalances ==
    ASSUME HoldInv, NEW w \in Worker, NEW x \in Transaction, x = session[w], Grounded(x),
           Drafted(x), Current(x), Complete(x), Wanted(w) = {}
    PROVE  /\ Charged(x.row) = DOMAIN x.was
           /\ Write(leave_balances, [a \in Dirty(x) |-> Merged(x, a)])
                = Write(leave_balances, [a \in Charged(x.row) |-> Moved(x, BalanceOf(a))])
  <1>1. Charged(x.row) = DOMAIN x.was
    BY DEF Complete, Current, Drafted, Unread
  <1>2. DOMAIN x.was \subseteq Account /\ x.was \in [DOMAIN x.was -> BalanceRow]
    <2>1. x.was \in Balances
      BY DEF Transaction
    <2> QED BY <2>1, BalancesMembers
  <1>3. \A a \in DOMAIN x.was : x.was[a] = BalanceOf(a)
    BY DEF Current
  <1>4. \A a \in DOMAIN x.was : a \in x.fresh <=> a \notin DOMAIN leave_balances
    <2>1. HoldClaim(x)
      BY Phases DEF HoldInv
    <2>2. \A a \in Dirty(x) : <<"balance", a>> \in x.held
      <3> HIDE DEF Dirty
      <3>1. CASE x.phase = "Numbered"
        BY <2>1, <3>1 DEF HoldClaim
      <3>2. CASE x.phase # "Numbered"
        BY <3>2 DEF Complete, Wanted, Flush
      <3> QED BY <3>1, <3>2
    <2>3. x.fresh \subseteq Dirty(x)
      BY DEF Dirty, Grounded
    <2>4. \A a \in x.fresh : a \notin DOMAIN leave_balances
      <3> HIDE DEF Dirty
      <3> QED BY <2>1, <2>2, <2>3 DEF HoldClaim
    <2> QED BY <2>4 DEF Grounded
  <1>5. ASSUME NEW a \in DOMAIN x.was, a \notin Dirty(x)
        PROVE  a \in DOMAIN leave_balances /\ Moved(x, BalanceOf(a)) = leave_balances[a]
    BY <1>3, <1>4, <1>5 DEF Dirty, BalanceOf
  <1>6. ASSUME NEW a \in Dirty(x) PROVE Merged(x, a) = Moved(x, BalanceOf(a))
    <2>1. a \in DOMAIN x.was
      BY DEF Dirty
    <2>2. CASE a \in x.fresh
      BY <1>3, <2>1, <2>2 DEF Merged
    <2>3. CASE a \notin x.fresh
      <3>1. PICK b \in BalanceRow : b = x.was[a] /\ b = leave_balances[a] /\ b = BalanceOf(a)
        <4>1. x.was[a] \in BalanceRow
          BY <1>2, <2>1
        <4>2. x.was[a] = BalanceOf(a) /\ BalanceOf(a) = leave_balances[a]
          BY <1>3, <1>4, <2>1, <2>3 DEF BalanceOf
        <4> QED BY <4>1, <4>2
      <3>2. x.row \in LeaveRequestRow
        BY DEF Transaction
      <3>3. PICK now \in BalanceRow : now = Moved(x, b) /\ now.entitled = b.entitled
        BY <3>2, MovedType
      <3>4. Merged(x, a) = [b EXCEPT !.used = IF now.used # b.used THEN now.used ELSE @,
                                     !.pending = IF now.pending # b.pending THEN now.pending ELSE @]
        BY <2>3, <3>1, <3>3 DEF Merged
      <3>5. Merged(x, a) = [b EXCEPT !.used = now.used, !.pending = now.pending]
        BY <3>4
      <3>6. [b EXCEPT !.used = now.used, !.pending = now.pending] = now
        BY <3>3 DEF BalanceRow
      <3> QED BY <3>1, <3>3, <3>5, <3>6
    <2> QED BY <2>2, <2>3
  <1>7. Dirty(x) \subseteq DOMAIN x.was
    BY DEF Dirty
  <1>8. PICK D : D = Dirty(x)
    OBVIOUS
  <1>9. PICK rows : rows = [a \in D |-> Merged(x, a)]
    OBVIOUS
  <1>10. PICK all : all = [a \in Charged(x.row) |-> Moved(x, BalanceOf(a))]
    OBVIOUS
  <1>11. /\ DOMAIN rows = D /\ DOMAIN all = DOMAIN x.was /\ D \subseteq DOMAIN x.was
         /\ \A a \in D : rows[a] = all[a]
         /\ \A a \in DOMAIN x.was \ D : a \in DOMAIN leave_balances /\ all[a] = leave_balances[a]
    BY <1>1, <1>5, <1>6, <1>7, <1>8, <1>9, <1>10
  <1>12. Write(leave_balances, rows) = Write(leave_balances, all)
    BY ONLY <1>11 DEF Write
  <1> QED BY <1>1, <1>8, <1>9, <1>10, <1>12

\* A commit that finds what its handler has read is the handler of LeaveWorkflow.
LEMMA CurrentCommit ==
    ASSUME HoldInv, DraftInv, NEW w \in Worker, Commit(w), Current(session[w])
    PROVE  Next
  <1>1. TypeOK /\ SessionInv /\ KeyInv
    BY DEF HoldInv, KeyInv, SessionInv, TypeInv
  <1>0. PICK x \in Transaction : Writes(w, x)
    BY <1>1, CommitWrites
  <1>2. /\ x = session[w] /\ Grounded(x) /\ Complete(x) /\ Wanted(w) = {}
        /\ session' = [session EXCEPT ![w] = Idle]
        /\ leave_types' = leave_types
        /\ leave_balances' = Write(leave_balances, [a \in Dirty(x) |-> Merged(x, a)])
        /\ Submitted' = Submitted \cup {x.submission}
        /\ \A s \in Submitted \ {x.submission} :
              leave_requests'[s] = leave_requests[s] /\ audit_log'[s] = audit_log[s]
        /\ \/ /\ x.verdict = "Submitted" /\ x.phase = "Numbered"
              /\ leave_requests' = Insert(leave_requests, x.submission, x.row)
              /\ approval_steps' = Insert(approval_steps, x.submission,
                                          [k \in Stage |-> "Pending"])
              /\ audit_log' = Insert(audit_log, x.submission, <<"Submitted">>)
           \/ /\ x.verdict \in {"Approved", "Rejected", "Cancelled"}
              /\ x.phase = "Reading" /\ Unread(x) = {} /\ x.submission \in Submitted
              /\ leave_requests' = [leave_requests EXCEPT ![x.submission].status = x.verdict]
              /\ approval_steps' = IF x.verdict \in Decision
                      THEN [approval_steps EXCEPT ![x.submission][x.step] = x.verdict]
                      ELSE approval_steps
              /\ audit_log' = [audit_log EXCEPT ![x.submission] = Append(@, AuditEntry(x))]
    BY <1>0 DEF Writes
  <1>3. Drafted(x) /\ Current(x)
    BY <1>2, Phases DEF DraftInv
  <1>4. /\ leave_balances'
             = Write(leave_balances, [a \in Charged(x.row) |-> Moved(x, BalanceOf(a))])
        /\ Charged(x.row) = DOMAIN x.was
    BY <1>2, <1>3, CurrentBalances
  <1>5. PICK s, r : s = x.submission /\ r = x.row
    OBVIOUS
  <1>6. s \in SubmissionId /\ x.step \in Stage /\ r \in LeaveRequestRow
    BY <1>5 DEF Transaction
  <1>7. CASE x.verdict = "Submitted"
    <2>1. leave_balances' = Write(leave_balances, Reserved(r))
      <3>1. \A b : Moved(x, b) = Reserve(b, r.working_days)
        BY <1>5, <1>7 DEF Moved
      <3>2. [a \in Charged(r) |-> Moved(x, BalanceOf(a))] = Reserved(r)
        BY <3>1 DEF Reserved
      <3> QED BY <1>4, <1>5, <3>2
    <2>2. \A a \in Charged(r) : CanReserve(BalanceOf(a), r.working_days)
      BY <1>2, <1>3, <1>4, <1>5, <1>7 DEF Drafted, Current
    <2>3. Validated(s, r) /\ Asked(r)
      BY <1>3, <1>5, <1>7 DEF Drafted, Current
    <2>4. Submit(s, r)
      BY <1>2, <1>5, <1>7, <2>1, <2>2, <2>3 DEF Submit
    <2>5. r.number = NextRequestNumber(r.request_year)
      BY <1>1, <1>2, <1>5, <1>7, SubmissionClaims
    <2>6. r = NewRequest(r.applicant, r.leave_type, r.substitute, r.start_date, r.end_date,
                         r.working_days)
      BY <1>6, <2>3, <2>5 DEF NewRequest, Asked, LeaveRequestRow
    <2>7. SubmitAny
      <3>1. /\ r.applicant \in Employee /\ r.leave_type \in LeaveType
            /\ r.substitute \in Employee \cup {NoOne} /\ r.start_date \in Day /\ r.end_date \in Day
            /\ r.working_days \in 1..(r.end_date - r.start_date + 1)
        BY <1>6, <2>3 DEF Asked, LeaveRequestRow
      <3>2. PICK e \in Employee, t \in LeaveType, sub \in Employee \cup {NoOne}, from \in Day,
                 until \in Day :
                    /\ e = r.applicant /\ t = r.leave_type /\ sub = r.substitute
                    /\ from = r.start_date /\ until = r.end_date
        BY <3>1
      <3>3. PICK n \in 1..(until - from + 1) : n = r.working_days
        BY <3>1, <3>2
      <3>4. Submit(s, NewRequest(e, t, sub, from, until, n))
        BY <2>4, <2>6, <3>2, <3>3
      <3> QED BY <1>6, <3>4 DEF SubmitAny
    <2> QED BY <2>7 DEF Next
  <1>8. CASE x.verdict \in Decision
    <2>1. /\ s \in Submitted /\ r = leave_requests[s]
          /\ leave_requests' = [leave_requests EXCEPT ![s].status = x.verdict]
          /\ approval_steps' = [approval_steps EXCEPT ![s][x.step] = x.verdict]
          /\ audit_log' = [audit_log EXCEPT ![s] = Append(@, DecisionAction(x.verdict))]
      BY <1>2, <1>3, <1>5, <1>8 DEF Current, AuditEntry, Decision
    <2>2. PICK actor \in Employee : MayDecide(r, actor)
      BY <1>3, <1>5, <1>8 DEF Drafted
    <2>3. leave_balances' = Write(leave_balances, IF x.verdict = "Approved"
                                                  THEN Committed(r) ELSE Released(r))
      <3>1. \A b : Moved(x, b) = IF x.verdict = "Approved" THEN CommitPendingToUsed(b, r.working_days)
                                ELSE ReleasePending(b, r.working_days)
        BY <1>5, <1>8 DEF Moved, Decision
      <3>2. [a \in Charged(r) |-> Moved(x, BalanceOf(a))]
              = IF x.verdict = "Approved" THEN Committed(r) ELSE Released(r)
        BY <3>1 DEF Committed, Released
      <3> QED BY <1>4, <1>5, <3>2
    <2>4. Decide(s, actor, x.verdict, x.step)
      BY <1>2, <2>1, <2>2, <2>3 DEF Decide
    <2>5. DecideAny
      BY <1>6, <1>8, <2>1, <2>4 DEF DecideAny
    <2> QED BY <2>5 DEF Next
  <1>9. CASE x.verdict = "Cancelled"
    <2>1. /\ s \in Submitted /\ r = leave_requests[s] /\ approval_steps' = approval_steps
          /\ leave_requests' = [leave_requests EXCEPT ![s].status = "Cancelled"]
          /\ audit_log' = [audit_log EXCEPT ![s] = Append(@, "Cancelled")]
      BY <1>2, <1>3, <1>5, <1>9 DEF Current, AuditEntry, Decision
    <2>2. PICK actor \in Employee : MayCancel(r, actor)
      BY <1>3, <1>5, <1>9 DEF Drafted
    <2>3. leave_balances' = Write(leave_balances, Released(r))
      <3>1. \A b : Moved(x, b) = ReleasePending(b, r.working_days)
        BY <1>5, <1>9 DEF Moved
      <3>2. [a \in Charged(r) |-> Moved(x, BalanceOf(a))] = Released(r)
        BY <3>1 DEF Released
      <3> QED BY <1>4, <1>5, <3>2
    <2>4. Cancel(s, actor)
      BY <1>2, <2>1, <2>2, <2>3 DEF Cancel
    <2>5. CancelAny
      BY <2>1, <2>4 DEF CancelAny
    <2> QED BY <2>5 DEF Next
  <1>10. x.verdict \in {"Submitted", "Cancelled"} \cup Decision
    BY DEF Transaction, Verdict
  <1> QED BY <1>7, <1>8, <1>9, <1>10

IsolatedInv == HoldInv /\ DraftInv

\* What every session's step keeps.
LEMMA HoldStep == HoldInv /\ [SessionNext]_sessionVars => HoldInv'
  <1> SUFFICES ASSUME HoldInv, [SessionNext]_sessionVars PROVE HoldInv'
    OBVIOUS
  <1>1. ASSUME NEW w \in Worker, Advance(w) PROVE HoldInv'
    BY <1>1, HoldQuery, HoldCommit, HoldOpen DEF Advance, Fail, FailOn
  <1>2. ASSUME NEW w \in Worker, OpenAny(w) \/ Crash(w) \/ Maintain(w) PROVE HoldInv'
    BY <1>2, HoldOpen, HoldMaintain DEF Crash
  <1>3. CASE UNCHANGED sessionVars
    <2>1. KeyInv' /\ UNCHANGED vars /\ session' = session
      BY <1>3, KeyStep DEF HoldInv, sessionVars
    <2>2. ASSUME NEW w \in Worker PROVE HoldInv'
      <3>1. PICK x : x = session[w]
        OBVIOUS
      <3>2. session' = [session EXCEPT ![w] = x] /\ (x # Idle => HoldClaim(x))
        BY <2>1, <3>1 DEF HoldInv, KeyInv, SessionInv
      <3> QED BY <2>1, <3>2, HoldTablesAlone
    <2> QED BY <2>1, <2>2 DEF HoldInv
  <1> QED BY <1>1, <1>2, <1>3 DEF SessionNext

\* At the start no session is open.
LEMMA IsolatedStarts == SessionInit => IsolatedInv
  BY KeyStarts, SessionStarts DEF SessionInit, IsolatedInv, HoldInv, DraftInv

\* A step in which commits find what was read is a step of LeaveWorkflow or
\* changes no table.
LEMMA IsolatedStep ==
    IsolatedInv /\ [IsolatedNext]_sessionVars => IsolatedInv' /\ [Next]_vars
  <1> SUFFICES ASSUME IsolatedInv, [IsolatedNext]_sessionVars PROVE IsolatedInv' /\ [Next]_vars
    OBVIOUS
  <1>1. [SessionNext]_sessionVars /\ \A w \in Worker : Commit(w) => Current(session[w]) \/ UNCHANGED vars
    BY DEF IsolatedNext, sessionVars
  <1>2. IsolatedInv'
    BY <1>1, HoldStep, DraftStep DEF IsolatedInv
  <1>3. ASSUME NEW w \in Worker, Advance(w) PROVE [Next]_vars
    <2>1. CASE Commit(w)
      BY <1>1, <2>1, CurrentCommit DEF IsolatedInv
    <2>2. CASE ~Commit(w)
      BY <1>3, <2>2 DEF Advance, Acquire, ReadType, ReadBalance, Number, Fail, FailOn, RollBack
    <2> QED BY <2>1, <2>2
  <1>4. ASSUME NEW w \in Worker, OpenAny(w) \/ Crash(w) PROVE UNCHANGED vars
    BY <1>4 DEF OpenAny, OpenSubmit, OpenDecide, OpenCancel, Crash, RollBack
  <1>5. ASSUME NEW w \in Worker, Maintain(w) PROVE Next
    BY <1>5 DEF Maintain, Next
  <1>6. UNCHANGED sessionVars => UNCHANGED vars
    BY DEF sessionVars
  <1> QED BY <1>1, <1>2, <1>3, <1>4, <1>5, <1>6 DEF SessionNext

\* However many sessions interleave, as long as no commit overtakes what another
\* has read, the handlers are the atomic transactions of LeaveWorkflow.
THEOREM IsolatedTheorem == IsolatedSpec => ImplementsWorkflow
  <1>1. SessionInit => Init
    BY DEF SessionInit
  <1> QED BY <1>1, IsolatedStarts, IsolatedStep, PTL DEF IsolatedSpec, ImplementsWorkflow, Spec

\* In any interleaving at all, after any race: the handler that commits while its
\* checks still pass does one transaction of LeaveWorkflow.
THEOREM CurrentIsAtomicTheorem == SessionSpec => CurrentIsAtomic
  <1>1. IsolatedInv /\ [SessionNext]_sessionVars => IsolatedInv'
    BY HoldStep, DraftStep DEF IsolatedInv
  <1>2. ASSUME IsolatedInv, SessionNext, NEW w \in Worker,
               session[w] # Idle, session'[w] = Idle, Current(session[w])
        PROVE  [Next]_vars
    <2>1. CASE Commit(w)
      BY <1>2, <2>1, CurrentCommit DEF IsolatedInv
    <2>2. ASSUME NEW v \in Worker, v # w, Commit(v)
          PROVE  FALSE
      <3>1. session' = [session EXCEPT ![v] = Idle]
        BY <2>2 DEF Commit
      <3> QED BY <1>2, <2>2, <3>1 DEF IsolatedInv, HoldInv, KeyInv, SessionInv
    <2>3. ASSUME NEW v \in Worker, ~Commit(v), OpenAny(v) \/ Advance(v) \/ Crash(v)
          PROVE  UNCHANGED vars
      BY <2>3 DEF OpenAny, OpenSubmit, OpenDecide, OpenCancel, Crash, RollBack,
                  Advance, Acquire, ReadType, ReadBalance, Number, Fail, FailOn
    <2>4. ASSUME NEW v \in Worker, Maintain(v) PROVE Next
      BY <2>4 DEF Maintain, Next
    <2> QED BY <1>2, <2>1, <2>2, <2>3, <2>4 DEF SessionNext
  <1>3. IsolatedInv /\ [SessionNext]_sessionVars =>
            [\A w \in Worker :
                /\ session[w] # Idle /\ session'[w] = Idle
                /\ Current(session[w])
                => [Next]_vars]_sessionVars
    BY <1>2
  <1> QED BY <1>1, <1>3, IsolatedStarts, PTL DEF SessionSpec, CurrentIsAtomic

-----------------------------------------------------------------------------
(***************************************************************************)
(* Sessions about different people.                                        *)
(***************************************************************************)

\* What an open session relies on.  That no rival has filed the same submission
\* id it learns from the unique key, at the end.
Steady(x) ==
    /\ x.verdict = "Submitted" => \A s : s \notin Submitted => Validated(s, x.row)
    /\ x.verdict # "Submitted" => leave_requests[x.submission] = x.row
    /\ x.phase # "Open" => x.charged = Charged(x.row)
    /\ \A a \in DOMAIN x.was : x.was[a] = BalanceOf(a)

ApartInv ==
    /\ IsolatedInv
    /\ Apart
    /\ \A w \in Worker : session[w] # Idle => Steady(session[w])

\* What a session relies on is read off the tables.
LEMMA SteadySees ==
    ASSUME UNCHANGED vars, NEW x, Steady(x)
    PROVE  Steady(x)'
  <1>1. UNCHANGED <<leave_types, leave_requests, leave_balances>> /\ Submitted' = Submitted
    BY DEF vars, Submitted
  <1>2. (\A a : BalanceOf(a)' = BalanceOf(a)) /\ Charged(x.row)' = Charged(x.row)
    BY <1>1 DEF BalanceOf, Charged, Primary, Secondary
  <1>3. \A e, from, until : IsAway(e, from, until)' = IsAway(e, from, until)
    BY <1>1 DEF IsAway
  <1>4. \A s : Validated(s, x.row)' = Validated(s, x.row)
    BY <1>1, <1>3 DEF Validated, MayCover
  <1> QED BY ONLY Steady(x), <1>1, <1>2, <1>4 DEF Steady

\* A step of one session, apart from the others, that leaves the tables alone.
LEMMA ApartOne ==
    ASSUME ApartInv, IsolatedInv', Apart', UNCHANGED vars, NEW w \in Worker, NEW x,
           x # Idle => Steady(x), session' = [session EXCEPT ![w] = x]
    PROVE  ApartInv'
  <1>1. ASSUME NEW v \in Worker, session'[v] # Idle PROVE Steady(session[v])'
    <2>1. PICK y : y = session'[v] /\ Steady(y)
      BY <1>1 DEF ApartInv, IsolatedInv, DraftInv, SessionInv
    <2>2. Steady(y)'
      BY <2>1, SteadySees
    <2> QED BY ONLY <2>1, <2>2 DEF Steady
  <1> QED BY <1>1 DEF ApartInv

\* The handlers' first checks.
LEMMA ApartOpen ==
    ASSUME ApartInv, IsolatedInv', Apart', NEW w \in Worker, OpenAny(w)
    PROVE  ApartInv'
  <1>1. UNCHANGED vars
    BY DEF OpenAny, OpenSubmit, OpenDecide, OpenCancel
  <1>2. ASSUME NEW x, Steady(x), session' = [session EXCEPT ![w] = x] PROVE ApartInv'
    BY <1>1, <1>2, ApartOne
  <1>3. ASSUME NEW s, NEW r, OpenSubmit(w, s, r) PROVE ApartInv'
    <2>1. PICK charged : charged = Charged(r)
      OBVIOUS
    <2>2. PICK x : x = Open("Reading", "Submitted", s, 1, r, charged)
      OBVIOUS
    <2>3. /\ x.phase = "Reading" /\ x.verdict = "Submitted" /\ x.row = r
          /\ x.charged = charged /\ DOMAIN x.was = {}
      BY <2>2 DEF Open
    <2>4. Validated(s, r) /\ session' = [session EXCEPT ![w] = x]
      BY <1>3, <2>1, <2>2 DEF OpenSubmit
    <2>5. \A k : k \notin Submitted => Validated(k, r)
      BY <2>4 DEF Validated
    <2>6. Steady(x)
      BY <2>1, <2>3, <2>5 DEF Steady
    <2> QED BY <1>2, <2>4, <2>6
  <1>4. ASSUME NEW s, NEW actor, NEW decision \in Decision, NEW k, OpenDecide(w, s, actor, decision, k)
        PROVE ApartInv'
    <2>1. PICK r : r = leave_requests[s]
      OBVIOUS
    <2>2. PICK x : x = Open("Open", decision, s, k, r, {})
      OBVIOUS
    <2>3. /\ x.phase = "Open" /\ x.verdict = decision /\ x.submission = s /\ x.row = r
          /\ DOMAIN x.was = {}
      BY <2>2 DEF Open
    <2>4. session' = [session EXCEPT ![w] = x]
      BY <1>4, <2>1, <2>2 DEF OpenDecide
    <2>5. Steady(x)
      BY <2>1, <2>3 DEF Steady, Decision
    <2> QED BY <1>2, <2>4, <2>5
  <1>5. ASSUME NEW s, NEW actor, OpenCancel(w, s, actor) PROVE ApartInv'
    <2>1. PICK r : r = leave_requests[s]
      OBVIOUS
    <2>2. PICK charged : charged = Charged(r)
      OBVIOUS
    <2>3. PICK x : x = Open("Reading", "Cancelled", s, 1, r, charged)
      OBVIOUS
    <2>4. /\ x.phase = "Reading" /\ x.verdict = "Cancelled" /\ x.submission = s /\ x.row = r
          /\ x.charged = charged /\ DOMAIN x.was = {}
      BY <2>3 DEF Open
    <2>5. session' = [session EXCEPT ![w] = x]
      BY <1>5, <2>1, <2>2, <2>3 DEF OpenCancel
    <2>6. Steady(x)
      BY <2>1, <2>2, <2>4 DEF Steady
    <2> QED BY <1>2, <2>5, <2>6
  <1> QED BY <1>3, <1>4, <1>5 DEF OpenAny

\* A flush or a query.
LEMMA ApartQuery ==
    ASSUME ApartInv, IsolatedInv', Apart', NEW w \in Worker,
           (\E l : Acquire(w, l)) \/ ReadType(w) \/ ReadBalance(w) \/ Number(w)
    PROVE  ApartInv'
  <1>1. UNCHANGED vars
    BY DEF Acquire, ReadType, ReadBalance, Number
  <1>2. session[w].phase # "Idle"
    BY DEF Acquire, Wanted, Flush, ReadType, ReadBalance, Number
  <1>3. SessionInv
    BY DEF ApartInv, IsolatedInv, DraftInv
  <1>4. PICK y \in Transaction : y = session[w] /\ Grounded(y) /\ Steady(y)
    BY <1>2, <1>3, OpenSession DEF ApartInv
  <1>5. ASSUME NEW l, Acquire(w, l) PROVE ApartInv'
    <2>1. PICK x : x = [y EXCEPT !.held = @ \cup {l}]
      OBVIOUS
    <2>2. session' = [session EXCEPT ![w] = x]
      BY <1>4, <1>5, <2>1 DEF Acquire
    <2>3. /\ x.phase = y.phase /\ x.verdict = y.verdict /\ x.submission = y.submission
          /\ x.row = y.row /\ x.charged = y.charged /\ x.was = y.was
      BY <2>1 DEF Transaction
    <2>4. Steady(x)
      BY <1>4, <2>3 DEF Steady
    <2> QED BY <1>1, <2>2, <2>4, ApartOne
  <1>6. CASE ReadType(w)
    <2>1. PICK charged : charged = Charged(y.row)
      OBVIOUS
    <2>2. PICK x : x = [y EXCEPT !.phase = "Reading", !.charged = charged]
      OBVIOUS
    <2>3. session' = [session EXCEPT ![w] = x]
      BY <1>4, <1>6, <2>1, <2>2 DEF ReadType
    <2>4. /\ x.phase = "Reading" /\ x.verdict = y.verdict /\ x.submission = y.submission
          /\ x.row = y.row /\ x.charged = charged /\ x.was = y.was
      BY <2>2 DEF Transaction
    <2>5. Steady(x)
      BY <1>4, <2>1, <2>4 DEF Steady
    <2> QED BY <1>1, <2>3, <2>5, ApartOne
  <1>7. CASE ReadBalance(w)
    <2>1. PICK a : a = IF Primary(y.row) \in Unread(y) THEN Primary(y.row) ELSE Secondary(y.row)
      OBVIOUS
    <2>2. y.phase = "Reading"
      BY <1>4, <1>7 DEF ReadBalance
    <2>3. PICK was : was = Insert(y.was, a, BalanceOf(a))
      OBVIOUS
    <2>4. PICK fresh : fresh = IF a \in DOMAIN leave_balances THEN y.fresh ELSE y.fresh \cup {a}
      OBVIOUS
    <2>5. PICK x : x = [y EXCEPT !.was = was, !.fresh = fresh]
      OBVIOUS
    <2>6. session' = [session EXCEPT ![w] = x]
      BY <1>3, <1>4, <1>7, <2>1, <2>3, <2>4, <2>5 DEF ReadBalance, SessionInv
    <2>7. /\ x.phase = "Reading" /\ x.verdict = y.verdict /\ x.submission = y.submission
          /\ x.row = y.row /\ x.charged = y.charged /\ x.was = was
      BY <2>2, <2>5 DEF Transaction
    <2>8. /\ DOMAIN was = DOMAIN y.was \cup {a} /\ was[a] = BalanceOf(a)
          /\ \A b \in DOMAIN y.was : b # a => was[b] = y.was[b]
      BY <2>3 DEF Insert, Write
    <2>9. Steady(x)
      BY <1>4, <2>2, <2>7, <2>8 DEF Steady
    <2> QED BY <1>1, <2>6, <2>9, ApartOne
  <1>8. CASE Number(w)
    <2>1. y.phase = "Reading" /\ y.verdict = "Submitted"
      BY <1>4, <1>8 DEF Number
    <2>2. PICK n : n = NextRequestNumber(y.row.request_year)
      OBVIOUS
    <2>3. PICK row : row = [y.row EXCEPT !.number = n]
      OBVIOUS
    <2>4. PICK x : x = [y EXCEPT !.phase = "Numbered", !.row = row]
      OBVIOUS
    <2>5. session' = [session EXCEPT ![w] = x]
      <3>1. session' = [session EXCEPT ![w].phase = "Numbered", ![w].row.number = n]
        BY <1>4, <1>8, <2>2 DEF Number
      <3> QED BY <1>3, <1>4, <2>3, <2>4, <3>1 DEF SessionInv, Transaction
    <2>6. /\ x.phase = "Numbered" /\ x.verdict = "Submitted" /\ x.row = row
          /\ x.charged = y.charged /\ x.was = y.was
      BY <2>1, <2>4 DEF Transaction
    <2>7. /\ row.applicant = y.row.applicant /\ row.leave_type = y.row.leave_type
          /\ row.start_date = y.row.start_date /\ row.end_date = y.row.end_date
          /\ row.working_days = y.row.working_days /\ row.substitute = y.row.substitute
          /\ row.request_year = y.row.request_year
      BY <2>3 DEF Transaction, LeaveRequestRow
    <2>8. Charged(row) = Charged(y.row) /\ \A s : Validated(s, row) = Validated(s, y.row)
      BY <2>7 DEF Charged, Primary, Secondary, Validated
    <2>9. Steady(x)
      BY <1>4, <2>1, <2>6, <2>8 DEF Steady
    <2> QED BY <1>1, <2>5, <2>9, ApartOne
  <1> QED BY <1>5, <1>6, <1>7, <1>8

\* At its commit what a session relies on is all it has read.
LEMMA SteadyIsCurrent ==
    ASSUME ApartInv, NEW w \in Worker, Commit(w)
    PROVE  Current(session[w])
  <1>1. KeyInv /\ SessionInv
    BY DEF ApartInv, IsolatedInv, HoldInv, KeyInv
  <1>2. PICK x \in Transaction :
            x = session[w] /\ Steady(x) /\ Complete(x) /\ Wanted(w) = {} /\ Grounded(x)
    BY <1>1, Phases DEF Commit, SessionInv, ApartInv
  <1>3. CASE x.verdict = "Submitted"
    <2>1. x.phase = "Numbered"
      BY <1>2, <1>3 DEF Complete
    <2>2. x.submission \notin Submitted
      BY <1>1, <1>2, <1>3, <2>1, SubmissionClaims
    <2> QED BY <1>2, <1>3, <2>1, <2>2 DEF Steady, Current
  <1>4. CASE x.verdict # "Submitted"
    BY <1>2, <1>4 DEF Steady, Current, Complete
  <1> QED BY <1>2, <1>3, <1>4

\* A commit about one person leaves the others what they rely on.
LEMMA ApartOthers ==
    ASSUME ApartInv, NEW w \in Worker, NEW v \in Worker \ {w}, Commit(w), session[v] # Idle
    PROVE  Steady(session[v])'
  <1>1. SessionInv /\ TypeOK
    BY DEF ApartInv, IsolatedInv, DraftInv, SessionInv, TypeInv
  <1>0. PICK x \in Transaction : Writes(w, x)
    BY <1>1, CommitWrites
  <1>2. /\ x = session[w] /\ Grounded(x) /\ Complete(x) /\ Wanted(w) = {}
        /\ session' = [session EXCEPT ![w] = Idle]
        /\ leave_types' = leave_types
        /\ leave_balances' = Write(leave_balances, [a \in Dirty(x) |-> Merged(x, a)])
        /\ Submitted' = Submitted \cup {x.submission}
        /\ \A s \in Submitted \ {x.submission} : leave_requests'[s] = leave_requests[s]
        /\ \/ /\ x.verdict = "Submitted" /\ x.phase = "Numbered"
              /\ leave_requests' = Insert(leave_requests, x.submission, x.row)
           \/ /\ x.verdict \in {"Approved", "Rejected", "Cancelled"}
              /\ x.submission \in Submitted
              /\ leave_requests' = [leave_requests EXCEPT ![x.submission].status = x.verdict]
    BY <1>0 DEF Writes
  <1>3. PICK y \in Transaction : y = session[v] /\ Grounded(y) /\ Steady(y) /\ session'[v] = y
    BY <1>1, <1>2, Phases DEF SessionInv, ApartInv
  <1>4. /\ x.row.applicant # y.row.applicant /\ x.row.applicant # y.row.substitute
        /\ y.row.applicant # x.row.applicant
    BY <1>2, <1>3, Phases DEF ApartInv, Apart
  <1>5. Steady(x) /\ x.row \in LeaveRequestRow /\ y.row \in LeaveRequestRow
    BY <1>2, Phases DEF ApartInv, Transaction
  \* The request it writes is its applicant's.
  <1>6. /\ x.submission \in Submitted => leave_requests[x.submission].applicant = x.row.applicant
        /\ leave_requests'[x.submission].applicant = x.row.applicant
    <2>1. CASE x.verdict = "Submitted"
      <3>1. x.submission \notin Submitted
        BY <1>2, <2>1, SubmissionClaims DEF ApartInv, IsolatedInv, HoldInv
      <3>2. leave_requests'[x.submission] = x.row
        BY <1>2, <2>1 DEF Insert, Write
      <3> QED BY <3>1, <3>2
    <2>2. CASE x.verdict # "Submitted"
      <3>1. leave_requests[x.submission] = x.row /\ x.submission \in Submitted
        BY <1>2, <1>5, <2>2 DEF Steady
      <3>2. leave_requests' = [leave_requests EXCEPT ![x.submission].status = x.verdict]
        BY <1>2, <2>2
      <3> QED BY <1>1, <1>5, <3>1, <3>2 DEF TypeOK, LeaveRequestRow
    <2> QED BY <2>1, <2>2
  <1>7. \A e, from, until : e # x.row.applicant => (IsAway(e, from, until)' <=> IsAway(e, from, until))
    BY <1>2, <1>6 DEF IsAway
  <1>8. y.verdict # "Submitted" => leave_requests'[y.submission] = y.row
    <2> SUFFICES ASSUME y.verdict # "Submitted" PROVE leave_requests'[y.submission] = y.row
      OBVIOUS
    <2>1. leave_requests[y.submission] = y.row /\ y.submission \in Submitted
      BY <1>3 DEF Steady, Grounded
    <2>2. y.submission # x.submission
      BY <1>4, <1>6, <2>1
    <2> QED BY <1>2, <2>1, <2>2
  <1>9. y.verdict = "Submitted" => \A s : s \notin Submitted' => Validated(s, y.row)'
    <2> SUFFICES ASSUME y.verdict = "Submitted", NEW s, s \notin Submitted' PROVE Validated(s, y.row)'
      OBVIOUS
    <2>1. s \notin Submitted /\ Validated(s, y.row)
      BY <1>2, <1>3 DEF Steady
    <2> QED BY <1>2, <1>4, <1>7, <2>1 DEF Validated, MayCover
  <1>10. Charged(y.row)' = Charged(y.row)
    BY <1>2 DEF Charged, Primary, Secondary
  \* The balances it writes are its applicant's.
  <1>11. \A a : a[1] # x.row.applicant => BalanceOf(a)' = BalanceOf(a)
    <2>1. PICK D : D = Dirty(x)
      OBVIOUS
    <2>2. PICK rows : rows = [a \in D |-> Merged(x, a)]
      OBVIOUS
    <2>3. \A a \in D : a[1] = x.row.applicant
      <3>1. D \subseteq x.charged
        BY <1>2, <2>1, Phases DEF ApartInv, IsolatedInv, DraftInv, Drafted, Dirty
      <3> QED BY <1>2, <3>1 DEF Grounded, Primary, Secondary
    <2>4. leave_balances' = Write(leave_balances, rows) /\ DOMAIN rows = D
      BY <1>2, <2>1, <2>2
    <2>5. \A a : a \notin D => /\ a \in DOMAIN leave_balances' <=> a \in DOMAIN leave_balances
                               /\ a \in DOMAIN leave_balances => leave_balances'[a] = leave_balances[a]
      BY ONLY <2>4 DEF Write
    <2> QED BY <1>2, <2>3, <2>5 DEF BalanceOf
  <1>12. \A a \in DOMAIN y.was : y.was[a] = BalanceOf(a)'
    <2>1. \A a \in DOMAIN y.was : a[1] = y.row.applicant
      BY <1>3, Phases DEF ApartInv, IsolatedInv, DraftInv, Drafted, Grounded, Primary, Secondary
    <2> QED BY <1>3, <1>4, <1>11, <2>1 DEF Steady
  <1>13. Steady(y)'
    BY ONLY <1>3, <1>8, <1>9, <1>10, <1>12 DEF Steady
  <1> QED BY ONLY <1>3, <1>13 DEF Steady

\* A step of sessions that keep apart overtakes nobody.
LEMMA ApartStep ==
    ApartInv /\ [ApartNext]_sessionVars => ApartInv' /\ [IsolatedNext]_sessionVars
  <1> SUFFICES ASSUME ApartInv, [ApartNext]_sessionVars
               PROVE  ApartInv' /\ [IsolatedNext]_sessionVars
    OBVIOUS
  <1>1. [IsolatedNext]_sessionVars
    BY SteadyIsCurrent DEF ApartNext, IsolatedNext
  <1>2. IsolatedInv'
    BY <1>1, IsolatedStep DEF ApartInv
  <1>3. SessionInv
    BY DEF ApartInv, IsolatedInv, DraftInv
  <1> SUFFICES ApartInv'
    BY <1>1
  <1>4. CASE ApartNext
    <2>1. Apart'
      BY <1>4 DEF ApartNext
    <2>2. ASSUME NEW w \in Worker, OpenAny(w) PROVE ApartInv'
      BY <1>2, <2>1, <2>2, ApartOpen
    <2>3. ASSUME NEW w \in Worker,
                 (\E l : Acquire(w, l)) \/ ReadType(w) \/ ReadBalance(w) \/ Number(w)
          PROVE  ApartInv'
      BY <1>2, <2>1, <2>3, ApartQuery
    <2>4. ASSUME NEW w \in Worker, Fail(w) \/ Crash(w) PROVE ApartInv'
      BY <1>2, <2>1, <2>4, ApartOne DEF Fail, FailOn, Crash, RollBack
    <2>5. ASSUME NEW w \in Worker, Commit(w) PROVE ApartInv'
      <3>1. session' = [session EXCEPT ![w] = Idle]
        BY <2>5 DEF Commit
      <3>2. \A v \in Worker : session'[v] # Idle => v # w /\ session[v] # Idle
        BY <1>3, <3>1 DEF SessionInv
      <3> QED BY <1>2, <2>1, <2>5, <3>2, ApartOthers DEF ApartInv
    <2>6. ASSUME NEW w \in Worker, Maintain(w) PROVE ApartInv'
      <3>1. session' = session /\ \A v \in Worker : session[v] = Idle
        BY <1>4, <2>6 DEF ApartNext, Maintain
      <3> QED BY <1>2, <2>1, <3>1 DEF ApartInv
    <2> QED BY <1>4, <2>2, <2>3, <2>4, <2>5, <2>6 DEF ApartNext, SessionNext, Advance
  <1>5. CASE UNCHANGED sessionVars
    <2>1. session' = session /\ UNCHANGED vars
      BY <1>5 DEF sessionVars
    <2>2. Apart'
      BY <2>1 DEF Apart, ApartInv
    <2>3. ASSUME NEW w \in Worker PROVE ApartInv'
      <3>1. PICK x : x = session[w]
        OBVIOUS
      <3>2. session' = [session EXCEPT ![w] = x] /\ (x # Idle => Steady(x))
        BY <1>3, <2>1, <3>1 DEF ApartInv, SessionInv
      <3> QED BY <1>2, <2>1, <2>2, <3>2, ApartOne
    <2> QED BY <1>2, <2>2, <2>3 DEF ApartInv
  <1> QED BY <1>4, <1>5

\* At the start nobody has a session.
LEMMA ApartStarts == SessionInit => ApartInv
  BY IsolatedStarts DEF SessionInit, ApartInv, Apart

\* If the open requests concern different people, and nobody edits leave types
\* or loads the workbook meanwhile, no commit overtakes what another session has
\* read, so the handlers are atomic however many run at once.
THEOREM ApartTheorem == ApartSpec => IsolatedSpec /\ ImplementsWorkflow
  <1>1. ApartSpec => IsolatedSpec
    BY ApartStarts, ApartStep, PTL DEF ApartSpec, IsolatedSpec
  <1> QED BY <1>1, IsolatedTheorem

\* In particular with one session at a time, whatever it does.
THEOREM SerialTheorem ==
    ASSUME NEW w, Worker = {w}
    PROVE  SessionSpec => ImplementsWorkflow
  <1>1. SessionNext => ApartNext
    BY DEF SessionNext, ApartNext, Apart, Maintain
  <1>2. [SessionNext]_sessionVars => [ApartNext]_sessionVars
    BY <1>1
  <1>3. SessionSpec => ApartSpec
    BY <1>2, PTL DEF SessionSpec, ApartSpec
  <1> QED BY <1>3, ApartTheorem

-----------------------------------------------------------------------------
(***************************************************************************)
(* What a deployment keeps that handles one person's leave in turn.        *)
(***************************************************************************)

\* Steps that neither an administrator nor the workbook disturbs.
LEMMA UndisturbedStep == TypeInv /\ [Next]_vars /\ Undisturbed => [StableNext]_vars
  <1> SUFFICES ASSUME TypeInv, Next, Undisturbed PROVE StableNext
    BY DEF StableNext
  <1>1. ASSUME NEW t \in LeaveType, NEW row \in LeaveTypeRow, UpdateLeaveType(t, row)
        PROVE  row.deducts_from_annual = leave_types[t].deducts_from_annual
    BY <1>1 DEF Undisturbed, UpdateLeaveType, TypeInv, TypeOK
  <1> QED BY <1>1 DEF Next, StableNext, Undisturbed

\* A ledger that balances holds every reservation.
LEMMA LedgerHolds == TypeInv /\ LedgerBalanced => ReservationsHeld
  <1> SUFFICES ASSUME TypeInv, LedgerBalanced, NEW a \in DOMAIN leave_balances
               PROVE  TotalDays(Charging(a, "Pending")) <= leave_balances[a].pending
    BY DEF ReservationsHeld
  <1>1. AccountOK(a) /\ leave_balances[a].pending \in Nat
    BY DEF LedgerBalanced, TypeInv, TypeOK, BalanceRow
  <1> QED BY <1>1 DEF AccountOK, BalanceOf

\* Taking turns over each person's leave, and editing leave types while nobody
\* files or decides, is enough against what the runs and races break: sessions about
\* different people, any number at once, with their failures and crashes, book
\* nobody twice and take no decision back; and while neither flags nor workbook
\* change, no reservation is lost and no balance overdrawn.
THEOREM ApartPromisesTheorem ==
    /\ ApartSpec => []NoDoubleBooking /\ DecisionIsFinal
    /\ ApartSpec /\ [][Undisturbed]_vars => [](ReservationsHeld /\ NoOverdraft)
  <1>1. ApartSpec => Spec /\ []TypeInv
    BY ApartTheorem, TypeInvariant, PTL DEF ImplementsWorkflow
  <1>2. ApartSpec => []NoDoubleBooking /\ DecisionIsFinal
    BY <1>1, NoDoubleBookingTheorem, DecisionIsFinalTheorem, PTL
  <1>3. Spec /\ []TypeInv /\ [][Undisturbed]_vars => StableSpec
    <2>1. TypeInv /\ [Next]_vars /\ [Undisturbed]_vars => [StableNext]_vars
      BY UndisturbedStep
    <2> QED BY <2>1, PTL DEF Spec, StableSpec
  <1>4. ApartSpec /\ [][Undisturbed]_vars => [](ReservationsHeld /\ NoOverdraft)
    BY <1>1, <1>3, LedgerHolds, LedgerTheorem, NoOverdraftTheorem, PTL
  <1> QED BY <1>2, <1>4

-----------------------------------------------------------------------------
(***************************************************************************)
(* What EveryHandlerEnds rests on: a handler has only so much to do, and   *)
(* never do all handlers wait.                                             *)
(***************************************************************************)

Left(x) == Flush(x) \ x.held

\* A bound on the queries and statements x has still to run before it ends.
Work(x) ==
    Cardinality(Left(x)) + (IF x.phase = "Open" THEN 20
                            ELSE IF x.phase = "Reading" THEN 4 + 5 * Cardinality(Unread(x)) ELSE 0)

LightOrDone(x, y) == y = x \/ y = Idle \/ Work(y) < Work(x)

\* Sets of no more than two or three.
LEMMA FewElements ==
    ASSUME NEW a, NEW b, NEW c
    PROVE  /\ \A S \in SUBSET {a, b} : IsFiniteSet(S) /\ Cardinality(S) \in 0..2
           /\ \A S \in SUBSET {a, b, c} : IsFiniteSet(S) /\ Cardinality(S) \in 0..3
  <1>1. IsFiniteSet({a}) /\ Cardinality({a}) = 1
    BY FS_Singleton
  <1>2. IsFiniteSet({a} \cup {b}) /\ Cardinality({a} \cup {b}) \in 1..2
    BY <1>1, FS_AddElement
  <1>3. {a} \cup {b} = {a, b} /\ ({a} \cup {b}) \cup {c} = {a, b, c}
    OBVIOUS
  <1>4. IsFiniteSet({a, b, c}) /\ Cardinality({a, b, c}) \in 1..3
    BY <1>2, <1>3, FS_AddElement
  <1>5. IsFiniteSet({a, b}) /\ Cardinality({a, b}) \in 1..2
    BY <1>2, <1>3
  <1>6. ASSUME NEW S \in SUBSET {a, b} PROVE IsFiniteSet(S) /\ Cardinality(S) \in 0..2
    BY <1>5, FS_Subset, FS_CardinalityType
  <1>7. ASSUME NEW S \in SUBSET {a, b, c} PROVE IsFiniteSet(S) /\ Cardinality(S) \in 0..3
    BY <1>4, FS_Subset, FS_CardinalityType
  <1> QED BY <1>6, <1>7

\* How much an open transaction may have left.
LEMMA WorkBounds ==
    ASSUME NEW x \in Transaction, Grounded(x), Drafted(x)
    PROVE  /\ IsFiniteSet(Left(x)) /\ Cardinality(Left(x)) \in 0..3
           /\ IsFiniteSet(Unread(x)) /\ Cardinality(Unread(x)) \in 0..2
           /\ x.phase \in {"Open", "Numbered"} => Cardinality(Left(x)) \in 0..2
  <1>1. IsFiniteSet(Unread(x)) /\ Cardinality(Unread(x)) \in 0..2
    <2>1. Unread(x) \in SUBSET {Primary(x.row), Secondary(x.row)}
      BY DEF Unread, Grounded
    <2> QED BY <2>1, FewElements
  <1>2. CASE x.phase = "Open"
    <2>1. PICK l : l = <<"step", <<x.submission, x.step>>>>
      OBVIOUS
    <2>2. Left(x) \in SUBSET {l, l}
      BY <1>2, <2>1 DEF Left, Flush
    <2>3. IsFiniteSet(Left(x)) /\ Cardinality(Left(x)) \in 0..2
      BY <2>2, FewElements
    <2> QED BY <1>1, <2>3
  <1>3. CASE x.phase = "Numbered"
    <2>1. PICK l, m : l = <<"submission", x.submission>> /\ m = NumberOf(x)
      OBVIOUS
    <2>2. Left(x) \in SUBSET {l, m}
      BY <1>3, <2>1 DEF Left, Flush, NumberOf
    <2>3. IsFiniteSet(Left(x)) /\ Cardinality(Left(x)) \in 0..2
      BY <2>2, FewElements
    <2> QED BY <1>1, <2>3
  <1>4. CASE x.phase = "Reading"
    <2>1. PICK l, m, n : /\ l = <<"balance", Primary(x.row)>> /\ m = <<"balance", Secondary(x.row)>>
                         /\ n = <<"request", x.submission>>
      OBVIOUS
    <2>2. Dirty(x) \cup x.fresh \subseteq {Primary(x.row), Secondary(x.row)}
      BY DEF Dirty, Grounded, Drafted
    <2>3. Left(x) \in SUBSET {l, m, n}
      <3> HIDE DEF Dirty
      <3> QED BY <1>4, <2>1, <2>2 DEF Left, Flush
    <2>4. IsFiniteSet(Left(x)) /\ Cardinality(Left(x)) \in 0..3
      BY <2>3, FewElements
    <2> QED BY <1>1, <1>4, <2>4
  <1> QED BY <1>2, <1>3, <1>4 DEF Transaction

\* A session's own step, if it does not end it, leaves it less to do.
LEMMA WorkStep ==
    ASSUME DraftInv, DraftInv', NEW w \in Worker, Advance(w), session[w] # Idle
    PROVE  LightOrDone(session[w], session'[w])
  <1>1. PICK y \in Transaction : y = session[w] /\ Grounded(y) /\ Drafted(y)
    BY Phases DEF DraftInv, SessionInv
  <1>2. CASE Commit(w) \/ Fail(w)
    BY <1>2 DEF Commit, Fail, FailOn, RollBack, DraftInv, SessionInv, LightOrDone
  <1>3. CASE session'[w] = Idle
    BY <1>3 DEF LightOrDone
  <1>4. CASE session'[w] # Idle /\ ~(Commit(w) \/ Fail(w))
    <2>1. PICK x \in Transaction : x = session'[w] /\ Grounded(x)' /\ Drafted(x)
      <3>1. session'[w] \in Transaction /\ Grounded(session[w])' /\ Drafted(session'[w])
        BY <1>4, Phases DEF DraftInv, SessionInv, Drafted
      <3> QED BY <3>1 DEF Grounded
    <2>2. UNCHANGED vars
      BY <1>4 DEF Advance, Acquire, ReadType, ReadBalance, Number
    <2>3. Grounded(x)
      BY ONLY <2>1, <2>2 DEF Grounded, vars, Submitted
    <2>4. /\ Cardinality(Left(x)) \in 0..3 /\ Cardinality(Left(y)) \in 0..3
          /\ IsFiniteSet(Left(y)) /\ IsFiniteSet(Unread(y))
          /\ Cardinality(Unread(x)) \in 0..2 /\ Cardinality(Unread(y)) \in 0..2
          /\ x.phase = "Numbered" => Cardinality(Left(x)) \in 0..2
      BY <1>1, <2>1, <2>3, WorkBounds
    <2> SUFFICES Work(x) < Work(y)
      BY <1>1, <2>1 DEF LightOrDone
    <2>5. ASSUME NEW l \in Wanted(w), Acquire(w, l) PROVE Work(x) < Work(y)
      <3>1. x = [y EXCEPT !.held = @ \cup {l}]
        BY <1>1, <2>1, <2>5 DEF Acquire, DraftInv, SessionInv
      <3>2. /\ x.phase = y.phase /\ x.verdict = y.verdict /\ x.submission = y.submission
            /\ x.step = y.step /\ x.row = y.row /\ x.charged = y.charged /\ x.was = y.was
            /\ x.fresh = y.fresh /\ x.held = y.held \cup {l}
        BY <3>1 DEF Transaction
      <3>3. Unread(x) = Unread(y) /\ Dirty(x) = Dirty(y)
        BY <3>2 DEF Unread, Dirty, Moved
      <3>4. Flush(x) = Flush(y)
        <4> HIDE DEF Dirty, Unread
        <4> QED BY <3>2, <3>3 DEF Flush
      <3>5. Left(x) = Left(y) \ {l} /\ l \in Left(y)
        BY <1>1, <2>5, <3>2, <3>4 DEF Left, Wanted
      <3>6. Cardinality(Left(x)) = Cardinality(Left(y)) - 1
        BY <2>4, <3>5, FS_RemoveElement
      <3> QED BY <2>4, <3>2, <3>3, <3>6 DEF Work
    <2>6. CASE ReadType(w)
      <3>1. y.phase = "Open" /\ x.phase = "Reading"
        <4>1. session' = [session EXCEPT ![w].phase = "Reading", ![w].charged = Charged(session[w].row)]
          BY <2>6 DEF ReadType
        <4> QED BY <1>1, <2>1, <2>6, <4>1 DEF ReadType, DraftInv, SessionInv, Transaction
      <3> QED BY <2>4, <3>1 DEF Work
    <2>7. CASE ReadBalance(w)
      <3>1. PICK a : a = IF Primary(y.row) \in Unread(y) THEN Primary(y.row) ELSE Secondary(y.row)
        OBVIOUS
      <3>2. a \in Unread(y) /\ y.phase = "Reading" /\ Wanted(w) = {}
        BY <1>1, <2>7, <3>1, NextUnread DEF ReadBalance
      <3>3. PICK was, fresh : was = Insert(y.was, a, BalanceOf(a))
                              /\ x = [y EXCEPT !.was = was, !.fresh = fresh]
        <4>1. session' = [session EXCEPT
                ![w].was = Insert(@, a, BalanceOf(a)),
                ![w].fresh = IF a \in DOMAIN leave_balances THEN @ ELSE @ \cup {a}]
          BY <1>1, <2>7, <3>1 DEF ReadBalance
        <4> QED BY <1>1, <2>1, <4>1 DEF DraftInv, SessionInv
      <3>4. x.phase = "Reading" /\ x.charged = y.charged /\ x.was = was
        BY <3>2, <3>3 DEF Transaction
      <3>5. DOMAIN was = DOMAIN y.was \cup {a}
        BY <3>3 DEF Insert, Write
      <3>6. Unread(x) = Unread(y) \ {a}
        BY <3>4, <3>5 DEF Unread
      <3>7. Cardinality(Unread(x)) = Cardinality(Unread(y)) - 1
        BY <2>4, <3>2, <3>6, FS_RemoveElement
      <3>8. Left(y) = {}
        BY <1>1, <3>2 DEF Left, Wanted
      <3> QED BY <2>4, <3>2, <3>4, <3>7, <3>8, FS_EmptySet DEF Work
    <2>8. CASE Number(w)
      <3>1. y.phase = "Reading" /\ x.phase = "Numbered"
        <4>1. session' = [session EXCEPT ![w].phase = "Numbered",
                    ![w].row.number = NextRequestNumber(session[w].row.request_year)]
          BY <2>8 DEF Number
        <4> QED BY <1>1, <2>1, <2>8, <4>1 DEF Number, DraftInv, SessionInv, Transaction
      <3> QED BY <2>4, <3>1 DEF Work
    <2> QED BY <1>4, <2>5, <2>6, <2>7, <2>8 DEF Advance
  <1> QED BY <1>2, <1>3, <1>4

\* A handler runs at most 23 queries and statements, whatever the others do: no
\* step of another session changes what it has to do, and each of its own leaves
\* it less.
THEOREM BoundedWorkTheorem ==
    SessionSpec =>
        /\ [](\A w \in Worker : session[w] # Idle => Work(session[w]) \in 0..22)
        /\ [][\A w \in Worker : session[w] # Idle => LightOrDone(session[w], session'[w])]_sessionVars
  <1>1. SessionInit => DraftInv
    BY SessionStarts DEF SessionInit, DraftInv
  <1>2. DraftInv => \A w \in Worker : session[w] # Idle => Work(session[w]) \in 0..22
    <2> SUFFICES ASSUME DraftInv, NEW w \in Worker, session[w] # Idle
                 PROVE  Work(session[w]) \in 0..22
      OBVIOUS
    <2>1. PICK x \in Transaction : x = session[w] /\ Grounded(x) /\ Drafted(x)
      BY Phases DEF DraftInv, SessionInv
    <2> QED BY <2>1, WorkBounds DEF Work
  <1>3. DraftInv /\ DraftInv' /\ SessionNext =>
            \A w \in Worker : session[w] # Idle => LightOrDone(session[w], session'[w])
    <2> SUFFICES ASSUME DraftInv, DraftInv', NEW v \in Worker, NEW w \in Worker, session[w] # Idle,
                        OpenAny(v) \/ Advance(v) \/ Crash(v) \/ Maintain(v)
                 PROVE  LightOrDone(session[w], session'[w])
      BY DEF SessionNext
    <2>1. CASE v = w /\ Advance(v)
      BY <2>1, WorkStep
    <2>2. CASE Crash(v) \/ Maintain(v)
      BY <2>2 DEF Crash, RollBack, Maintain, DraftInv, SessionInv, LightOrDone
    <2>3. CASE OpenAny(v)
      <3>1. session[v] = Idle /\ \E x : session' = [session EXCEPT ![v] = x]
        BY <2>3 DEF OpenAny, OpenSubmit, OpenDecide, OpenCancel
      <3> QED BY <3>1 DEF DraftInv, SessionInv, LightOrDone
    <2>4. CASE v # w /\ Advance(v)
      <3>1. session'[w] = session[w]
        BY <2>4 DEF Advance, Acquire, ReadType, ReadBalance, Number, Commit, Fail, FailOn, RollBack,
                    DraftInv, SessionInv
      <3> QED BY <3>1 DEF LightOrDone
    <2> QED BY <2>1, <2>2, <2>3, <2>4
  <1>4. DraftInv /\ DraftInv' /\ [SessionNext]_sessionVars =>
            [\A w \in Worker : session[w] # Idle => LightOrDone(session[w], session'[w])]_sessionVars
    BY <1>3
  <1> QED BY <1>1, <1>2, <1>4, DraftStep, PTL DEF SessionSpec

\* An open session has something to do next: a query when it has nothing to
\* write, a row or key that is free, or an error to raise.
MayProceed(w) ==
    \/ Wanted(w) = {}
    \/ \E l \in Wanted(w) : Free(w, l)
    \/ Insufficient(session[w])
    \/ Deadlocked(w, [v \in Worker |-> Wanted(v)])

\* Never do all open sessions wait for rows of one another: if none could
\* proceed, PostgreSQL would find them deadlocked and break the deadlock.
THEOREM NoStandstillTheorem ==
    SessionSpec => []((\E w \in Worker : session[w] # Idle) =>
                        \E w \in Worker : session[w] # Idle /\ MayProceed(w))
  <1>1. SessionInv => ((\E w \in Worker : session[w] # Idle) =>
                        \E w \in Worker : session[w] # Idle /\ MayProceed(w))
    <2> SUFFICES ASSUME SessionInv, NEW w \in Worker, session[w] # Idle,
                        \A v \in Worker : session[v] # Idle => ~MayProceed(v)
                 PROVE  FALSE
      OBVIOUS
    <2>1. PICK W : W = {v \in Worker : session[v] # Idle}
      OBVIOUS
    <2>2. PICK waits : waits = [v \in Worker |-> Wanted(v)]
      OBVIOUS
    <2>3. \A u \in Worker \ W : \A l : ~HeldBy(u, l)
      BY <2>1 DEF HeldBy, Idle
    <2>4. ASSUME NEW v \in W
          PROVE  waits[v] # {} /\ \A l \in waits[v] : \E u \in W \ {v} : HeldBy(u, l)
      <3>1. ~MayProceed(v) /\ v \in Worker /\ waits[v] = Wanted(v)
        BY <2>1, <2>2, <2>4
      <3>2. Wanted(v) # {} /\ \A l \in Wanted(v) : ~Free(v, l)
        BY <3>1 DEF MayProceed
      <3> QED BY <2>3, <3>1, <3>2 DEF Free
    <2>5. W \in SUBSET Worker /\ w \in W
      BY <2>1
    <2>6. Deadlocked(w, waits)
      BY <2>4, <2>5 DEF Deadlocked
    <2> QED BY <2>2, <2>6 DEF MayProceed
  <1> QED BY <1>1, SessionStarts, SessionStep, PTL DEF SessionSpec

=============================================================================
