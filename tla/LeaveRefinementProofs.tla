------------------------- MODULE LeaveRefinementProofs -------------------------
(***************************************************************************)
(* In a deployment whose deduction flags stay put, the leave engine with   *)
(* its counters implements LeaveAccounts, for any employees, leave types,  *)
(* days, caps and submission ids.                                          *)
(***************************************************************************)
EXTENDS LeaveRefinement, LeaveWorkflowProofs

-----------------------------------------------------------------------------
(***************************************************************************)
(* The refinement mapping.                                                 *)
(***************************************************************************)

\* The claim a request stands for, before and after a step.
LEMMA ClaimOfRequest ==
    /\ DOMAIN Claims = Submitted
    /\ \A s \in Submitted :
          Claims[s] = [accounts |-> Charged(leave_requests[s]),
                       days |-> leave_requests[s].working_days,
                       state |-> StateOf[leave_requests[s].status]]
    /\ DOMAIN Claims' = Submitted'
    /\ \A s \in Submitted' :
          Claims'[s] = [accounts |-> Charged(leave_requests[s])',
                        days |-> leave_requests'[s].working_days,
                        state |-> StateOf[leave_requests'[s].status]]
  BY DEF Claims, Charged, Primary, Secondary, StateOf

\* What an account is worth, before and after a step.
LEMMA EntitlementOfAccount ==
    /\ \A a \in Account : Entitlement[a] = BalanceOf(a).entitled
    /\ \A a \in Account : Entitlement'[a] = BalanceOf(a)'.entitled
  BY DEF Entitlement, BalanceOf, Account, Year

\* The instance counts as FiniteSets does.
LEMMA CardinalityOfClaims == \A S : Accounts!Cardinality(S) = Cardinality(S)
  BY DEF Accounts!Cardinality, Cardinality

\* What an account is worth is a natural number.
LEMMA EntitlementType ==
    ASSUME TypeOK
    PROVE  Entitlement \in [Account -> Nat]
  <1>1. \A a \in Account : BalanceOf(a).entitled \in Nat
    BY BalanceOfType DEF BalanceRow
  <1> QED BY <1>1 DEF Entitlement

\* The claims that count against an account are the requests its counters stand
\* for, and their days are the sum of the two counters.
LEMMA ClaimedIsCounted ==
    ASSUME StableInv, NEW a \in Account
    PROVE  Accounts!Claimed(a) = BalanceOf(a).used + BalanceOf(a).pending
  <1> DEFINE P == Charging(a, "Pending")
             A == Charging(a, "Approved")
             UP == Units(P, leave_requests)
             UA == Units(A, leave_requests)
  <1>1. /\ P \cap A = {} /\ P \subseteq Submitted /\ A \subseteq Submitted
        /\ \A s \in Submitted : Claims[s].days = leave_requests[s].working_days
    BY ClaimOfRequest DEF Charging
  <1>2. Accounts!Against(a) = P \cup A
    <2>1. \A s \in Submitted : leave_requests[s].status \in Status
      BY DEF StableInv, UnitsInv, TypeInv, TypeOK, LeaveRequestRow
    <2>2. \A s \in Submitted :
            /\ Claims[s].accounts = Charged(leave_requests[s])
            /\ Claims[s].state # "returned" <=> leave_requests[s].status \in {"Pending", "Approved"}
      BY <2>1, ClaimOfRequest DEF StateOf, Status
    <2> QED BY <2>2, ClaimOfRequest
            DEF Accounts!Against, Accounts!InForce, Accounts!Made, Charging
  <1>3. Accounts!Claimed(a) = Cardinality(UP \cup UA)
    <2>1. UNION {{c} \X (1..Claims[c].days) : c \in P \cup A} = UP \cup UA
      <3> HIDE DEF P, A
      <3> QED BY <1>1 DEF Units
    <2> HIDE DEF P, A, UP, UA
    <2> QED BY <1>2, <2>1, CardinalityOfClaims DEF Accounts!Claimed
  <1>4. UP \cap UA = {}
    <2> HIDE DEF P, A
    <2> QED BY <1>1 DEF Units
  <1>5. IsFiniteSet(UP) /\ IsFiniteSet(UA)
    <2> HIDE DEF P, A
    <2> QED BY <1>1, UnitsMonotone DEF StableInv, UnitsInv
  <1>6. BalanceOf(a).pending = Cardinality(UP) /\ BalanceOf(a).used = Cardinality(UA)
    BY TotalDaysIsUnits DEF StableInv, LedgerBalanced, AccountOK
  <1>7. Cardinality(UP) \in Nat /\ Cardinality(UA) \in Nat
    BY <1>5, FS_CardinalityType
  <1> HIDE DEF P, A, UP, UA
  <1>8. Cardinality(UP \cup UA) = Cardinality(UP) + Cardinality(UA)
    <2>1. Cardinality(UP \cup UA)
            = Cardinality(UP) + Cardinality(UA) - Cardinality(UP \cap UA)
      BY <1>5, FS_Union
    <2>2. Cardinality(UP \cap UA) = 0
      BY <1>4, FS_EmptySet
    <2> QED BY <1>7, <2>1, <2>2
  <1> QED BY <1>3, <1>6, <1>7, <1>8

-----------------------------------------------------------------------------
(***************************************************************************)
(* The inductive invariant.                                                *)
(***************************************************************************)

\* The accounts that stored requests draw on have been opened, so that what they
\* are worth no longer follows the cap of the leave type.
AccountsOpened ==
    \A s \in Submitted : Charged(leave_requests[s]) \subseteq DOMAIN leave_balances

RefinementInv == StableInv /\ AccountsOpened

-----------------------------------------------------------------------------
(***************************************************************************)
(* Every step is a step of LeaveAccounts.                                  *)
(***************************************************************************)

\* A submission holds a new claim.
LEMMA SubmitHolds ==
    ASSUME RefinementInv, NEW s \in SubmissionId, NEW r \in LeaveRequestRow,
           r.status = "Pending", Submit(s, r)
    PROVE  Accounts!AccountsNext /\ AccountsOpened'
  <1> DEFINE n == r.working_days
             claim == [accounts |-> Charged(r), days |-> n, state |-> "held"]
  <1>1. /\ leave_balances' = Write(leave_balances, Reserved(r))
        /\ leave_requests' = Insert(leave_requests, s, r)
        /\ leave_types' = leave_types
        /\ s \notin Submitted
        /\ \A c \in Charged(r) : CanReserve(BalanceOf(c), n)
    BY DEF Submit, Validated
  <1>2. TypeOK /\ StableInv /\ n \in Nat /\ Charged(r) \subseteq Account
    BY ChargedAccounts DEF RefinementInv, StableInv, UnitsInv, TypeInv, LeaveRequestRow
  <1>3. /\ Submitted' = Submitted \cup {s}
        /\ leave_requests'[s] = r
        /\ \A x \in Submitted : leave_requests'[x] = leave_requests[x]
    BY <1>1 DEF Submitted, Insert, Write
  <1>4. \A x \in Submitted' : Charged(leave_requests[x])'
            = IF x = s THEN Charged(r) ELSE Charged(leave_requests[x])
    BY <1>1, <1>3 DEF Charged, Primary, Secondary
  <1>5. Claims' = Accounts!Extended(s, claim)
    <2>1. Claims'[s] = claim
      <3>1. s \in Submitted' /\ Charged(leave_requests[s])' = Charged(r)
        BY <1>3, <1>4
      <3>2. StateOf[leave_requests'[s].status] = "held"
        BY <1>3 DEF StateOf
      <3>3. Claims'[s] = [accounts |-> Charged(leave_requests[s])',
                          days |-> leave_requests'[s].working_days,
                          state |-> StateOf[leave_requests'[s].status]]
        BY <3>1, ClaimOfRequest
      <3> QED BY <1>3, <3>1, <3>2, <3>3
    <2>2. \A x \in Submitted : Claims'[x] = Claims[x]
      BY <1>1, <1>3, <1>4, ClaimOfRequest
    <2>3. Claims' = [x \in Submitted' |-> Claims'[x]]
      BY DEF Claims, Charged, Primary, Secondary, StateOf
    <2> HIDE DEF claim
    <2> QED BY <1>1, <1>3, <2>1, <2>2, <2>3, ClaimOfRequest
            DEF Accounts!Extended, Accounts!Made
  <1>6. Entitlement' = Entitlement
    <2>1. \A a \in Account : BalanceOf(a)'.entitled = BalanceOf(a).entitled
      <3> SUFFICES ASSUME NEW a \in Account
                   PROVE  BalanceOf(a)'.entitled = BalanceOf(a).entitled
        OBVIOUS
      <3>1. BalanceOf(a)' = IF a \in Charged(r) THEN Reserve(BalanceOf(a), n) ELSE BalanceOf(a)
        BY <1>1, BalanceAfterWrite DEF Reserved
      <3>2. BalanceOf(a) \in BalanceRow
        BY <1>2, BalanceOfType
      <3>3. Reserve(BalanceOf(a), n).entitled = BalanceOf(a).entitled
        BY <1>2, <3>2, BalanceOps
      <3> QED BY <3>1, <3>3
    <2> QED BY <2>1 DEF Entitlement
  <1>7. \A a \in Charged(r) : Accounts!Claimed(a) + n <= Entitlement[a]
    <2> SUFFICES ASSUME NEW a \in Charged(r)
                 PROVE  Accounts!Claimed(a) + n <= Entitlement[a]
      OBVIOUS
    <2>1. Accounts!Claimed(a) = BalanceOf(a).used + BalanceOf(a).pending
      BY <1>2, ClaimedIsCounted
    <2>2. Entitlement[a] = BalanceOf(a).entitled
      BY <1>2, EntitlementOfAccount
    <2> QED BY <1>1, <2>1, <2>2 DEF CanReserve
  <1>8. Accounts!Hold(s, Charged(r), n)
    BY <1>1, <1>5, <1>6, <1>7, ClaimOfRequest DEF Accounts!Hold, Accounts!Made
  <1>9. Accounts!AccountsNext
    <2>1. Claims'[s] = claim /\ s \in DOMAIN Claims'
      BY <1>3, <1>5, ClaimOfRequest DEF Accounts!Extended, Accounts!Made
    <2>2. Claims'[s].accounts = Charged(r) /\ Claims'[s].days = n
      BY <2>1
    <2> QED BY <1>8, <2>1, <2>2 DEF Accounts!AccountsNext, Accounts!Made
  <1>10. AccountsOpened'
    <2>1. DOMAIN leave_balances' = DOMAIN leave_balances \cup Charged(r)
      BY <1>1 DEF Write, Reserved
    <2> QED BY <1>3, <1>4, <2>1 DEF RefinementInv, AccountsOpened
  <1> QED BY <1>9, <1>10

\* A verdict or a cancellation settles a held claim, on the accounts it was
\* granted on.
LEMMA SettleSettles ==
    ASSUME RefinementInv, NEW s \in Submitted, leave_requests[s].status = "Pending",
           NEW st \in {"Approved", "Rejected", "Cancelled"},
           leave_types' = leave_types,
           leave_requests' = [leave_requests EXCEPT ![s].status = st],
           leave_balances' = Write(leave_balances, IF st = "Approved"
                                                   THEN Committed(leave_requests[s])
                                                   ELSE Released(leave_requests[s]))
    PROVE  Accounts!AccountsNext /\ AccountsOpened'
  <1> DEFINE r == leave_requests[s]
             n == r.working_days
             rows == IF st = "Approved" THEN Committed(r) ELSE Released(r)
             state == StateOf[st]
  <1>1. TypeOK /\ r \in LeaveRequestRow /\ n \in Nat
    BY DEF RefinementInv, StableInv, UnitsInv, TypeInv, TypeOK, LeaveRequestRow
  <1>2. /\ Submitted' = Submitted
        /\ \A x \in Submitted :
              /\ leave_requests'[x].applicant = leave_requests[x].applicant
              /\ leave_requests'[x].leave_type = leave_requests[x].leave_type
              /\ leave_requests'[x].request_year = leave_requests[x].request_year
              /\ leave_requests'[x].working_days = leave_requests[x].working_days
              /\ leave_requests'[x].status
                    = IF x = s THEN st ELSE leave_requests[x].status
    BY <1>1 DEF TypeOK, LeaveRequestRow, Submitted
  <1>3. \A x \in Submitted : Charged(leave_requests[x])' = Charged(leave_requests[x])
    BY <1>2 DEF Charged, Primary, Secondary
  <1>4. Claims' = [Claims EXCEPT ![s].state = state]
    <2>1. \A x \in Submitted :
            Claims'[x] = IF x = s THEN [Claims[x] EXCEPT !.state = state] ELSE Claims[x]
      <3> SUFFICES ASSUME NEW x \in Submitted
                   PROVE  Claims'[x] = IF x = s THEN [Claims[x] EXCEPT !.state = state]
                                                ELSE Claims[x]
        OBVIOUS
      <3>1. /\ Claims[x] = [accounts |-> Charged(leave_requests[x]),
                            days |-> leave_requests[x].working_days,
                            state |-> StateOf[leave_requests[x].status]]
            /\ Claims'[x] = [accounts |-> Charged(leave_requests[x])',
                             days |-> leave_requests'[x].working_days,
                             state |-> StateOf[leave_requests'[x].status]]
        BY <1>2, ClaimOfRequest
      <3>2. /\ Charged(leave_requests[x])' = Charged(leave_requests[x])
            /\ leave_requests'[x].working_days = leave_requests[x].working_days
            /\ leave_requests'[x].status = IF x = s THEN st ELSE leave_requests[x].status
        BY <1>2, <1>3
      <3>3. Claims'[x] = [accounts |-> Charged(leave_requests[x]),
                          days |-> leave_requests[x].working_days,
                          state |-> IF x = s THEN state
                                             ELSE StateOf[leave_requests[x].status]]
        BY <3>1, <3>2
      <3> HIDE DEF state
      <3> QED BY <3>1, <3>3
    <2>2. Claims' = [x \in Submitted |-> Claims'[x]] /\ Claims = [x \in Submitted |-> Claims[x]]
      BY <1>2 DEF Claims, Charged, Primary, Secondary
    <2> HIDE DEF state
    <2> QED BY <2>1, <2>2
  <1>5. Entitlement' = Entitlement
    <2>1. \A a \in Account : BalanceOf(a)'.entitled = BalanceOf(a).entitled
      <3> SUFFICES ASSUME NEW a \in Account
                   PROVE  BalanceOf(a)'.entitled = BalanceOf(a).entitled
        OBVIOUS
      <3>1. BalanceOf(a)' = IF a \in DOMAIN rows THEN rows[a] ELSE BalanceOf(a)
        BY BalanceAfterWrite
      <3>2. a \in DOMAIN rows => \/ rows[a] = CommitPendingToUsed(BalanceOf(a), n)
                                 \/ rows[a] = ReleasePending(BalanceOf(a), n)
        BY DEF Committed, Released
      <3>3. /\ CommitPendingToUsed(BalanceOf(a), n).entitled = BalanceOf(a).entitled
            /\ ReleasePending(BalanceOf(a), n).entitled = BalanceOf(a).entitled
        <4>1. BalanceOf(a) \in BalanceRow
          BY <1>1, BalanceOfType
        <4> QED BY <1>1, <4>1, BalanceOps
      <3> HIDE DEF rows
      <3> QED BY <3>1, <3>2, <3>3
    <2> QED BY <2>1 DEF Entitlement
  <1>6. Claims[s].state = "held" /\ state \in {"used", "returned"}
    BY ClaimOfRequest DEF StateOf
  <1>7. Accounts!Settle(s, state)
    BY <1>4, <1>5, <1>6 DEF Accounts!Settle
  <1>8. Accounts!AccountsNext
    <2>1. s \in DOMAIN Claims /\ s \in SubmissionId
      BY <1>1, ClaimOfRequest DEF TypeOK
    <2> QED BY <1>6, <1>7, <2>1 DEF Accounts!AccountsNext, Accounts!Made
  <1>9. AccountsOpened'
    <2>1. DOMAIN leave_balances \subseteq DOMAIN leave_balances'
      BY DEF Write
    <2> QED BY <1>2, <1>3, <2>1 DEF RefinementInv, AccountsOpened
  <1> QED BY <1>8, <1>9

\* An edit of a leave type or a workbook line revalues accounts nobody relies on.
LEMMA EditRevalues ==
    ASSUME RefinementInv, TypeOK', leave_requests' = leave_requests,
           \A t \in LeaveType :
              leave_types'[t].deducts_from_annual = leave_types[t].deducts_from_annual,
           DOMAIN leave_balances \subseteq DOMAIN leave_balances',
           \A a \in DOMAIN leave_balances : leave_balances'[a] = leave_balances[a]
    PROVE  Accounts!AccountsNext /\ AccountsOpened'
  <1>1. TypeOK
    BY DEF RefinementInv, StableInv, UnitsInv, TypeInv
  <1>2. \A x \in Submitted : Charged(leave_requests[x])' = Charged(leave_requests[x])
    BY <1>1 DEF Charged, Primary, Secondary, TypeOK, LeaveRequestRow
  <1>3. Submitted' = Submitted
    BY DEF Submitted
  <1>4. Claims' = Claims
    <2>1. \A x \in Submitted : Claims'[x] = Claims[x]
      BY <1>2, <1>3, ClaimOfRequest
    <2>2. Claims' = [x \in Submitted |-> Claims'[x]] /\ Claims = [x \in Submitted |-> Claims[x]]
      BY <1>3 DEF Claims, Charged, Primary, Secondary
    <2> QED BY <2>1, <2>2
  <1>5. Entitlement' \in [Account -> Nat]
    <2>1. \A a \in Account : BalanceOf(a)'.entitled \in Nat
      <3> SUFFICES ASSUME NEW a \in Account PROVE BalanceOf(a)'.entitled \in Nat
        OBVIOUS
      <3>1. CASE a \in DOMAIN leave_balances'
        BY <3>1 DEF TypeOK, BalanceOf, BalanceRow
      <3>2. CASE a \notin DOMAIN leave_balances'
        <4>1. leave_types'[a[2]].annual_cap \in Nat
          BY DomainAssumption DEF TypeOK, Account
        <4> QED BY <3>2, <4>1 DEF BalanceOf
      <3> QED BY <3>1, <3>2
    <2> QED BY <2>1 DEF Entitlement, Account, Year
  <1>6. ASSUME NEW a \in Account, Entitlement'[a] # Entitlement[a],
               NEW c \in DOMAIN Claims
        PROVE  a \notin Claims[c].accounts
    <2>1. a \notin DOMAIN leave_balances
      BY <1>6, EntitlementOfAccount DEF BalanceOf
    <2> QED BY <1>6, <2>1, ClaimOfRequest DEF RefinementInv, AccountsOpened
  <1>7. Accounts!Revalue
    BY <1>4, <1>5, <1>6 DEF Accounts!Revalue, Accounts!Made
  <1>8. AccountsOpened'
    BY <1>2, <1>3 DEF RefinementInv, AccountsOpened
  <1> QED BY <1>7, <1>8 DEF Accounts!AccountsNext

\* Every step of the engine is a step of the accounts, or none.
LEMMA RefinementStep ==
    ASSUME RefinementInv, [StableNext]_vars
    PROVE  /\ RefinementInv'
           /\ Accounts!AccountsNext \/ UNCHANGED Accounts!accountVars
  <1>1. StableInv'
    BY StableStep DEF RefinementInv
  <1>2. TypeOK /\ TypeOK' /\ IsFiniteSet(Submitted)
    BY <1>1 DEF RefinementInv, StableInv, UnitsInv, TypeInv
  <1>3. CASE SubmitAny
    BY <1>1, <1>2, <1>3, SubmitSteps, SubmitHolds DEF RefinementInv
  <1>4. CASE DecideAny
    <2>1. PICK s \in Submitted, actor \in Employee, decision \in Decision, k \in Stage :
            Decide(s, actor, decision, k)
      BY <1>4 DEF DecideAny
    <2>2. /\ leave_requests[s].status = "Pending"
          /\ decision \in {"Approved", "Rejected", "Cancelled"}
          /\ leave_types' = leave_types
          /\ leave_requests' = [leave_requests EXCEPT ![s].status = decision]
          /\ leave_balances' = Write(leave_balances, IF decision = "Approved"
                                                     THEN Committed(leave_requests[s])
                                                     ELSE Released(leave_requests[s]))
      BY <2>1 DEF Decide, MayDecide, Decision
    <2>3. Accounts!AccountsNext /\ AccountsOpened'
      BY <2>2, SettleSettles
    <2> QED BY <1>1, <2>3 DEF RefinementInv
  <1>5. CASE CancelAny
    <2>1. PICK s \in Submitted, actor \in Employee : Cancel(s, actor)
      BY <1>5 DEF CancelAny
    <2> DEFINE st == "Cancelled"
    <2>2. /\ leave_requests[s].status = "Pending"
          /\ st \in {"Approved", "Rejected", "Cancelled"}
          /\ leave_types' = leave_types
          /\ leave_requests' = [leave_requests EXCEPT ![s].status = st]
          /\ leave_balances' = Write(leave_balances, IF st = "Approved"
                                                     THEN Committed(leave_requests[s])
                                                     ELSE Released(leave_requests[s]))
      BY <2>1 DEF Cancel, MayCancel
    <2> HIDE DEF st
    <2>3. Accounts!AccountsNext /\ AccountsOpened'
      BY <2>2, SettleSettles
    <2> QED BY <1>1, <2>3 DEF RefinementInv
  <1>6. CASE \/ \E t \in LeaveType, row \in LeaveTypeRow :
                 /\ row.deducts_from_annual = leave_types[t].deducts_from_annual
                 /\ UpdateLeaveType(t, row)
             \/ \E line \in Workbook :
                 /\ SeededAccount(line) \notin DOMAIN leave_balances
                 /\ SeedBalance(line)
    <2>1. /\ leave_requests' = leave_requests
          /\ \A t \in LeaveType :
                leave_types'[t].deducts_from_annual = leave_types[t].deducts_from_annual
          /\ DOMAIN leave_balances \subseteq DOMAIN leave_balances'
          /\ \A a \in DOMAIN leave_balances : leave_balances'[a] = leave_balances[a]
      BY <1>2, <1>6 DEF UpdateLeaveType, SeedBalance, Insert, Write, TypeOK
    <2>2. Accounts!AccountsNext /\ AccountsOpened'
      BY <1>2, <2>1, EditRevalues
    <2> QED BY <1>1, <2>2 DEF RefinementInv
  <1>7. CASE UNCHANGED vars
    <2>1. Entitlement' = Entitlement
      BY <1>7 DEF vars, Entitlement, BalanceOf, Account, Year
    <2>2. Claims' = Claims
      BY <1>7 DEF vars, Claims, Charged, Primary, Secondary, Submitted, StateOf
    <2>3. AccountsOpened'
      BY <1>7 DEF vars, RefinementInv, AccountsOpened, Charged, Primary, Secondary, Submitted
    <2> QED BY <1>1, <2>1, <2>2, <2>3 DEF RefinementInv, Accounts!accountVars
  <1> QED BY <1>3, <1>4, <1>5, <1>6, <1>7 DEF StableNext

\* At the start nothing is claimed.
LEMMA RefinementInit ==
    ASSUME Init
    PROVE  RefinementInv /\ Accounts!AccountsInit
  <1>1. StableInv
    BY InitUnits, InitAccount DEF StableInv, LedgerBalanced
  <1>2. Submitted = {}
    BY DEF Init, Submitted
  <1>3. Entitlement \in [Account -> Nat]
    BY <1>1, EntitlementType DEF StableInv, UnitsInv, TypeInv
  <1>4. Claims = <<>>
    BY <1>2 DEF Claims, Charged, Primary, Secondary, StateOf
  <1> QED BY <1>1, <1>2, <1>3, <1>4 DEF RefinementInv, AccountsOpened, Accounts!AccountsInit

\* What the balances promise, for every history in which the deduction flags stay
\* put: the engine only ever grants, uses up and returns whole claims, within what
\* the accounts are worth.
THEOREM RefinementTheorem == StableSpec => ImplementsAccounts
  <1>1. Init => RefinementInv /\ Accounts!AccountsInit
    BY RefinementInit
  <1>2. RefinementInv /\ [StableNext]_vars
          => RefinementInv' /\ [Accounts!AccountsNext]_Accounts!accountVars
    BY RefinementStep
  <1> QED BY <1>1, <1>2, PTL DEF StableSpec, ImplementsAccounts, Accounts!AccountsSpec

=============================================================================
