--------------------------- MODULE LeaveMailProofs ---------------------------
(***************************************************************************)
(* Theorems about LeaveMail for any number of sessions and requests: whom  *)
(* the handlers have told when something of theirs is stored, and what     *)
(* notification_log says of it.                                            *)
(***************************************************************************)
EXTENDS LeaveMail, LeaveSessionsProofs

-----------------------------------------------------------------------------
(***************************************************************************)
(* Letters.                                                                *)
(***************************************************************************)

\* A session has sent letters of its own, once nothing but a decision's last
\* flush was left to write.
MailClaim(x, letters) ==
    /\ letters \subseteq Letters(x)
    /\ letters # {} => /\ Complete(x)
                       /\ x.verdict = "Submitted" => Flush(x) \subseteq x.held

\* What the log has of each letter, of requests that are not stored nothing.
LogExact ==
    /\ \A s \in SubmissionId, decision \in Decision :
            Logged(<<s, decision>>) = IF s \in Submitted THEN Recorded(s, decision) ELSE 0
    /\ \A s \in SubmissionId :
            Logged(<<s, "substitute_notified">>)
                = IF s \in Submitted /\ leave_requests[s].substitute # NoOne THEN 1 ELSE 0

MailInv ==
    /\ HoldInv
    /\ told \in [Worker -> SUBSET dispatched]
    /\ \A w \in Worker : IF session[w] = Idle THEN told[w] = {} ELSE MailClaim(session[w], told[w])
    /\ notification_log \in [DOMAIN notification_log -> Nat]
    /\ NobodyUninformed
    /\ LogExact

\* A step that stores nothing: one session moves on, and may send.
LEMMA MailStoresNothing ==
    ASSUME MailInv, HoldInv', UNCHANGED <<leave_requests, audit_log, notification_log>>,
           dispatched \subseteq dispatched', NEW w \in Worker, NEW x, NEW letters,
           letters \subseteq dispatched',
           IF x = Idle THEN letters = {} ELSE MailClaim(x, letters),
           session' = [session EXCEPT ![w] = x], told' = [told EXCEPT ![w] = letters]
    PROVE  MailInv'
  <1>1. told' \in [Worker -> SUBSET dispatched']
    BY DEF MailInv
  <1>2. ASSUME NEW v \in Worker
        PROVE  IF session'[v] = Idle THEN told'[v] = {} ELSE MailClaim(session'[v], told'[v])
    BY DEF MailInv, HoldInv, KeyInv, SessionInv
  <1>3. NobodyUninformed' /\ LogExact'
    BY DEF MailInv, NobodyUninformed, LogExact, Submitted, Recorded, Logged
  <1> QED BY <1>1, <1>2, <1>3 DEF MailInv, MailClaim, Letters, Complete, Unread

\* The handlers' first checks; a session that ends without a commit.
LEMMA MailOpens ==
    ASSUME MailInv, NEW w \in Worker, UNCHANGED <<dispatched, notification_log>>,
           \/ OpenAny(w) /\ UNCHANGED told
           \/ RollBack(w) /\ told' = [told EXCEPT ![w] = {}]
    PROVE  MailInv'
  <1>1. HoldInv'
    BY HoldOpen DEF MailInv
  <1>2. CASE RollBack(w) /\ told' = [told EXCEPT ![w] = {}]
    <2>1. UNCHANGED <<leave_requests, audit_log, notification_log, dispatched>>
      BY <1>2 DEF RollBack, vars
    <2>2. PICK x, letters : /\ x = Idle /\ letters = {}
                            /\ session' = [session EXCEPT ![w] = x]
                            /\ told' = [told EXCEPT ![w] = letters]
      BY <1>2 DEF RollBack
    <2>3. IF x = Idle THEN letters = {} ELSE MailClaim(x, letters)
      BY <2>2
    <2> QED BY <1>1, <2>1, <2>2, <2>3, MailStoresNothing
  <1>3. ASSUME NEW x, x # Idle, session[w] = Idle, session' = [session EXCEPT ![w] = x],
               UNCHANGED <<vars, told>>
        PROVE  MailInv'
    <2>1. told[w] = {} /\ told' = [told EXCEPT ![w] = {}]
      BY <1>3 DEF MailInv
    <2>2. MailClaim(x, {})
      BY DEF MailClaim
    <2> QED BY <1>1, <1>3, <2>1, <2>2, MailStoresNothing DEF vars
  <1>4. ASSUME NEW phase \in {"Open", "Reading"}, NEW verdict, NEW s, NEW k, NEW row, NEW charged,
               session[w] = Idle, UNCHANGED <<vars, told>>,
               session' = [session EXCEPT ![w] = Open(phase, verdict, s, k, row, charged)]
        PROVE  MailInv'
    <2>1. PICK x : x = Open(phase, verdict, s, k, row, charged)
      OBVIOUS
    <2>2. x.phase = phase /\ Idle.phase = "Idle"
      BY <2>1 DEF Open, Idle
    <2>3. x # Idle
      BY <2>2
    <2> QED BY <1>3, <1>4, <2>1, <2>3
  <1>5. ASSUME NEW s, NEW r, OpenSubmit(w, s, r), UNCHANGED told PROVE MailInv'
    BY <1>4, <1>5 DEF OpenSubmit
  <1>6. ASSUME NEW s, NEW actor, NEW decision, NEW k, OpenDecide(w, s, actor, decision, k),
               UNCHANGED told
        PROVE MailInv'
    BY <1>4, <1>6 DEF OpenDecide
  <1>7. ASSUME NEW s, NEW actor, OpenCancel(w, s, actor), UNCHANGED told PROVE MailInv'
    BY <1>4, <1>7 DEF OpenCancel
  <1> QED BY <1>2, <1>5, <1>6, <1>7 DEF OpenAny

\* What a session with letters to its name is.
LEMMA MailSession ==
    ASSUME MailInv, NEW w \in Worker, session[w].phase # "Idle"
    PROVE  \E y \in Transaction : /\ y = session[w] /\ Grounded(y) /\ y # Idle
                                  /\ MailClaim(y, told[w])
  <1>1. session[w] \in Transaction /\ Grounded(session[w]) /\ session[w] # Idle
    BY OpenSession DEF MailInv, HoldInv, KeyInv
  <1> QED BY <1>1 DEF MailInv

\* A flush; a query, before anything is sent.
LEMMA MailQuery ==
    ASSUME MailInv, NEW w \in Worker, Written(w) \/ Queried(w)
    PROVE  MailInv'
  <1>1. UNCHANGED <<vars, told, dispatched, notification_log>>
    BY DEF Written, Queried, Acquire, ReadType, ReadBalance, Number
  <1>2. (\E l : Acquire(w, l)) \/ ReadType(w) \/ ReadBalance(w) \/ Number(w)
    BY DEF Written, Queried
  <1>3. HoldInv'
    BY <1>2, HoldQuery DEF MailInv
  <1>4. session[w].phase # "Idle"
    BY <1>2 DEF Acquire, Wanted, Flush, ReadType, ReadBalance, Number
  <1>5. PICK y \in Transaction : /\ y = session[w] /\ Grounded(y) /\ y # Idle
                                 /\ MailClaim(y, told[w])
    BY <1>4, MailSession
  <1>6. PICK letters : letters = told[w] /\ letters \subseteq dispatched'
                       /\ told' = [told EXCEPT ![w] = letters]
    BY <1>1 DEF MailInv
  <1>7. ASSUME NEW l, Acquire(w, l) PROVE MailInv'
    <2>1. PICK x : x = [y EXCEPT !.held = @ \cup {l}]
      OBVIOUS
    <2>2. session' = [session EXCEPT ![w] = x]
      BY <1>5, <1>7, <2>1 DEF Acquire
    <2>3. /\ x.held = y.held \cup {l} /\ x.phase = y.phase /\ x.submission = y.submission
          /\ x.row = y.row /\ x.fresh = y.fresh /\ x.was = y.was /\ x.verdict = y.verdict
          /\ x.charged = y.charged /\ x.step = y.step
      BY <2>1 DEF Transaction
    <2>4. Dirty(x) = Dirty(y) /\ Unread(x) = Unread(y) /\ Letters(x) = Letters(y)
      BY <2>3 DEF Dirty, Moved, Unread, Letters
    <2>5. Flush(x) = Flush(y) /\ (Complete(x) <=> Complete(y)) /\ x # Idle
      <3>1. x.phase # "Idle" /\ Idle.phase = "Idle"
        BY <2>3 DEF Transaction, Idle
      <3> HIDE DEF Dirty, Unread
      <3> QED BY <2>3, <2>4, <3>1 DEF Flush, Complete
    <2>6. MailClaim(x, letters)
      BY <1>5, <1>6, <2>3, <2>4, <2>5 DEF MailClaim
    <2> QED BY <1>1, <1>3, <1>6, <2>2, <2>5, <2>6, MailStoresNothing DEF vars
  <1>8. CASE ReadType(w) \/ ReadBalance(w) \/ Number(w)
    <2>1. ~Complete(y)
      BY <1>5, <1>8 DEF ReadType, ReadBalance, Number, Complete, Grounded, Decision
    <2>2. letters = {}
      BY <1>5, <1>6, <2>1 DEF MailClaim
    <2>3. PICK x : x = session'[w]
      OBVIOUS
    <2>4. session' = [session EXCEPT ![w] = x]
      <3>1. CASE ReadType(w)
        BY <1>5, <2>3, <3>1 DEF ReadType, MailInv, HoldInv, KeyInv, SessionInv
      <3>2. CASE ReadBalance(w)
        <4>1. PICK was, fresh : session' = [session EXCEPT ![w].was = was, ![w].fresh = fresh]
          BY <3>2 DEF ReadBalance
        <4> QED BY <1>5, <2>3, <4>1 DEF MailInv, HoldInv, KeyInv, SessionInv
      <3>3. CASE Number(w)
        <4>1. PICK n : session' = [session EXCEPT ![w].phase = "Numbered", ![w].row.number = n]
          BY <3>3 DEF Number
        <4> QED BY <1>5, <2>3, <4>1 DEF MailInv, HoldInv, KeyInv, SessionInv
      <3> QED BY <1>8, <3>1, <3>2, <3>3
    <2>5. MailClaim(x, letters)
      BY <2>2 DEF MailClaim
    <2> QED BY <1>1, <1>3, <1>6, <2>2, <2>4, <2>5, MailStoresNothing DEF vars
  <1> QED BY <1>2, <1>7, <1>8

\* A letter sent.
LEMMA MailSends ==
    ASSUME MailInv, NEW w \in Worker, NEW letter, Send(w, letter)
    PROVE  MailInv'
  <1>1. session[w] # Idle /\ UNCHANGED <<sessionVars, notification_log>>
    BY DEF Send, Due
  <1>2. session[w].phase # "Idle"
    BY <1>1, Phases DEF MailInv, HoldInv, KeyInv, SessionInv
  <1>3. PICK y \in Transaction : /\ y = session[w] /\ Grounded(y) /\ y # Idle
                                 /\ MailClaim(y, told[w])
    BY <1>2, MailSession
  <1>4. PICK letters : letters = told[w] \cup {letter}
    OBVIOUS
  <1>5. /\ letter \in Letters(y) /\ Complete(y) /\ Waits(w) = {}
        /\ told' = [told EXCEPT ![w] = letters] /\ dispatched' = dispatched \cup {letter}
    BY <1>3, <1>4 DEF Send, Due, Unsent
  <1>6. y.verdict = "Submitted" => Flush(y) \subseteq y.held
    BY <1>3, <1>5 DEF Waits, Wanted, Decision
  <1>7. MailClaim(y, letters)
    BY <1>3, <1>4, <1>5, <1>6 DEF MailClaim
  <1>8. session' = [session EXCEPT ![w] = y] /\ letters \subseteq dispatched'
    BY <1>1, <1>3, <1>4, <1>5 DEF MailInv, HoldInv, KeyInv, SessionInv, sessionVars
  <1>9. HoldInv'
    <2>1. KeyInv'
      BY <1>1, KeyStep DEF MailInv, HoldInv
    <2>2. HoldInv
      BY DEF MailInv
    <2>3. \A v \in Worker : session[v] # Idle => HoldClaim(session[v])
      BY <2>2 DEF HoldInv
    <2>4. y # Idle => HoldClaim(y)
      BY <1>3, <2>3
    <2> QED BY <1>1, <1>8, <2>1, <2>2, <2>4, HoldTablesAlone DEF sessionVars
  <1> QED BY <1>1, <1>3, <1>5, <1>7, <1>8, <1>9, MailStoresNothing DEF sessionVars, vars

\* An administrator's edit, a line of the workbook, or no step.
LEMMA MailMaintain ==
    ASSUME MailInv, NEW w \in Worker, Maintain(w), UNCHANGED <<told, dispatched, notification_log>>
    PROVE  MailInv'
  <1>1. HoldInv' /\ UNCHANGED <<session, leave_requests, audit_log>>
    BY HoldMaintain DEF MailInv, Maintain, UpdateLeaveType, SeedBalance
  <1>2. session[w] = Idle /\ told[w] = {}
    BY DEF Maintain, MailInv
  <1>3. session' = [session EXCEPT ![w] = Idle] /\ told' = [told EXCEPT ![w] = {}]
    BY <1>1, <1>2 DEF MailInv, HoldInv, KeyInv, SessionInv
  <1> QED BY <1>1, <1>3, MailStoresNothing

-----------------------------------------------------------------------------
(***************************************************************************)
(* Counting the entries of a trail.                                        *)
(***************************************************************************)

Entries(trail, e) == {i \in 1..Len(trail) : trail[i] = e}

\* One more entry is counted under its own name.
LEMMA EntriesAppended ==
    \A trail \in Seq(AuditAction), f \in AuditAction : \A e :
        Cardinality(Entries(Append(trail, f), e))
            = Cardinality(Entries(trail, e)) + (IF f = e THEN 1 ELSE 0)
  <1> SUFFICES ASSUME NEW trail \in Seq(AuditAction), NEW f \in AuditAction, NEW e
               PROVE  Cardinality(Entries(Append(trail, f), e))
                        = Cardinality(Entries(trail, e)) + (IF f = e THEN 1 ELSE 0)
    OBVIOUS
  <1>1. PICK longer, n : longer = Append(trail, f) /\ n = Len(trail) /\ n \in Nat
    <2>1. Len(trail) \in Nat
      OBVIOUS
    <2>2. PICK longer : longer = Append(trail, f)
      OBVIOUS
    <2> QED BY <2>1, <2>2
  <1>2. /\ Len(longer) = n + 1 /\ longer[n + 1] = f
        /\ \A i \in 1..n : longer[i] = trail[i]
    BY <1>1
  <1>3. PICK S : S = Entries(trail, e)
    OBVIOUS
  <1>4. Entries(longer, e) = IF f = e THEN S \cup {n + 1} ELSE S
    BY <1>1, <1>2, <1>3 DEF Entries
  <1>5. S \subseteq 1..n /\ n + 1 \notin S
    BY <1>1, <1>3 DEF Entries
  <1>6. IsFiniteSet(S)
    <2>1. IsFiniteSet(1..n)
      BY <1>1, FS_Interval
    <2> QED BY <1>5, <2>1, FS_Subset
  <1>7. Cardinality(S) \in Nat /\ Cardinality(S \cup {n + 1}) = Cardinality(S) + 1
    BY <1>5, <1>6, FS_AddElement, FS_CardinalityType
  <1> QED BY <1>1, <1>3, <1>4, <1>7

\* How many entries of a trail are a given one: a number, positive exactly when
\* there is one.
LEMMA EntriesCounted ==
    \A trail \in Seq(AuditAction) : \A e :
        /\ Cardinality(Entries(trail, e)) \in Nat
        /\ Cardinality(Entries(<<"Submitted">>, e)) = IF e = "Submitted" THEN 1 ELSE 0
  <1> SUFFICES ASSUME NEW trail \in Seq(AuditAction), NEW e
               PROVE  /\ Cardinality(Entries(trail, e)) \in Nat
                      /\ Cardinality(Entries(<<"Submitted">>, e)) = IF e = "Submitted" THEN 1 ELSE 0
    OBVIOUS
  <1>1. IsFiniteSet(Entries(trail, e))
    <2>1. Entries(trail, e) \subseteq 1..Len(trail) /\ IsFiniteSet(1..Len(trail))
      BY FS_Interval DEF Entries
    <2> QED BY <2>1, FS_Subset
  <1>2. Entries(<<"Submitted">>, e) = IF e = "Submitted" THEN {1} ELSE {}
    BY DEF Entries
  <1>3. Cardinality({1}) = 1 /\ Cardinality({}) = 0
    BY FS_Singleton, FS_EmptySet
  <1> QED BY <1>1, <1>2, <1>3, FS_CardinalityType

\* The verdicts on record after a commit.
LEMMA CommitRecords ==
    ASSUME SessionInv, NEW w \in Worker, Commit(w), NEW x \in Transaction, x = session[w],
           x.verdict = "Submitted" => x.submission \notin Submitted
    PROVE  \A s \in Submitted \cup {x.submission} : \A decision \in Decision :
              Recorded(s, decision)' =
                 (IF s \in Submitted THEN Recorded(s, decision) ELSE 0)
                 + (IF s = x.submission /\ decision = x.verdict THEN 1 ELSE 0)
  <1> SUFFICES ASSUME NEW s \in Submitted \cup {x.submission}, NEW decision \in Decision
               PROVE  Recorded(s, decision)' =
                         (IF s \in Submitted THEN Recorded(s, decision) ELSE 0)
                         + (IF s = x.submission /\ decision = x.verdict THEN 1 ELSE 0)
    OBVIOUS
  <1>1. PICK e \in AuditAction : e = DecisionAction(decision) /\ e # "Submitted"
    BY DEF DecisionAction, AuditAction
  <1>2. /\ \A r \in Submitted : /\ audit_log[r] \in Seq(AuditAction)
                                /\ Recorded(r, decision) = Cardinality(Entries(audit_log[r], e))
        /\ Recorded(s, decision)' = Cardinality(Entries(audit_log'[s], e))
    BY <1>1 DEF SessionInv, TypeInv, TypeOK, Recorded, Entries
  <1>3. /\ \A r \in Submitted \ {x.submission} : audit_log'[r] = audit_log[r]
        /\ IF x.verdict = "Submitted"
           THEN audit_log' = Insert(audit_log, x.submission, <<"Submitted">>)
           ELSE /\ x.submission \in Submitted
                /\ audit_log' = [audit_log EXCEPT ![x.submission] = Append(@, AuditEntry(x))]
    <2>1. DOMAIN audit_log = Submitted /\ Grounded(x)
      BY DEF SessionInv, TypeInv, TypeOK, Commit
    <2>2. IF x.verdict = "Submitted"
          THEN audit_log' = Insert(audit_log, x.submission, <<"Submitted">>)
          ELSE audit_log' = [audit_log EXCEPT ![x.submission] = Append(@, AuditEntry(x))]
      BY DEF Commit
    <2>3. CASE x.verdict = "Submitted"
      BY <2>1, <2>2, <2>3 DEF Insert, Write
    <2>4. CASE x.verdict # "Submitted"
      BY <2>1, <2>2, <2>4 DEF Grounded
    <2> QED BY <2>3, <2>4
  <1>4. CASE s # x.submission
    BY <1>2, <1>3, <1>4, EntriesCounted
  <1>5. CASE s = x.submission /\ x.verdict = "Submitted"
    <2>1. audit_log'[s] = <<"Submitted">>
      BY <1>3, <1>5 DEF Insert, Write
    <2>2. <<"Submitted">> \in Seq(AuditAction) /\ decision # "Submitted"
      BY DEF AuditAction, Decision
    <2>3. Cardinality(Entries(<<"Submitted">>, e)) = 0
      BY <1>1, <2>2, EntriesCounted
    <2> QED BY <1>2, <1>5, <2>1, <2>2, <2>3
  <1>6. CASE s = x.submission /\ x.verdict # "Submitted"
    <2>1. PICK trail \in Seq(AuditAction) : trail = audit_log[s] /\ s \in Submitted
      BY <1>2, <1>3, <1>6
    <2>2. x.verdict \in Decision \cup {"Cancelled"}
      BY <1>6 DEF Transaction, Verdict
    <2>3. PICK f \in AuditAction : f = AuditEntry(x)
      BY <2>2 DEF AuditEntry, DecisionAction, AuditAction, Decision
    <2>4. f = e <=> x.verdict = decision
      BY <1>1, <2>2, <2>3 DEF AuditEntry, DecisionAction, Decision
    <2>5. audit_log'[s] = Append(trail, f)
      <3>1. DOMAIN audit_log = Submitted
        BY DEF SessionInv, TypeInv, TypeOK
      <3> QED BY <1>3, <1>6, <2>1, <2>3, <3>1
    <2>6. Cardinality(Entries(Append(trail, f), e))
            = Cardinality(Entries(trail, e)) + (IF f = e THEN 1 ELSE 0)
      BY EntriesAppended
    <2> QED BY <1>2, <1>6, <2>1, <2>4, <2>5, <2>6
  <1> QED BY <1>4, <1>5, <1>6

-----------------------------------------------------------------------------
(***************************************************************************)
(* The commit, and the theorems.                                           *)
(***************************************************************************)

\* What a commit adds to notification_log.
LEMMA LogGrows ==
    ASSUME MailInv, NEW w \in Worker, NEW letters, told[w] = letters,
           notification_log' = Write(notification_log, LogRows(w))
    PROVE  /\ notification_log' \in [DOMAIN notification_log' -> Nat]
           /\ \A l : Logged(l) \in Nat
           /\ \A l : Logged(l)' = Logged(l) + (IF l \in letters THEN 1 ELSE 0)
  <1>1. \A l : Logged(l) \in Nat
    BY DEF MailInv, Logged
  <1>2. PICK rows : rows = [l \in letters |-> 1 + Logged(l)]
    OBVIOUS
  <1>3. LogRows(w) = rows
    BY <1>2 DEF LogRows, Logged
  <1>4. /\ DOMAIN notification_log' = DOMAIN notification_log \cup letters
        /\ \A l \in DOMAIN notification_log' :
              notification_log'[l] = IF l \in letters THEN 1 + Logged(l) ELSE notification_log[l]
        /\ notification_log' = [l \in DOMAIN notification_log' |-> notification_log'[l]]
    BY <1>2, <1>3 DEF Write
  <1>5. \A l : Logged(l)' = Logged(l) + (IF l \in letters THEN 1 ELSE 0)
    BY <1>1, <1>4 DEF Logged
  <1>6. \A l \in DOMAIN notification_log' : notification_log'[l] \in Nat
    BY <1>1, <1>4 DEF MailInv
  <1> QED BY <1>1, <1>4, <1>5, <1>6

\* A commit with its log rows keeps the promises.
LEMMA MailCommits ==
    ASSUME MailInv, NEW w \in Worker, CommitWithRows(w)
    PROVE  MailInv'
  <1>1. HoldInv' /\ HoldInv /\ KeyInv /\ SessionInv /\ Commit(w)
    BY HoldCommit DEF MailInv, HoldInv, KeyInv, CommitWithRows
  <1>0. PICK x \in Transaction : Writes(w, x)
    BY <1>1, CommitWrites
  <1>2. /\ x = session[w] /\ Grounded(x) /\ Complete(x) /\ Wanted(w) = {}
        /\ session' = [session EXCEPT ![w] = Idle]
        /\ leave_types' = leave_types
        /\ leave_balances' = Write(leave_balances, [a \in Dirty(x) |-> Merged(x, a)])
        /\ Submitted' = Submitted \cup {x.submission}
        /\ \A s \in Submitted \ {x.submission} :
              leave_requests'[s] = leave_requests[s] /\ audit_log'[s] = audit_log[s]
        /\ \/ /\ x.verdict = "Submitted" /\ x.phase = "Numbered"
              /\ leave_requests' = Insert(leave_requests, x.submission, x.row)
              /\ approval_steps' = Insert(approval_steps, x.submission,
                                          [k \in Stage |-> "Pending"])
              /\ audit_log' = Insert(audit_log, x.submission, <<"Submitted">>)
           \/ /\ x.verdict \in {"Approved", "Rejected", "Cancelled"}
              /\ x.phase = "Reading" /\ Unread(x) = {} /\ x.submission \in Submitted
              /\ leave_requests' = [leave_requests EXCEPT ![x.submission].status = x.verdict]
              /\ approval_steps' = IF x.verdict \in Decision
                      THEN [approval_steps EXCEPT ![x.submission][x.step] = x.verdict]
                      ELSE approval_steps
              /\ audit_log' = [audit_log EXCEPT ![x.submission] = Append(@, AuditEntry(x))]
    BY <1>0 DEF Writes
  <1>3. PICK new : new = x.submission
    OBVIOUS
  <1>4. new \in SubmissionId /\ x.submission = new
    BY <1>3 DEF Transaction
  <1>5. x.verdict = "Submitted" => x.submission \notin Submitted
    BY <1>1, <1>2, SubmissionClaims
  <1>6. PICK letters : letters = Letters(x) /\ letters = told[w] /\ letters \subseteq dispatched
    <2>1. Letters(x) \subseteq told[w]
      BY <1>2 DEF CommitWithRows, MayCommit, Unsent
    <2>2. told[w] \subseteq Letters(x) /\ told[w] \subseteq dispatched
      BY <1>2 DEF MailInv, MailClaim, Transaction, Idle
    <2> QED BY <2>1, <2>2
  <1>7. /\ notification_log' \in [DOMAIN notification_log' -> Nat]
        /\ \A l : Logged(l) \in Nat
        /\ \A l : Logged(l)' = Logged(l) + (IF l \in letters THEN 1 ELSE 0)
    BY <1>6, LogGrows DEF CommitWithRows
  <1>8. \A s \in Submitted \cup {new} : \A decision \in Decision :
              Recorded(s, decision)' =
                 (IF s \in Submitted THEN Recorded(s, decision) ELSE 0)
                 + (IF s = new /\ decision = x.verdict THEN 1 ELSE 0)
    BY <1>1, <1>2, <1>4, <1>5, CommitRecords
  <1>9. \A s \in Submitted, decision \in Decision : Recorded(s, decision) \in Nat
    <2>1. \A s \in Submitted : audit_log[s] \in Seq(AuditAction)
      BY <1>1 DEF SessionInv, TypeInv, TypeOK
    <2> QED BY <2>1, EntriesCounted DEF Recorded, Entries
  <1>10. /\ \A s \in Submitted : leave_requests'[s].substitute = leave_requests[s].substitute
         /\ new \notin Submitted => leave_requests'[new].substitute = x.row.substitute
    <2>1. leave_requests \in [Submitted -> LeaveRequestRow]
      BY <1>1 DEF SessionInv, TypeInv, TypeOK
    <2>2. CASE x.verdict = "Submitted"
      <3>1. leave_requests' = Insert(leave_requests, new, x.row) /\ new \notin Submitted
        BY <1>2, <1>4, <1>5, <2>2
      <3>2. leave_requests'[new] = x.row
        BY <3>1 DEF Insert, Write
      <3> QED BY <1>2, <1>4, <3>1, <3>2
    <2>3. CASE x.verdict # "Submitted"
      <3>1. leave_requests' = [leave_requests EXCEPT ![new].status = x.verdict] /\ new \in Submitted
        BY <1>2, <1>4, <2>3
      <3> QED BY <2>1, <3>1 DEF LeaveRequestRow
    <2> QED BY <2>2, <2>3
  <1>11. new \in Submitted <=> x.verdict # "Submitted"
    BY <1>2, <1>4, <1>5
  <1>12. /\ \A s, decision : decision \in Decision =>
                (<<s, decision>> \in letters <=> s = new /\ decision = x.verdict)
         /\ \A s : <<s, "substitute_notified">> \in letters <=>
                s = new /\ x.verdict = "Submitted" /\ x.row.substitute # NoOne
         /\ x.verdict = "Submitted" /\ Routed => <<new, "leave_stage1_pending">> \in letters
    BY <1>4, <1>6 DEF Letters, Decision
  <1>13. dispatched' = dispatched /\ told' = [told EXCEPT ![w] = {}]
    BY DEF CommitWithRows
  <1>14. NobodyUninformed'
    <2>1. ASSUME NEW s \in Submitted'
          PROVE  /\ leave_requests'[s].substitute # NoOne => <<s, "substitute_notified">> \in dispatched
                 /\ Routed => <<s, "leave_stage1_pending">> \in dispatched
                 /\ \A decision \in Decision :
                        Recorded(s, decision)' > 0 => <<s, decision>> \in dispatched
      <3>1. s \in Submitted \cup {new}
        BY <1>2, <1>4
      <3>2. s \in Submitted =>
               /\ leave_requests[s].substitute # NoOne => <<s, "substitute_notified">> \in dispatched
               /\ Routed => <<s, "leave_stage1_pending">> \in dispatched
               /\ \A decision \in Decision :
                      Recorded(s, decision) > 0 => <<s, decision>> \in dispatched
        BY DEF MailInv, NobodyUninformed
      <3>3. leave_requests'[s].substitute # NoOne => <<s, "substitute_notified">> \in dispatched
        BY <1>6, <1>10, <1>11, <1>12, <3>1, <3>2
      <3>4. Routed => <<s, "leave_stage1_pending">> \in dispatched
        BY <1>6, <1>11, <1>12, <3>1, <3>2
      <3>5. \A decision \in Decision : Recorded(s, decision)' > 0 => <<s, decision>> \in dispatched
        BY <1>6, <1>8, <1>9, <1>12, <3>1, <3>2
      <3> QED BY <3>3, <3>4, <3>5
    <2> QED BY <1>13, <2>1 DEF NobodyUninformed
  <1>15. LogExact'
    <2>1. ASSUME NEW s \in SubmissionId, NEW decision \in Decision
          PROVE  Logged(<<s, decision>>)' = IF s \in Submitted' THEN Recorded(s, decision)' ELSE 0
      <3>1. Logged(<<s, decision>>) = IF s \in Submitted THEN Recorded(s, decision) ELSE 0
        BY DEF MailInv, LogExact
      <3>2. Submitted' = Submitted \cup {new}
        BY <1>2, <1>4
      <3> QED BY <1>7, <1>8, <1>9, <1>11, <1>12, <3>1, <3>2
    <2>2. ASSUME NEW s \in SubmissionId
          PROVE  Logged(<<s, "substitute_notified">>)'
                   = IF s \in Submitted' /\ leave_requests'[s].substitute # NoOne THEN 1 ELSE 0
      <3>1. Logged(<<s, "substitute_notified">>)
                = IF s \in Submitted /\ leave_requests[s].substitute # NoOne THEN 1 ELSE 0
        BY DEF MailInv, LogExact
      <3>2. Submitted' = Submitted \cup {new}
        BY <1>2, <1>4
      <3> QED BY <1>7, <1>10, <1>11, <1>12, <3>1, <3>2
    <2> QED BY <2>1, <2>2 DEF LogExact
  <1>16. ASSUME NEW v \in Worker
         PROVE  IF session'[v] = Idle THEN told'[v] = {} ELSE MailClaim(session'[v], told'[v])
    BY <1>1, <1>2, <1>13 DEF MailInv, SessionInv
  <1>17. told' \in [Worker -> SUBSET dispatched']
    BY <1>13 DEF MailInv
  <1> QED BY <1>1, <1>7, <1>14, <1>15, <1>16, <1>17 DEF MailInv, MailClaim

\* Every step keeps the promises.
LEMMA MailStep == MailInv /\ [MailNext]_mailVars => MailInv'
  <1> SUFFICES ASSUME MailInv, [MailNext]_mailVars PROVE MailInv'
    OBVIOUS
  <1>1. ASSUME NEW w \in Worker, AdvanceWithMail(w) PROVE MailInv'
    BY <1>1, MailQuery, MailSends, MailCommits, MailOpens DEF AdvanceWithMail, FailOn, End
  <1>2. ASSUME NEW w \in Worker,
               \/ OpenAny(w) /\ UNCHANGED <<told, dispatched, notification_log>>
               \/ Crash(w) /\ End(w)
        PROVE  MailInv'
    BY <1>2, MailOpens DEF Crash, End
  <1>3. ASSUME NEW w \in Worker, Maintain(w), UNCHANGED <<told, dispatched, notification_log>>
        PROVE  MailInv'
    BY <1>3, MailMaintain
  <1>4. CASE UNCHANGED mailVars
    <2>1. KeyInv'
      BY <1>4, KeyStep DEF mailVars, MailInv, HoldInv
    <2> QED BY <1>4, <2>1 DEF mailVars, sessionVars, vars, MailInv, HoldInv, HoldClaim, NobodyUninformed,
                              LogExact, Submitted, Recorded, Logged
  <1> QED BY <1>1, <1>2, <1>3, <1>4 DEF MailNext

\* At the start nothing has been sent.
LEMMA MailStarts == MailInit => MailInv
  <1> SUFFICES ASSUME MailInit PROVE MailInv
    OBVIOUS
  <1>1. HoldInv
    BY KeyStarts DEF MailInit, SessionInit, HoldInv
  <1>2. Submitted = {}
    BY DEF MailInit, SessionInit, Init, Submitted
  <1> QED BY <1>1, <1>2 DEF MailInit, SessionInit, MailInv, NobodyUninformed, LogExact, Logged

\* From the first step on.
LEMMA MailInvariant == MailSpec => []MailInv
  BY MailStarts, MailStep, PTL DEF MailSpec

\* Whatever crashes, fails or races, what is stored has been told.
THEOREM NobodyUninformedTheorem == MailSpec => []NobodyUninformed
  BY MailInvariant, PTL DEF MailInv

\* notification_log has the verdicts and the substitutes of what is stored, one
\* row each, for any number of sessions.
THEOREM LogTellsTrailTheorem == MailSpec => []LogTellsTrail
  <1>1. MailInv => LogTellsTrail
    BY DEF MailInv, HoldInv, KeyInv, SessionInv, TypeInv, TypeOK, Submitted,
           LogExact, LogTellsTrail
  <1> QED BY <1>1, MailInvariant, PTL

\* A submission is announced once nothing but a crash can stop it.
THEOREM AnnouncedWillCommitTheorem == MailSpec => []AnnouncedWillCommit
  <1>1. MailInv => AnnouncedWillCommit
    <2> SUFFICES ASSUME MailInv, NEW w \in Worker, told[w] # {}, session[w].verdict = "Submitted"
                 PROVE  /\ Complete(session[w])
                        /\ Wanted(w) = {}
                        /\ \A l \in session[w].held : ~Taken(session[w], l)
      BY DEF AnnouncedWillCommit
    <2>1. session[w] # Idle /\ session[w] \in {Idle} \cup Transaction
      BY DEF MailInv, HoldInv, KeyInv, SessionInv
    <2>2. PICK x \in Transaction : /\ x = session[w] /\ MailClaim(x, told[w])
                                   /\ KeyClaim(x) /\ HoldClaim(x) /\ x.verdict = "Submitted"
      BY <2>1 DEF MailInv, HoldInv, KeyInv
    <2>3. Complete(x) /\ Flush(x) \subseteq x.held
      BY <2>2 DEF MailClaim
    <2>4. x.phase = "Numbered"
      BY <2>2, <2>3 DEF Complete
    <2>5. ASSUME NEW l \in x.held PROVE ~Taken(x, l)
      <3>1. x.held \subseteq Lock
        BY DEF Transaction
      <3>2. l[1] \in {"balance", "submission", "number"} => l = <<l[1], l[2]>>
        BY <3>1 DEF Lock
      <3>3. ~BalanceTaken(x, l)
        BY <2>2, <3>2 DEF BalanceTaken, HoldClaim
      <3>4. ~SubmissionTaken(l)
        <4>1. l[1] = "submission" => l[2] = x.submission /\ <<"submission", x.submission>> \in x.held
          BY <2>2, <3>2 DEF HoldClaim
        <4> QED BY <2>2, <4>1 DEF SubmissionTaken, KeyClaim
      <3>5. ~NumberTaken(l)
        <4>1. l[1] = "number" => /\ l = NumberOf(x) /\ NumberOf(x) \in x.held
          BY <2>2, <3>2 DEF HoldClaim
        <4> QED BY <2>2, <2>4, <4>1 DEF NumberTaken, KeyClaim, NumberOf
      <3> QED BY <3>3, <3>4, <3>5 DEF Taken
    <2> QED BY <2>2, <2>3, <2>5 DEF Wanted
  <1> QED BY <1>1, MailInvariant, PTL

-----------------------------------------------------------------------------
(***************************************************************************)
(* Mail changes nothing for the tables.                                    *)
(***************************************************************************)

\* With or without mail, a session takes the same steps.
LEMMA MailStepIsSessionStep == SessionInv /\ [MailNext]_mailVars => [SessionNext]_sessionVars
  <1> SUFFICES ASSUME SessionInv, MailNext PROVE [SessionNext]_sessionVars
    BY DEF mailVars
  <1>1. PICK w \in Worker :
            \/ OpenAny(w) \/ AdvanceWithMail(w) \/ Crash(w) \/ Maintain(w)
    BY DEF MailNext
  <1>2. CASE OpenAny(w) \/ Crash(w) \/ Maintain(w)
    BY <1>2 DEF SessionNext
  <1>3. CASE AdvanceWithMail(w)
    <2>1. CASE Written(w) \/ Queried(w) \/ CommitWithRows(w)
      BY <2>1 DEF Written, Queried, CommitWithRows, Waits, SessionNext, Advance
    <2>2. CASE \E letter \in Unsent(w) : Send(w, letter)
      BY <2>2 DEF Send
    <2>3. CASE FailOn(w, [v \in Worker |-> Waits(v)])
      <3>1. CASE session[w] # Idle
        BY <2>3, <3>1 DEF FailOn, Crash, SessionNext
      <3>2. CASE session[w] = Idle
        <4>1. session' = session /\ UNCHANGED vars
          BY <2>3, <3>2 DEF FailOn, RollBack, SessionInv
        <4> QED BY <4>1 DEF sessionVars
      <3> QED BY <3>1, <3>2
    <2> QED BY <1>3, <2>1, <2>2, <2>3 DEF AdvanceWithMail
  <1> QED BY <1>1, <1>2, <1>3

\* Sending mail before the commit costs the tables nothing: whatever is proved of
\* the sessions holds while they send, wait for the mail server or fail after it.
THEOREM MailTheorem ==
    MailSpec => /\ SessionSpec
                /\ [](SessionTypeOK /\ KeysDense /\ LastVerdictStands /\ SettledByRivals)
                /\ FirstSubmissionStands
                /\ ImplementsBook
  <1>1. MailInit => SessionInit
    BY DEF MailInit
  <1>2. MailSpec => SessionSpec
    BY <1>1, SessionStarts, SessionStep, MailStepIsSessionStep, PTL DEF MailSpec, SessionSpec
  <1> QED BY <1>2, SessionTypeTheorem, SessionKeysTheorem, LastVerdictTheorem, SettledByRivalsTheorem,
             FirstSubmissionTheorem, BookTheorem, PTL
=============================================================================
