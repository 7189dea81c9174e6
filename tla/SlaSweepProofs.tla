----------------------------- MODULE SlaSweepProofs -----------------------------
(***************************************************************************)
(* Theorems about SlaSweep for any staff, requests, server processes and   *)
(* number of sweeps cut short.                                             *)
(***************************************************************************)
EXTENDS SlaSweep, LeaveWorkflowProofs

-----------------------------------------------------------------------------
(***************************************************************************)
(* Type correctness.                                                       *)
(***************************************************************************)

Sweep == [running : BOOLEAN, todo : SUBSET (SubmissionId \X Stage),
          sent : SUBSET (SubmissionId \X Stage)]

\* A sweep works on steps that exist, and mails employees.
SlaInv ==
    /\ TypeInv
    /\ active \subseteq Employee
    /\ assigned \in [Submitted -> [Stage -> Employee \cup {NoOne}]]
    /\ overdue \subseteq Step /\ reminded \subseteq Step
    /\ sweep \in [Process -> Sweep]
    /\ \A p \in Process : sweep[p].todo \subseteq Step /\ sweep[p].sent \subseteq Step
    /\ \A step \in reminded : Assignee(step) \in Employee
    /\ \A p \in Process : \A step \in sweep[p].sent : Assignee(step) \in Employee

\* Steps are pairs of a submission id and a stage.
LEMMA StepsOfRequests == SlaInv => Step \subseteq SubmissionId \X Stage
  BY DEF SlaInv, TypeInv, TypeOK, Step

\* One process's run of the sweep changes, and nothing is mailed to nobody.
LEMMA OneSweep ==
    ASSUME SlaInv, UNCHANGED <<vars, assigned, active, overdue>>, reminded' \subseteq Step,
           NEW p \in Process, NEW x \in Sweep, sweep' = [sweep EXCEPT ![p] = x],
           x.todo \subseteq Step, x.sent \subseteq Step,
           \A step \in reminded' \cup x.sent : Assignee(step) \in Employee
    PROVE  SlaInv'
  <1>1. TypeInv'
    BY NextType DEF SlaInv
  <1>2. Step' = Step /\ Submitted' = Submitted
    BY DEF Step, Submitted, vars
  <1>3. \A step : Assignee(step)' = Assignee(step)
    BY DEF Assignee
  <1>4. \A q \in Process : sweep'[q] = IF q = p THEN x ELSE sweep[q]
    BY DEF SlaInv
  <1>5. sweep' \in [Process -> Sweep]
    BY DEF SlaInv
  <1> QED BY <1>1, <1>2, <1>3, <1>4, <1>5 DEF SlaInv

\* A new request is routed to employees or to nobody; the others keep theirs.
LEMMA SubmitRoutedStep == SlaInv /\ SubmitRouted => SlaInv'
  <1> SUFFICES ASSUME SlaInv, SubmitRouted PROVE SlaInv'
    OBVIOUS
  <1>1. /\ active \subseteq Employee /\ UNCHANGED <<active, overdue, reminded, sweep>>
        /\ assigned \in [Submitted -> [Stage -> Employee \cup {NoOne}]]
    BY DEF SubmitRouted, SlaInv
  <1>2. PICK s \in SubmissionId, e \in active, t \in LeaveType,
             sub \in Employee \cup {NoOne}, from \in Day, until \in Day :
            /\ \E n \in 1..(until - from + 1) : Submit(s, NewRequest(e, t, sub, from, until, n))
            /\ \E head \in Assignees(e, 1), dean \in Assignees(e, 2) :
                  assigned' = Insert(assigned, s,
                                     [k \in Stage |-> IF k = 1 THEN head ELSE dean])
    BY DEF SubmitRouted
  <1>3. SubmitAny
    BY <1>1, <1>2 DEF SubmitAny
  <1>4. TypeInv'
    BY <1>3, NextType DEF Next, SlaInv
  <1>5. Submitted' = Submitted \cup {s} /\ s \notin Submitted
    BY <1>2 DEF Submit, Validated, Insert, Write, Submitted
  <1>6. \A k : Assignees(e, k) \subseteq Employee \cup {NoOne}
    BY <1>1 DEF Assignees, Heads, Faculty
  <1>7. PICK row \in [Stage -> Employee \cup {NoOne}] : assigned' = Insert(assigned, s, row)
    BY <1>2, <1>6
  <1>8. /\ assigned' \in [Submitted' -> [Stage -> Employee \cup {NoOne}]]
        /\ \A x \in Submitted : assigned'[x] = assigned[x]
    BY <1>1, <1>5, <1>7 DEF Insert, Write
  <1>9. Step \subseteq Step'
    BY <1>5 DEF Step
  <1>10. \A step \in Step : Assignee(step)' = Assignee(step)
    BY <1>8 DEF Step, Assignee
  <1> QED BY <1>1, <1>4, <1>8, <1>9, <1>10 DEF SlaInv

\* A verdict or a cancellation changes no routing and no sweep.
LEMMA SettleStep == SlaInv /\ Settle => SlaInv'
  <1> SUFFICES ASSUME SlaInv, Settle PROVE SlaInv'
    OBVIOUS
  <1>1. DecideAny \/ CancelAny
    BY DEF Settle, DecideAny, CancelAny, SlaInv
  <1>2. TypeInv'
    BY <1>1, NextType DEF Next, SlaInv
  <1>3. Submitted' = Submitted
    BY <1>1 DEF DecideAny, CancelAny, Decide, Cancel, Submitted
  <1>4. UNCHANGED sweepVars
    BY DEF Settle
  <1> QED BY <1>2, <1>3, <1>4 DEF sweepVars, SlaInv, Step, Assignee

\* Every step keeps the invariant.
LEMMA SlaStep == SlaInv /\ [SlaNext]_slaVars => SlaInv'
  <1> SUFFICES ASSUME SlaInv, [SlaNext]_slaVars PROVE SlaInv'
    OBVIOUS
  <1>1. ASSUME UNCHANGED <<vars, assigned, reminded, sweep>>,
               active' \subseteq Employee, overdue' \subseteq Step
        PROVE  SlaInv'
    <2>1. TypeInv'
      BY <1>1, NextType DEF SlaInv
    <2> QED BY <1>1, <2>1 DEF SlaInv, vars, Submitted, Step, Assignee
  <1>2. ASSUME NEW admin \in Employee, NEW e \in Employee, ChangeStatus(admin, e)
        PROVE  SlaInv'
    BY <1>1, <1>2 DEF ChangeStatus, SlaInv
  <1>3. ASSUME NEW step \in Step, BecomeOverdue(step)
        PROVE  SlaInv'
    BY <1>1, <1>3 DEF BecomeOverdue, SlaInv
  <1>4. ASSUME NEW p \in Process, StartSweep(p)
        PROVE  SlaInv'
    <2> DEFINE x == [running |-> TRUE, todo |-> Found, sent |-> {}]
    <2>1. Found \subseteq Step
      BY DEF Found, SlaInv
    <2>2. x \in Sweep
      BY <2>1, StepsOfRequests DEF Sweep
    <2>3. /\ UNCHANGED <<vars, assigned, active, overdue, reminded>>
          /\ sweep' = [sweep EXCEPT ![p] = x]
      BY <1>4 DEF StartSweep
    <2>4. \A s \in reminded' \cup x.sent : Assignee(s) \in Employee
      BY <2>3 DEF SlaInv
    <2>5. reminded' \subseteq Step /\ x.todo \subseteq Step /\ x.sent \subseteq Step
      BY <2>1, <2>3 DEF SlaInv
    <2> HIDE DEF x
    <2> QED BY <2>2, <2>3, <2>4, <2>5, OneSweep
  <1>5. ASSUME NEW p \in Process, NEW step \in sweep[p].todo, Remind(p, step)
        PROVE  SlaInv'
    <2> DEFINE x == [running |-> TRUE, todo |-> Remaining(sweep[p], step),
                     sent |-> Mailed(sweep[p], step)]
    <2>1. /\ sweep[p] \in Sweep /\ sweep[p].todo \subseteq Step /\ sweep[p].sent \subseteq Step
          /\ step \in Step /\ Assignee(step) \in Employee \cup {NoOne}
          /\ \A s \in sweep[p].sent : Assignee(s) \in Employee
      BY DEF SlaInv, Step, Assignee
    <2>2. /\ x.todo \subseteq Step /\ x.sent \subseteq Step
          /\ \A s \in x.sent : Assignee(s) \in Employee
      BY <2>1 DEF Remaining, Mailed
    <2>3. x \in Sweep
      BY <2>2, StepsOfRequests DEF Sweep
    <2>4. /\ UNCHANGED <<vars, assigned, active, overdue, reminded>>
          /\ sweep' = [sweep EXCEPT ![p] = x]
      BY <1>5 DEF Remind
    <2>5. /\ reminded' \subseteq Step
          /\ \A s \in reminded' \cup x.sent : Assignee(s) \in Employee
      BY <2>2, <2>4 DEF SlaInv
    <2> HIDE DEF x
    <2> QED BY <2>2, <2>3, <2>4, <2>5, OneSweep
  <1>6. ASSUME NEW p \in Process, FinishSweep(p) \/ AbortSweep(p)
        PROVE  SlaInv'
    <2>1. Asleep \in Sweep /\ Asleep.todo = {} /\ Asleep.sent = {}
      BY DEF Asleep, Sweep
    <2>2. /\ UNCHANGED <<vars, assigned, active, overdue>>
          /\ sweep' = [sweep EXCEPT ![p] = Asleep]
          /\ reminded' = reminded \cup sweep[p].sent \/ reminded' = reminded
      BY <1>6 DEF FinishSweep, AbortSweep
    <2>3. /\ reminded' \subseteq Step
          /\ \A s \in reminded' : Assignee(s) \in Employee
      BY <2>2 DEF SlaInv
    <2> QED BY <2>1, <2>2, <2>3, OneSweep
  <1>7. CASE UNCHANGED slaVars
    BY <1>1, <1>7 DEF slaVars, sweepVars, SlaInv
  <1> QED BY <1>2, <1>3, <1>4, <1>5, <1>6, <1>7, SubmitRoutedStep, SettleStep
          DEF SlaNext, Proceed

\* Nothing is overdue or swept at first.
LEMMA InitSla == SlaInit => SlaInv
  <1> SUFFICES ASSUME SlaInit PROVE SlaInv
    OBVIOUS
  <1>1. TypeInv
    BY InitType DEF SlaInit
  <1>2. Asleep \in Sweep /\ Asleep.todo = {} /\ Asleep.sent = {}
    BY DEF Asleep, Sweep
  <1>3. Submitted = {}
    BY DEF SlaInit, Init, Submitted
  <1> QED BY <1>1, <1>2, <1>3 DEF SlaInit, SlaInv, Step

\* Only steps that exist are swept, and only employees are mailed, while staff
\* comes and goes.
THEOREM SlaTypeTheorem == SlaSpec => []SlaTypeOK
  <1>1. SlaInv => SlaTypeOK
    BY DEF SlaInv, SlaTypeOK
  <1> QED BY <1>1, InitSla, SlaStep, PTL DEF SlaSpec

-----------------------------------------------------------------------------
(***************************************************************************)
(* Reminders.                                                              *)
(***************************************************************************)

\* The processes that may still log a reminder of a step.
Holders(step) == {p \in Process : step \in sweep[p].todo \cup sweep[p].sent}

\* A process takes up a step only while nobody has committed its watermark: the
\* reminders logged and those that may follow are not more than the processes.
ReminderInv ==
    /\ DOMAIN notification_log = reminded
    /\ \A step \in reminded :
        /\ notification_log[step] \in Nat \ {0}
        /\ notification_log[step] + Cardinality(Holders(step)) <= Cardinality(Process)

\* Holders are processes, hence finitely many.
LEMMA HoldersCounted ==
    ASSUME NEW step
    PROVE  /\ IsFiniteSet(Holders(step)) /\ Cardinality(Holders(step)) \in Nat
           /\ Cardinality(Holders(step)) <= Cardinality(Process)
           /\ Cardinality(Process) \in Nat
           /\ \A p : Cardinality(Holders(step) \ {p}) =
                        IF p \in Holders(step) THEN Cardinality(Holders(step)) - 1
                        ELSE Cardinality(Holders(step))
  <1>1. IsFiniteSet(Process) /\ Holders(step) \subseteq Process
    BY SlaAssumption DEF Holders
  <1>2. /\ IsFiniteSet(Holders(step))
        /\ Cardinality(Holders(step)) <= Cardinality(Process)
    BY <1>1, FS_Subset
  <1>3. Cardinality(Holders(step)) \in Nat /\ Cardinality(Process) \in Nat
    BY <1>1, <1>2, FS_CardinalityType
  <1> QED BY <1>2, <1>3, FS_RemoveElement

\* No new process takes up a step that has its watermark, and nothing is logged.
LEMMA FewerHolders ==
    ASSUME ReminderInv, UNCHANGED <<reminded, notification_log>>,
           \A step \in reminded : Holders(step)' \subseteq Holders(step)
    PROVE  ReminderInv'
  <1> SUFFICES ASSUME NEW step \in reminded
               PROVE  notification_log[step] + Cardinality(Holders(step)') <= Cardinality(Process)
    BY DEF ReminderInv
  <1>1. /\ IsFiniteSet(Holders(step)) /\ Holders(step)' \subseteq Holders(step)
        /\ Cardinality(Holders(step)) \in Nat /\ Cardinality(Process) \in Nat
    BY HoldersCounted
  <1>2. /\ Cardinality(Holders(step)') <= Cardinality(Holders(step))
        /\ Cardinality(Holders(step)') \in Nat
    BY <1>1, FS_Subset, FS_CardinalityType
  <1>3. /\ notification_log[step] \in Nat
        /\ notification_log[step] + Cardinality(Holders(step)) <= Cardinality(Process)
    BY DEF ReminderInv
  <1> QED BY <1>1, <1>2, <1>3

\* The commit of a sweep takes its process from the holders of what it logs.
LEMMA FinishStep ==
    ASSUME SlaInv, ReminderInv, NEW p \in Process, FinishSweep(p)
    PROVE  ReminderInv'
  <1> DEFINE x == sweep[p]
  <1>1. /\ x.todo = {}
        /\ reminded' = reminded \cup x.sent
        /\ notification_log' =
            [step \in DOMAIN notification_log \cup x.sent |->
                (IF step \in DOMAIN notification_log THEN notification_log[step] ELSE 0)
                + (IF step \in x.sent THEN 1 ELSE 0)]
        /\ sweep' = [sweep EXCEPT ![p] = Asleep]
    BY DEF FinishSweep, Counted, Count
  <1>2. DOMAIN notification_log = reminded
    BY DEF ReminderInv
  <1>3. \A q \in Process : sweep'[q] = IF q = p THEN Asleep ELSE sweep[q]
    BY <1>1 DEF SlaInv
  <1> SUFFICES ASSUME NEW step \in reminded \cup x.sent
               PROVE  /\ notification_log'[step] \in Nat \ {0}
                      /\ notification_log'[step] + Cardinality(Holders(step)')
                            <= Cardinality(Process)
    BY <1>1, <1>2 DEF ReminderInv
  <1>4. Holders(step)' = Holders(step) \ {p}
    BY <1>3 DEF Holders, Asleep
  <1>5. p \in Holders(step) <=> step \in x.sent
    BY <1>1 DEF Holders
  <1>6. /\ Cardinality(Holders(step)) \in Nat /\ Cardinality(Process) \in Nat
        /\ Cardinality(Holders(step)) <= Cardinality(Process)
        /\ Cardinality(Holders(step)') = IF step \in x.sent
                                         THEN Cardinality(Holders(step)) - 1
                                         ELSE Cardinality(Holders(step))
    BY <1>4, <1>5, HoldersCounted
  <1>7. notification_log'[step] = (IF step \in reminded THEN notification_log[step] ELSE 0)
                                  + (IF step \in x.sent THEN 1 ELSE 0)
    BY <1>1, <1>2
  <1>8. step \in reminded =>
            /\ notification_log[step] \in Nat \ {0}
            /\ notification_log[step] + Cardinality(Holders(step)) <= Cardinality(Process)
    BY DEF ReminderInv
  <1> QED BY <1>6, <1>7, <1>8

\* Every step keeps the count.
LEMMA ReminderStep == SlaInv /\ ReminderInv /\ [SlaNext]_slaVars => ReminderInv'
  <1> SUFFICES ASSUME SlaInv, ReminderInv, [SlaNext]_slaVars PROVE ReminderInv'
    OBVIOUS
  <1>1. ASSUME UNCHANGED <<reminded, notification_log, sweep>>
        PROVE  ReminderInv'
    BY <1>1, FewerHolders DEF Holders
  <1>2. ASSUME NEW p \in Process, NEW x, UNCHANGED <<reminded, notification_log>>,
               sweep' = [sweep EXCEPT ![p] = x],
               (x.todo \cup x.sent) \cap reminded \subseteq sweep[p].todo \cup sweep[p].sent
        PROVE  ReminderInv'
    <2>1. \A q \in Process : sweep'[q] = IF q = p THEN x ELSE sweep[q]
      BY <1>2 DEF SlaInv
    <2>2. \A step \in reminded : Holders(step)' \subseteq Holders(step)
      BY <1>2, <2>1 DEF Holders
    <2> QED BY <1>2, <2>2, FewerHolders
  <1>3. ASSUME NEW p \in Process, StartSweep(p)
        PROVE  ReminderInv'
    <2> DEFINE x == [running |-> TRUE, todo |-> Found, sent |-> {}]
    <2>1. (x.todo \cup x.sent) \cap reminded = {}
      BY DEF Found
    <2>2. UNCHANGED <<reminded, notification_log>> /\ sweep' = [sweep EXCEPT ![p] = x]
      BY <1>3 DEF StartSweep
    <2> QED BY <1>2, <2>1, <2>2
  <1>4. ASSUME NEW p \in Process, NEW step \in sweep[p].todo, Remind(p, step)
        PROVE  ReminderInv'
    <2> DEFINE x == [running |-> TRUE, todo |-> Remaining(sweep[p], step),
                     sent |-> Mailed(sweep[p], step)]
    <2>1. x.todo \cup x.sent \subseteq sweep[p].todo \cup sweep[p].sent
      BY DEF Remaining, Mailed
    <2>2. UNCHANGED <<reminded, notification_log>> /\ sweep' = [sweep EXCEPT ![p] = x]
      BY <1>4 DEF Remind
    <2> QED BY <1>2, <2>1, <2>2
  <1>5. ASSUME NEW p \in Process, AbortSweep(p)
        PROVE  ReminderInv'
    <2>1. Asleep.todo \cup Asleep.sent = {}
      BY DEF Asleep
    <2>2. UNCHANGED <<reminded, notification_log>> /\ sweep' = [sweep EXCEPT ![p] = Asleep]
      BY <1>5 DEF AbortSweep
    <2> QED BY <1>2, <2>1, <2>2
  <1>6. CASE SubmitRouted \/ Settle \/ UNCHANGED slaVars
    BY <1>1, <1>6 DEF SubmitRouted, Settle, slaVars, sweepVars
  <1>7. CASE \/ \E admin, e \in Employee : ChangeStatus(admin, e)
             \/ \E step \in Step : BecomeOverdue(step)
    BY <1>1, <1>7 DEF ChangeStatus, BecomeOverdue
  <1> QED BY <1>3, <1>4, <1>5, <1>6, <1>7, FinishStep DEF SlaNext, Proceed

\* A sweep mails a step once.  What has left is on record, or about to be, or
\* was sent by a sweep that was cut short, of which there are no more than aborts.
SentInv ==
    /\ aborts \in Nat
    /\ \A p \in Process : /\ ~sweep[p].running => sweep[p].sent = {}
                          /\ sweep[p].todo \cap sweep[p].sent = {}
    /\ \A step \in SubmissionId \X Stage :
            Count(dispatched, step) \in OnRecord(step)..(OnRecord(step) + aborts)

One(b) == IF b THEN 1 ELSE 0

\* A reminder adds one to the count of its step and nothing to the others.
LEMMA CountedOnce ==
    ASSUME NEW table, NEW steps, NEW step, Count(table, step) \in Nat
    PROVE  Count(Counted(table, steps), step) = Count(table, step) + One(step \in steps)
  BY DEF Count, Counted, One

\* What the log counts of a step is a number.
LEMMA LogCounts == ASSUME ReminderInv, NEW step PROVE Count(notification_log, step) \in Nat
  BY DEF ReminderInv, Count

\* The processes that have mailed a step are finitely many.
LEMMA SendingFinite ==
    ASSUME NEW step
    PROVE  IsFiniteSet(Sending(step)) /\ Cardinality(Sending(step)) \in Nat
  <1>1. IsFiniteSet(Process) /\ Sending(step) \subseteq Process
    BY SlaAssumption DEF Sending
  <1> QED BY <1>1, FS_Subset, FS_CardinalityType

\* One process's run of the sweep changes: it joins those that have mailed the
\* step, leaves them, or does neither.
LEMMA SendingChanges ==
    ASSUME SlaInv, NEW p \in Process, NEW x, sweep' = [sweep EXCEPT ![p] = x], NEW step
    PROVE  /\ Cardinality(Sending(step)') \in Nat
           /\ Cardinality(Sending(step)') = Cardinality(Sending(step))
                + One(step \in x.sent) - One(step \in sweep[p].sent)
  <1>1. \A q \in Process : sweep'[q] = IF q = p THEN x ELSE sweep[q]
    BY DEF SlaInv
  <1>2. /\ step \in x.sent => Sending(step)' = Sending(step) \cup {p}
        /\ step \notin x.sent => Sending(step)' = Sending(step) \ {p}
        /\ p \in Sending(step) <=> step \in sweep[p].sent
    BY <1>1 DEF Sending
  <1>3. IsFiniteSet(Sending(step)) /\ Cardinality(Sending(step)) \in Nat
    BY SendingFinite
  <1>4. CASE step \in x.sent
    <2>1. /\ IsFiniteSet(Sending(step)')
          /\ Cardinality(Sending(step)') = IF p \in Sending(step)
                                           THEN Cardinality(Sending(step))
                                           ELSE Cardinality(Sending(step)) + 1
      BY <1>2, <1>3, <1>4, FS_AddElement
    <2> QED BY <1>2, <1>3, <1>4, <2>1 DEF One
  <1>5. CASE step \notin x.sent
    <2>1. /\ IsFiniteSet(Sending(step)')
          /\ Cardinality(Sending(step)') = IF p \in Sending(step)
                                           THEN Cardinality(Sending(step)) - 1
                                           ELSE Cardinality(Sending(step))
      BY <1>2, <1>3, <1>5, FS_RemoveElement
    <2>2. Cardinality(Sending(step)') \in Nat
      BY <2>1, FS_CardinalityType
    <2> QED BY <1>2, <1>3, <1>5, <2>1, <2>2 DEF One
  <1> QED BY <1>4, <1>5

\* The loop mails a step, or passes it over.
LEMMA RemindSends ==
    ASSUME SlaInv, ReminderInv, SentInv, NEW p \in Process, NEW t \in sweep[p].todo,
           Remind(p, t)
    PROVE  SentInv'
  <1> DEFINE x == [running |-> TRUE, todo |-> Remaining(sweep[p], t),
                   sent |-> Mailed(sweep[p], t)]
  <1>1. /\ sweep' = [sweep EXCEPT ![p] = x]
        /\ dispatched' = Counted(dispatched, x.sent \ sweep[p].sent)
        /\ UNCHANGED <<notification_log, aborts>>
    BY DEF Remind
  <1>2. /\ sweep[p].sent \subseteq x.sent /\ x.todo \cap x.sent = {} /\ x.running
        /\ \A q \in Process : sweep'[q] = IF q = p THEN x ELSE sweep[q]
    BY <1>1 DEF SlaInv, SentInv, Remaining, Mailed
  <1> HIDE DEF x
  <1>3. ASSUME NEW step \in SubmissionId \X Stage
        PROVE  Count(dispatched', step) \in OnRecord(step)'..(OnRecord(step)' + aborts')
    <2>1. /\ Count(notification_log, step) \in Nat /\ aborts \in Nat
          /\ Cardinality(Sending(step)) \in Nat
          /\ Count(dispatched, step) \in OnRecord(step)..(OnRecord(step) + aborts)
      BY LogCounts, SendingFinite DEF SentInv
    <2>2. Count(dispatched, step) \in Nat
      BY <2>1 DEF OnRecord
    <2>3. Count(dispatched', step) = Count(dispatched, step)
                                     + One(step \in x.sent \ sweep[p].sent)
      BY <1>1, <2>2, CountedOnce
    <2>4. Cardinality(Sending(step)') = Cardinality(Sending(step))
                + One(step \in x.sent) - One(step \in sweep[p].sent)
      BY <1>1, SendingChanges
    <2>5. One(step \in x.sent \ sweep[p].sent)
            = One(step \in x.sent) - One(step \in sweep[p].sent)
      BY <1>2 DEF One
    <2>6. One(step \in x.sent \ sweep[p].sent) \in Nat
      BY DEF One
    <2>7. OnRecord(step)' = OnRecord(step) + One(step \in x.sent \ sweep[p].sent)
      BY <1>1, <2>1, <2>4, <2>5, <2>6 DEF OnRecord, One
    <2> QED BY <1>1, <2>1, <2>2, <2>3, <2>6, <2>7 DEF OnRecord
  <1> QED BY <1>1, <1>2, <1>3 DEF SentInv

\* A sweep ends: with its commit what it has sent is on record, without it one
\* more sweep was cut short.
LEMMA SweepEnds ==
    ASSUME SlaInv, ReminderInv, SentInv, NEW p \in Process, FinishSweep(p) \/ AbortSweep(p)
    PROVE  SentInv'
  <1>1. sweep' = [sweep EXCEPT ![p] = Asleep] /\ UNCHANGED dispatched
    BY DEF FinishSweep, AbortSweep
  <1>2. /\ Asleep.todo \cap Asleep.sent = {} /\ Asleep.sent = {}
        /\ \A q \in Process : sweep'[q] = IF q = p THEN Asleep ELSE sweep[q]
    BY <1>1 DEF Asleep, SlaInv
  <1>3. \/ notification_log' = Counted(notification_log, sweep[p].sent) /\ aborts' = aborts
        \/ notification_log' = notification_log /\ aborts' = aborts + 1
    BY DEF FinishSweep, AbortSweep
  <1>4. ASSUME NEW step \in SubmissionId \X Stage
        PROVE  Count(dispatched', step) \in OnRecord(step)'..(OnRecord(step)' + aborts')
    <2>1. /\ Count(notification_log, step) \in Nat /\ aborts \in Nat
          /\ Cardinality(Sending(step)) \in Nat
          /\ Count(dispatched, step) \in OnRecord(step)..(OnRecord(step) + aborts)
      BY LogCounts, SendingFinite DEF SentInv
    <2>2. /\ Cardinality(Sending(step)') \in Nat
          /\ Cardinality(Sending(step)') = Cardinality(Sending(step))
                + One(step \in Asleep.sent) - One(step \in sweep[p].sent)
      BY <1>1, SendingChanges
    <2>3. Cardinality(Sending(step)') = Cardinality(Sending(step)) - One(step \in sweep[p].sent)
      BY <1>2, <2>1, <2>2 DEF One
    <2>4. Count(dispatched', step) = Count(dispatched, step) /\ Count(dispatched, step) \in Nat
      BY <1>1, <2>1 DEF OnRecord
    <2>5. CASE notification_log' = Counted(notification_log, sweep[p].sent) /\ aborts' = aborts
      <3>1. Count(notification_log', step) = Count(notification_log, step)
                                             + One(step \in sweep[p].sent)
        BY <2>1, <2>5, CountedOnce
      <3>2. OnRecord(step)' = OnRecord(step)
        BY <2>1, <2>3, <3>1 DEF OnRecord, One
      <3> QED BY <2>1, <2>4, <2>5, <3>2
    <2>6. CASE notification_log' = notification_log /\ aborts' = aborts + 1
      <3>1. OnRecord(step)' = OnRecord(step) - One(step \in sweep[p].sent)
        BY <2>1, <2>3, <2>6 DEF OnRecord, One
      <3>2. OnRecord(step) \in Nat
        BY <2>1 DEF OnRecord
      <3> QED BY <2>1, <2>4, <2>6, <3>1, <3>2 DEF One
    <2> QED BY <1>3, <2>5, <2>6
  <1>5. aborts' \in Nat
    BY <1>3 DEF SentInv
  <1> QED BY <1>2, <1>4, <1>5 DEF SentInv

\* Every step keeps account of what was sent.
LEMMA SentStep == SlaInv /\ ReminderInv /\ SentInv /\ [SlaNext]_slaVars => SentInv'
  <1> SUFFICES ASSUME SlaInv, ReminderInv, SentInv, [SlaNext]_slaVars PROVE SentInv'
    OBVIOUS
  <1>1. ASSUME UNCHANGED <<dispatched, notification_log, aborts>>,
               \A step : Sending(step)' = Sending(step),
               \A p \in Process : /\ ~sweep'[p].running => sweep'[p].sent = {}
                                  /\ sweep'[p].todo \cap sweep'[p].sent = {}
        PROVE  SentInv'
    BY <1>1 DEF SentInv, OnRecord
  <1>2. ASSUME UNCHANGED <<dispatched, notification_log, aborts, sweep>> PROVE SentInv'
    BY <1>1, <1>2 DEF SentInv, Sending
  <1>3. ASSUME NEW p \in Process, StartSweep(p) PROVE SentInv'
    <2>1. \A q \in Process :
            sweep'[q] = IF q = p THEN [running |-> TRUE, todo |-> Found, sent |-> {}]
                        ELSE sweep[q]
      BY <1>3 DEF StartSweep, SlaInv
    <2>2. sweep[p].sent = {}
      BY <1>3 DEF StartSweep, SentInv
    <2>3. \A step : Sending(step)' = Sending(step)
      BY <2>1, <2>2 DEF Sending
    <2>4. UNCHANGED <<dispatched, notification_log, aborts>>
      BY <1>3 DEF StartSweep
    <2> QED BY <1>1, <2>1, <2>3, <2>4 DEF SentInv
  <1>4. CASE SubmitRouted \/ Settle \/ UNCHANGED slaVars
    BY <1>2, <1>4 DEF SubmitRouted, Settle, slaVars, sweepVars
  <1>5. CASE \/ \E admin, e \in Employee : ChangeStatus(admin, e)
             \/ \E step \in Step : BecomeOverdue(step)
    BY <1>2, <1>5 DEF ChangeStatus, BecomeOverdue
  <1> QED BY <1>3, <1>4, <1>5, RemindSends, SweepEnds DEF SlaNext, Proceed

\* The two counts hold in every state.
LEMMA RemindersCounted == SlaSpec => [](SlaInv /\ ReminderInv /\ SentInv)
  <1>1. SlaInit => ReminderInv
    BY DEF SlaInit, ReminderInv
  <1>2. SlaInit => SentInv
    <2> SUFFICES ASSUME SlaInit PROVE SentInv
      OBVIOUS
    <2>1. /\ \A p \in Process : sweep[p].sent = {} /\ sweep[p].todo = {}
          /\ aborts = 0
          /\ \A step : Count(dispatched, step) = 0 /\ Count(notification_log, step) = 0
      BY DEF SlaInit, Asleep, Count
    <2>2. \A step : Sending(step) = {}
      BY <2>1 DEF Sending
    <2>3. \A step : OnRecord(step) = 0
      BY <2>1, <2>2, FS_EmptySet DEF OnRecord
    <2> QED BY <2>1, <2>3 DEF SentInv
  <1> QED BY <1>1, <1>2, InitSla, SlaStep, ReminderStep, SentStep, PTL DEF SlaSpec

\* Who has mailed a step has no other reminder of it to commit.
LEMMA SendingHolds ==
    ASSUME NEW step PROVE Cardinality(Sending(step)) <= Cardinality(Holders(step))
  <1>1. Sending(step) \subseteq Holders(step) /\ IsFiniteSet(Holders(step))
    BY HoldersCounted DEF Sending, Holders
  <1> QED BY <1>1, FS_Subset

\* A step has reminders in the log exactly when it has its watermark; those on
\* record are one a process at most and those sent beside them one a sweep that
\* was cut short, over any number of steps, processes and sweeps.
THEOREM RemindersBoundedTheorem == SlaSpec => []RemindersBounded
  <1>1. SlaInv /\ ReminderInv /\ SentInv => RemindersBounded
    <2> SUFFICES ASSUME SlaInv, ReminderInv, SentInv, NEW step \in Step
                 PROVE  /\ OnRecord(step) <= Cardinality(Process)
                        /\ Count(dispatched, step)
                                \in OnRecord(step)..(OnRecord(step) + aborts)
      BY DEF RemindersBounded, ReminderInv
    <2>1. step \in SubmissionId \X Stage
      BY StepsOfRequests
    <2>2. /\ Cardinality(Holders(step)) \in Nat /\ Cardinality(Process) \in Nat
          /\ Cardinality(Holders(step)) <= Cardinality(Process)
          /\ Cardinality(Sending(step)) \in Nat
          /\ Cardinality(Sending(step)) <= Cardinality(Holders(step))
      BY HoldersCounted, SendingFinite, SendingHolds
    <2>3. CASE step \in reminded
      <3>1. /\ Count(notification_log, step) \in Nat
            /\ Count(notification_log, step) + Cardinality(Holders(step))
                    <= Cardinality(Process)
        BY <2>3 DEF ReminderInv, Count
      <3> QED BY <2>1, <2>2, <3>1 DEF OnRecord, SentInv
    <2>4. CASE step \notin reminded
      <3>1. Count(notification_log, step) = 0
        BY <2>4 DEF ReminderInv, Count
      <3> QED BY <2>1, <2>2, <3>1 DEF OnRecord, SentInv
    <2> QED BY <2>3, <2>4
  <1> QED BY <1>1, RemindersCounted, PTL

\* With the one process of the Dockerfile a step that has its watermark has exactly
\* one reminder in the log, however many of the sweeps were cut short, and while
\* none was, exactly one has been sent, as scheduler.py says.
THEOREM OneProcessTheorem ==
    ASSUME NEW server, Process = {server}
    PROVE  SlaSpec => [](\A step \in reminded :
                            /\ notification_log[step] = 1
                            /\ aborts = 0 => dispatched[step] = 1)
  <1>1. Cardinality(Process) = 1
    BY FS_Singleton
  <1>2. SlaInv /\ ReminderInv /\ SentInv =>
            \A step \in reminded : /\ notification_log[step] = 1
                                   /\ aborts = 0 => dispatched[step] = 1
    <2> SUFFICES ASSUME SlaInv, ReminderInv, SentInv, NEW step \in reminded
                 PROVE  /\ notification_log[step] = 1
                        /\ aborts = 0 => dispatched[step] = 1
      OBVIOUS
    <2>1. step \in SubmissionId \X Stage
      BY StepsOfRequests DEF SlaInv
    <2>2. /\ Cardinality(Holders(step)) \in Nat /\ Cardinality(Sending(step)) \in Nat
          /\ Cardinality(Sending(step)) <= Cardinality(Holders(step))
      BY HoldersCounted, SendingFinite, SendingHolds
    <2>3. /\ notification_log[step] \in Nat \ {0}
          /\ notification_log[step] + Cardinality(Holders(step)) <= 1
          /\ Count(notification_log, step) = notification_log[step]
      BY <1>1 DEF ReminderInv, Count
    <2>4. OnRecord(step) = 1 /\ notification_log[step] = 1
      BY <2>2, <2>3 DEF OnRecord
    <2>5. aborts = 0 => Count(dispatched, step) = 1
      BY <2>1, <2>4 DEF SentInv
    <2> QED BY <2>4, <2>5 DEF Count
  <1> QED BY <1>2, RemindersCounted, PTL

-----------------------------------------------------------------------------
(***************************************************************************)
(* What EveryOverdueStepReminded rests on: a sweep takes up every step     *)
(* that is due, loses none of them, and ends.                              *)
(***************************************************************************)

Held(p) == sweep[p].todo \cup sweep[p].sent

\* The turns of its loop a sweep has before it, and its commit.
SweepWork(p) == IF sweep[p].running THEN Cardinality(sweep[p].todo) + 1 ELSE 0

TakesUpAll(p) ==
    ~sweep[p].running /\ sweep'[p].running =>
        \A s \in SubmissionId, k \in Stage : Unreminded(s, k) => <<s, k>> \in Held(p)'

LosesNone(p) ==
    sweep[p].running /\ ~AbortSweep(p) =>
        \A step \in Held(p) : Assignee(step) # NoOne => step \in Held(p)' \cup reminded'

GetsOn(p) ==
    sweep[p].running =>
        /\ SweepWork(p)' <= SweepWork(p)
        /\ Proceed(p) => SweepWork(p)' < SweepWork(p)

\* A sweep has finitely many steps to go through.
LEMMA SweepsAreFinite ==
    ASSUME SlaInv, NEW p \in Process
    PROVE  IsFiniteSet(sweep[p].todo) /\ Cardinality(sweep[p].todo) \in Nat
  <1>1. IsFiniteSet({1}) /\ IsFiniteSet({1} \cup {2}) /\ {1} \cup {2} = Stage
    BY FS_Singleton, FS_AddElement DEF Stage
  <1>2. IsFiniteSet(Submitted)
    BY DEF SlaInv, TypeInv
  <1>3. IsFiniteSet(Step)
    BY <1>1, <1>2, FS_Product DEF Step
  <1> QED BY <1>3, FS_Subset, FS_CardinalityType DEF SlaInv

\* A process that does not sweep has nothing in hand.
Rested == \A p \in Process : ~sweep[p].running => sweep[p].todo = {}

LEMMA RestedStep == SlaInv /\ Rested /\ [SlaNext]_slaVars => Rested'
  <1> SUFFICES ASSUME SlaInv, Rested, [SlaNext]_slaVars PROVE Rested'
    OBVIOUS
  <1>1. UNCHANGED sweep => Rested'
    BY DEF Rested
  <1>2. ASSUME NEW p \in Process, NEW x, x.running \/ x.todo = {},
               sweep' = [sweep EXCEPT ![p] = x]
        PROVE  Rested'
    BY <1>2 DEF Rested, SlaInv
  <1>3. ASSUME NEW p \in Process, Proceed(p) \/ AbortSweep(p)
        PROVE  Rested'
    BY <1>2, <1>3 DEF Proceed, StartSweep, Remind, FinishSweep, AbortSweep, Asleep
  <1> QED BY <1>1, <1>3 DEF SlaNext, slaVars, sweepVars, SubmitRouted, Settle, ChangeStatus,
                            BecomeOverdue

\* One turn of the loop.
LEMMA RemindGoesOn ==
    ASSUME SlaInv, NEW p \in Process, NEW step \in sweep[p].todo, Remind(p, step),
           sweep[p].running
    PROVE  LosesNone(p) /\ GetsOn(p)
  <1> DEFINE x == [running |-> TRUE, todo |-> Remaining(sweep[p], step),
                   sent |-> Mailed(sweep[p], step)]
  <1>1. sweep'[p] = x /\ UNCHANGED assigned
    BY DEF Remind, SlaInv
  <1>2. /\ Cardinality(sweep[p].todo \ {step}) = Cardinality(sweep[p].todo) - 1
        /\ Cardinality(sweep[p].todo) \in Nat
    BY SweepsAreFinite, FS_RemoveElement
  <1>3. GetsOn(p)
    BY <1>1, <1>2 DEF GetsOn, SweepWork, Remaining
  <1>4. LosesNone(p)
    BY <1>1 DEF LosesNone, Held, Remaining, Mailed
  <1> QED BY <1>3, <1>4

\* Whatever happens, each sweep goes on as it should.
LEMMA SweepStep ==
    ASSUME SlaInv, Rested, [SlaNext]_slaVars, NEW p \in Process
    PROVE  TakesUpAll(p) /\ LosesNone(p) /\ GetsOn(p)
  <1>1. Cardinality(sweep[p].todo) \in Nat
    BY SweepsAreFinite
  <1>2. ASSUME sweep'[p] = sweep[p], ~Proceed(p)
        PROVE  TakesUpAll(p) /\ LosesNone(p) /\ GetsOn(p)
    BY <1>1, <1>2 DEF TakesUpAll, LosesNone, GetsOn, Held, SweepWork
  <1>3. CASE StartSweep(p)
    <2>1. ~sweep[p].running /\ sweep'[p] = [running |-> TRUE, todo |-> Found, sent |-> {}]
      BY <1>3 DEF StartSweep, SlaInv
    <2>2. \A s \in SubmissionId, k \in Stage : Unreminded(s, k) => <<s, k>> \in Found
      BY DEF Unreminded, Found, StatusOf
    <2> QED BY <2>1, <2>2 DEF TakesUpAll, LosesNone, GetsOn, Held
  <1>4. CASE ~StartSweep(p) /\ Proceed(p) /\ sweep[p].running
    <2>1. ASSUME NEW step \in sweep[p].todo, Remind(p, step)
          PROVE  TakesUpAll(p) /\ LosesNone(p) /\ GetsOn(p)
      BY <1>4, <2>1, RemindGoesOn DEF TakesUpAll
    <2>2. CASE FinishSweep(p)
      <3>1. /\ sweep[p].todo = {} /\ reminded' = reminded \cup sweep[p].sent
            /\ sweep'[p] = Asleep
        BY <2>2 DEF FinishSweep, SlaInv
      <3>2. SweepWork(p)' = 0 /\ SweepWork(p) > 0
        BY <1>1, <1>4, <3>1 DEF SweepWork, Asleep
      <3>3. SweepWork(p) \in Nat
        BY <1>1 DEF SweepWork
      <3> QED BY <1>4, <3>1, <3>2, <3>3 DEF TakesUpAll, LosesNone, GetsOn, Held
    <2> QED BY <1>4, <2>1, <2>2 DEF Proceed
  <1>5. CASE AbortSweep(p) /\ ~Proceed(p)
    <2>1. sweep'[p] = Asleep
      BY <1>5 DEF AbortSweep, SlaInv
    <2> QED BY <1>1, <1>5, <2>1 DEF TakesUpAll, LosesNone, GetsOn, SweepWork, Asleep
  <1>6. CASE ~Proceed(p) /\ ~AbortSweep(p)
    <2>1. sweep'[p] = sweep[p]
      <3>1. ASSUME NEW q \in Process, q # p, Proceed(q) \/ AbortSweep(q)
            PROVE  sweep'[p] = sweep[p]
        BY <3>1 DEF Proceed, StartSweep, Remind, FinishSweep, AbortSweep, SlaInv
      <3>2. \/ \E q \in Process : Proceed(q) \/ AbortSweep(q)
            \/ UNCHANGED sweep
        BY DEF SlaNext, slaVars, sweepVars, SubmitRouted, Settle, ChangeStatus, BecomeOverdue
      <3> QED BY <1>6, <3>1, <3>2
    <2> QED BY <1>2, <1>6, <2>1
  <1>7. Proceed(p) => StartSweep(p) \/ sweep[p].running
    BY DEF Proceed, Rested, Remind, FinishSweep
  <1> QED BY <1>3, <1>4, <1>5, <1>6, <1>7

\* A sweep takes up every step that is overdue, assigned and not reminded of; as
\* long as it is not cut short none of them is lost before its watermark is
\* committed, whatever is decided meanwhile and whatever other processes sweep;
\* and each turn leaves it less to do, so that it ends.
THEOREM SweepTheorem ==
    SlaSpec => [][\A p \in Process : TakesUpAll(p) /\ LosesNone(p) /\ GetsOn(p)]_slaVars
  <1>1. SlaInit => Rested
    BY DEF SlaInit, Rested, Asleep
  <1>2. SlaInv /\ Rested /\ [SlaNext]_slaVars =>
            [\A p \in Process : TakesUpAll(p) /\ LosesNone(p) /\ GetsOn(p)]_slaVars
    BY SweepStep
  <1> QED BY <1>1, <1>2, InitSla, SlaStep, RestedStep, PTL DEF SlaSpec

-----------------------------------------------------------------------------
(***************************************************************************)
(* The leave engine behind the routing.                                    *)
(***************************************************************************)

\* Routing, staff changes and sweeps leave the engine alone: what it does with
\* requests while they go on is one of its own steps, or none.
LEMMA EngineStep == SlaInv /\ [SlaNext]_slaVars => [Next]_vars
  <1> SUFFICES ASSUME SlaInv, [SlaNext]_slaVars PROVE [Next]_vars
    OBVIOUS
  <1>1. active \subseteq Employee
    BY DEF SlaInv
  <1>2. CASE SubmitRouted
    BY <1>1, <1>2 DEF SubmitRouted, SubmitAny, Next
  <1>3. CASE Settle
    BY <1>1, <1>3 DEF Settle, DecideAny, CancelAny, Next
  <1>4. ASSUME NEW p \in Process, Proceed(p) \/ AbortSweep(p)
        PROVE  UNCHANGED vars
    BY <1>4 DEF Proceed, StartSweep, Remind, FinishSweep, AbortSweep
  <1>5. CASE \/ \E admin, e \in Employee : ChangeStatus(admin, e)
             \/ \E step \in Step : BecomeOverdue(step)
             \/ UNCHANGED slaVars
    BY <1>5 DEF ChangeStatus, BecomeOverdue, slaVars
  <1> QED BY <1>2, <1>3, <1>4, <1>5 DEF SlaNext

\* Whoever is asked to decide, and whatever is sent, the requests behave as the
\* engine promises: no two overlap, no two colleagues cover one another, keys have
\* no gap, the trail tells the status, and a decision is final.
THEOREM SlaEngineTheorem ==
    SlaSpec => /\ Spec
               /\ [](NoDoubleBooking /\ NoCoverCycle /\ KeysDense /\ AuditTellsStatus)
               /\ DecisionIsFinal
  <1>1. SlaInit => Init
    BY DEF SlaInit
  <1>2. SlaSpec => Spec
    BY <1>1, InitSla, SlaStep, EngineStep, PTL DEF SlaSpec, Spec
  <1> QED BY <1>2, NoDoubleBookingTheorem, NoCoverCycleTheorem, KeysDenseTheorem,
             AuditTellsStatusTheorem, DecisionIsFinalTheorem, PTL

\* A request is settled through one of its steps at most: what a sweep can find of a
\* settled request is a step of a cancelled one, or the step that did not carry
\* the verdict.
THEOREM LeftoverStepTheorem ==
    SlaSpec => [](\A step \in Found :
                    \/ leave_requests[step[1]].status \in {"Pending", "Cancelled"}
                    \/ \E k \in Stage \ {step[2]} :
                            approval_steps[step[1]][k] = leave_requests[step[1]].status)
  <1>1. SlaInv /\ AuditTellsStatus =>
            \A step \in Found :
                \/ leave_requests[step[1]].status \in {"Pending", "Cancelled"}
                \/ \E k \in Stage \ {step[2]} :
                        approval_steps[step[1]][k] = leave_requests[step[1]].status
    <2> SUFFICES ASSUME SlaInv, AuditTellsStatus, NEW step \in Found,
                        leave_requests[step[1]].status \notin {"Pending", "Cancelled"}
                 PROVE  \E k \in Stage \ {step[2]} :
                            approval_steps[step[1]][k] = leave_requests[step[1]].status
      OBVIOUS
    <2>1. PICK s \in Submitted, j \in Stage : step = <<s, j>>
      BY DEF Found, SlaInv, Step
    <2>2. approval_steps[s][j] = "Pending"
      BY <2>1 DEF Found, StatusOf
    <2>3. leave_requests[s].status \in Decision
      BY <2>1 DEF SlaInv, TypeInv, TypeOK, LeaveRequestRow, Status, Decision
    <2>4. PICK k \in Stage : /\ k \in {i \in Stage : approval_steps[s][i] # "Pending"}
                             /\ approval_steps[s][k] = leave_requests[s].status
      BY <2>3 DEF AuditTellsStatus
    <2> QED BY <2>1, <2>2, <2>4
  <1> QED BY <1>1, InitSla, SlaStep, SlaEngineTheorem, PTL DEF SlaSpec

=============================================================================
