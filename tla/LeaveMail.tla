------------------------------ MODULE LeaveMail ------------------------------
(***************************************************************************)
(* The mail of the leave engine: notifications.send as the handlers of     *)
(* LeaveSessions call it.  A mail leaves when it is sent, before the       *)
(* transaction that sends it commits; its row in notification_log is one   *)
(* of that transaction's rows.  So a mail that has left may belong to a    *)
(* handler that never commits, and then no row tells of it.                *)
(*                                                                         *)
(* send takes every SMTP error on itself, hence sending always succeeds    *)
(* here: what counts is the attempt.                                       *)
(***************************************************************************)
EXTENDS LeaveSessions

CONSTANT Routed  \* whether the routing finds someone for stage 1 (see SlaSweep)

VARIABLES
    told,             \* session -> letters it has sent
    dispatched,       \* letters that have left, at least once
    notification_log  \* committed rows: letter -> how many

mailVars == <<sessionVars, told, dispatched, notification_log>>

Letter == SubmissionId \X (Decision \cup {"substitute_notified", "leave_stage1_pending"})

\* A submission is announced to the substitute, if one is named, and to whom
\* stage 1 is assigned.  A decision is told to the applicant, a cancellation nobody.
Letters(x) ==
    IF x.verdict \in Decision THEN {<<x.submission, x.verdict>>}
    ELSE IF x.verdict = "Submitted"
    THEN (IF x.row.substitute = NoOne THEN {} ELSE {<<x.submission, "substitute_notified">>})
         \cup (IF Routed THEN {<<x.submission, "leave_stage1_pending">>} ELSE {})
    ELSE {}

Unsent(w) == Letters(session[w]) \ told[w]

\* What a session waits to write.  A decision sends its mail between its last
\* query and the flush of what it changed: until then it writes its step and the
\* balances it opens, no more.
Waits(w) ==
    LET x == session[w]
    IN  IF x.phase = "Reading" /\ x.verdict \in Decision /\ Unread(x) = {} /\ Unsent(w) # {}
        THEN Wanted(w) \cap {<<"balance", a>> : a \in x.fresh}
        ELSE Wanted(w)

-----------------------------------------------------------------------------

\* When the handler sends: a submission once its row, steps and audit entry are
\* flushed, a decision when its balances are computed.
MutantDue(w) == session[w].phase = "Reading" /\ Unread(session[w]) = {}
Due(w) == session[w] # Idle /\ Complete(session[w]) /\ Waits(w) = {}

\* notifications.send: the mail leaves, its row is pending.  The approver's is first.
Send(w, letter) ==
    /\ Due(w)
    /\ letter \in Unsent(w)
    /\ letter[2] = "substitute_notified" => Unsent(w) = {letter}
    /\ told' = [told EXCEPT ![w] = @ \cup {letter}]
    /\ dispatched' = dispatched \cup {letter}
    /\ UNCHANGED <<sessionVars, notification_log>>

Written(w) ==
    /\ \E l \in Waits(w) : Acquire(w, l)
    /\ UNCHANGED <<told, dispatched, notification_log>>

Queried(w) ==
    /\ ReadType(w) \/ ReadBalance(w) \/ Number(w)
    /\ UNCHANGED <<told, dispatched, notification_log>>

MutantLogRows(w) == [l \in told[w] |-> 1]
\* The letters of notification_log once the session has added its rows.
LogRows(w) ==
    [l \in told[w] |-> 1 + (IF l \in DOMAIN notification_log THEN notification_log[l] ELSE 0)]

MutantMayCommit(w) == session[w] # Idle
\* The mail has left by the time the handler commits.
MayCommit(w) == session[w] # Idle /\ Unsent(w) = {}

CommitWithRows(w) ==
    /\ MayCommit(w)
    /\ Commit(w)
    /\ notification_log' = Write(notification_log, LogRows(w))
    /\ told' = [told EXCEPT ![w] = {}]
    /\ UNCHANGED dispatched

\* A session that ends without a commit takes its rows with it, not its mail.
End(w) ==
    /\ told' = [told EXCEPT ![w] = {}]
    /\ UNCHANGED <<dispatched, notification_log>>

AdvanceWithMail(w) ==
    \/ Written(w)
    \/ Queried(w)
    \/ session[w] # Idle /\ \E letter \in Unsent(w) : Send(w, letter)
    \/ CommitWithRows(w)
    \/ FailOn(w, [v \in Worker |-> Waits(v)]) /\ End(w)

MailInit == SessionInit /\ told = [w \in Worker |-> {}] /\ dispatched = {} /\ notification_log = <<>>

MailNext ==
    \E w \in Worker :
        \/ OpenAny(w) /\ UNCHANGED <<told, dispatched, notification_log>>
        \/ AdvanceWithMail(w)
        \/ Crash(w) /\ End(w)
        \/ Maintain(w) /\ UNCHANGED <<told, dispatched, notification_log>>

\* send waits for the mail server ten seconds at most, and raises nothing.
MailSpec ==
    /\ MailInit /\ [][MailNext]_mailVars
    /\ \A w \in Worker : SF_mailVars(AdvanceWithMail(w))

-----------------------------------------------------------------------------
(***************************************************************************)
(* Properties                                                              *)
(***************************************************************************)

Recorded(s, decision) ==
    Cardinality({i \in 1..Len(audit_log[s]) : audit_log[s][i] = DecisionAction(decision)})
Logged(letter) == IF letter \in DOMAIN notification_log THEN notification_log[letter] ELSE 0

\* Nobody is left uninformed: whatever crashes, fails or races, a stored request
\* has been announced to its substitute (OD-11, the right to object) and to its
\* approver, and each verdict of its audit trail to the applicant.
NobodyUninformed ==
    \A s \in Submitted :
        /\ leave_requests[s].substitute # NoOne => <<s, "substitute_notified">> \in dispatched
        /\ Routed => <<s, "leave_stage1_pending">> \in dispatched
        /\ \A decision \in Decision : Recorded(s, decision) > 0 => <<s, decision>> \in dispatched

\* "I was never told" is answerable for what is stored (NFR-12): NotificationLog
\* has one row for the substitute of each stored request and as many rows about
\* its verdicts as its audit trail has verdicts, however decisions race.  (Of a
\* mail that left without a commit it has none: SlaSweep's RepeatsOnRecord.)
LogTellsTrail ==
    \A s \in Submitted :
        /\ \A decision \in Decision : Logged(<<s, decision>>) = Recorded(s, decision)
        /\ Logged(<<s, "substitute_notified">>)
                = IF leave_requests[s].substitute = NoOne THEN 0 ELSE 1

\* A submission is announced when nothing but the end of the process can stop it:
\* its keys are its own, so that a retry or a rival of the same submission has told
\* nobody, and it waits for no row.  (Of decisions this does not hold: they write
\* their balances after the mail, and may fail then.)
AnnouncedWillCommit ==
    \A w \in Worker :
        told[w] # {} /\ session[w].verdict = "Submitted" =>
            /\ Complete(session[w])
            /\ Wanted(w) = {}
            /\ \A l \in session[w].held : ~Taken(session[w], l)
=============================================================================
