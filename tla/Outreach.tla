------------------------------ MODULE Outreach ------------------------------
(***************************************************************************)
(* Outreach sequences: enrolment, the daily sweep that emails the due      *)
(* steps, the guarded sender, manual sends, opt-outs, and the Gmail sync   *)
(* whose reply triage stops a cadence.                                     *)
(*   src/apps/outreach/sequences.py   enroll, advance                      *)
(*   src/apps/outreach/gating.py, senders.py   the gated, guarded send     *)
(*   src/apps/outreach/views_thread.py, views.py   the requests of people  *)
(*   src/apps/outreach/triage.py, src/apps/joseph/tasks.py   the replies   *)
(* No sweep takes a lock and no handler opens a transaction: every         *)
(* statement commits by itself.                                            *)
(***************************************************************************)
EXTENDS Integers, FiniteSets, Sequences

CONSTANTS
    Threads,      \* outreach threads, each with its own owner's one mailbox
    Seqs,         \* Sequence rows people may create
    Steps,        \* SequenceStep rows of their templates
    threadOf,     \* the thread of each sequence
    seqOf,        \* the sequence of each step
    position,     \* the step's position in its template
    delay,        \* cumulative delay of the step, in days
    Human,        \* the steps on a human channel
    Passing,      \* steps whose body the content gate passes
    Mails,        \* inbound messages of contacts
    matchOf,      \* the newest thread of each message's sender
    Sweeps,       \* runs of advance(): the daily task and redeliveries of it
    Operators,    \* people sending by hand
    RampCaps,     \* RAMP_CAPS
    DailyCap,     \* Mailbox.daily_cap
    WeekDays,     \* days of a warm-up week
    MaxMessages,  \* _MAX_MESSAGES of one Gmail fetch
    Faults,       \* subset of {"crash", "gate", "transport", "answer", "triage"}
    MaxFaults,    \* bound: faults in one behaviour
    MaxDay,       \* bound: days
    MaxManual,    \* bound: sends by hand
    None

Senders == Sweeps \cup Operators

ASSUME OutreachAssumption ==
    /\ threadOf \in [Seqs -> Threads] /\ seqOf \in [Steps -> Seqs]
    /\ matchOf \in [Mails -> Threads]
    /\ position \in [Steps -> Nat] /\ delay \in [Steps -> Nat]
    /\ IsFiniteSet(Sweeps) /\ IsFiniteSet(Operators) /\ Senders # {}
    /\ RampCaps \in Seq(Nat) /\ DailyCap \in Nat /\ WeekDays \in Nat \ {0}
    /\ MaxDay \in Nat /\ MaxManual \in Nat /\ MaxFaults \in Nat /\ MaxMessages \in Nat
    /\ None \notin Steps \cup Nat

VARIABLES
    day,        \* the calendar day
    seq,        \* Sequence.status, "none" before it exists
    step,       \* SequenceStep.status, "none" before it exists
    due,        \* the day of scheduled_for, known once its sequence exists
    enrolling,  \* sequences whose enrol request is still creating steps
    counter,    \* MailboxSend.count of each day, None without a row
    mailbox,    \* Mailbox.status
    suppressed, \* threads whose contact has a SuppressionEntry
    job,        \* what each sender is doing
    mail,       \* where each message is with respect to the sync cursor
    batch,      \* messages the Gmail sync has fetched and not yet triaged
    syncing,    \* where the Gmail sync stands
    faults,     \* faults so far
    manual,     \* sends by hand so far
    posted,     \* history: emails that went out, by the day they count for
    out,        \* history: emails sent, or tasks opened, for each step
    cut,        \* history: outputs whose sender ended before the mark
    uncounted,  \* history: emails of a day that were never counted
    early,      \* history: sequences completed while steps were still created
    afterStop,  \* history: emails sent to a thread since its contact opted out
    triaged,    \* history: messages that were triaged
    exposed     \* history: messages the cursor may pass over

worldVars == <<day, mailbox, suppressed, manual>>
tableVars == <<seq, step, due, enrolling>>
mailVars == <<mail, batch, syncing, triaged, exposed>>
tallyVars == <<posted, out, cut, uncounted, early, afterStop>>
vars == <<counter, job, faults, worldVars, tableVars, mailVars, tallyVars>>

-----------------------------------------------------------------------------
(* Types *)

Days == 0..MaxDay

\* "pick": between two steps of the sweep; "cleared": the gate and the guards
\* have passed; "out": the transport has sent; "counted": counted and logged;
\* "task": the task is created, its step not yet marked; "close": completing
\* sequences.
Stages == {"off", "pick", "cleared", "out", "counted", "task", "close"}

\* "todo" are the listed steps not yet taken, "row" whether the guard found a
\* counter row for "date", "left" the sequences still to be looked at.
Job == [at : Stages, todo : SUBSET Steps, step : Steps \cup {None},
        thread : Threads \cup {None}, date : Days, row : BOOLEAN, left : SUBSET Seqs]
NoJob == [at |-> "off", todo |-> {}, step |-> None, thread |-> None, date |-> 0,
          row |-> FALSE, left |-> {}]

TypeOK ==
    /\ day \in Days
    /\ seq \in [Seqs -> {"none", "active", "paused", "completed"}]
    /\ step \in [Steps -> {"none", "pending", "sent", "task_open"}]
    /\ due \in [Steps -> Nat]
    /\ enrolling \subseteq Seqs
    /\ counter \in [Days -> Nat \cup {None}]
    /\ mailbox \in {"active", "paused"}
    /\ suppressed \subseteq Threads
    /\ job \in [Senders -> Job]
    /\ mail \in [Mails -> {"unsent", "new", "past"}]
    /\ batch \subseteq Mails
    /\ syncing \in {"off", "fetched"}
    /\ faults \in Nat /\ manual \in Nat
    /\ posted \in [Days -> Nat]
    /\ out \in [Steps -> Nat] /\ cut \in [Steps -> Nat]
    /\ uncounted \in [Days -> Nat]
    /\ afterStop \in [Threads -> Nat]
    /\ early \subseteq Seqs
    /\ triaged \subseteq Mails /\ exposed \subseteq Mails

-----------------------------------------------------------------------------
(* Helpers.  A definition named Slip... is the one after it with a plausible  *)
(* mistake; no specification uses it, it shows that a property can fail.      *)

\* effective_cap_for the week _ramp_week computes.
EffectiveCap(d) ==
    LET week == d \div WeekDays
    IN IF week < Len(RampCaps) THEN RampCaps[week + 1] ELSE DailyCap

SentOn(d) == IF counter[d] = None THEN 0 ELSE counter[d]

\* The query of advance().
DueSteps == {st \in Steps : /\ step[st] = "pending"
                            /\ due[st] <= day
                            /\ seq[seqOf[st]] = "active"}

\* order_by("scheduled_for", "position").
Precedes(x, y) ==
    IF seqOf[x] = seqOf[y] THEN position[x] < position[y] ELSE due[x] < due[y]

First(S) == {st \in S : \A x \in S : ~Precedes(x, st)}

Fault(kind) ==
    /\ kind \in Faults
    /\ faults < MaxFaults
    /\ faults' = faults + 1

\* The sweep turns to its next step.
NextStep(w) == job' = [job EXCEPT ![w] = [NoJob EXCEPT !.at = "pick", !.todo = job[w].todo]]

\* An exception nobody catches ends the whole sweep, or the request.
Abort(s) == job' = [job EXCEPT ![s] = NoJob]

\* The sender ends in state j without having marked its output.
LoseMark(j) ==
    /\ cut' = IF j.step # None /\ j.at \in {"out", "counted", "task"}
              THEN [cut EXCEPT ![j.step] = @ + 1] ELSE cut
    /\ uncounted' = IF j.at = "out" THEN [uncounted EXCEPT ![j.date] = @ + 1]
                    ELSE uncounted

-----------------------------------------------------------------------------
(* Enrolment *)

\* The times of q's steps, all counted from the start of the request.
ScheduledFor(q) == [st \in Steps |-> IF seqOf[st] = q THEN day + delay[st] ELSE due[st]]

\* enroll: the Sequence row, without steps yet, and the clock its steps go by.
Enroll(q) ==
    /\ seq[q] = "none"
    /\ seq' = [seq EXCEPT ![q] = "active"]
    /\ due' = ScheduledFor(q)
    /\ enrolling' = enrolling \cup {q}
    /\ UNCHANGED <<worldVars, step, counter, job, faults, mailVars, tallyVars>>

\* One SequenceStep.objects.create, in the order of the template.
EnrollStep(st) ==
    LET q == seqOf[st]
        missing == {x \in Steps : seqOf[x] = q /\ step[x] = "none"}
    IN /\ q \in enrolling
       /\ st \in First(missing)
       /\ step' = [step EXCEPT ![st] = "pending"]
       /\ enrolling' = IF missing = {st} THEN enrolling \ {q} ELSE enrolling
       /\ UNCHANGED <<worldVars, seq, due, counter, job, faults, mailVars, tallyVars>>

\* The request dies: the steps created so far stay.
EnrollCrash(q) ==
    /\ q \in enrolling
    /\ Fault("crash")
    /\ enrolling' = enrolling \ {q}
    /\ UNCHANGED <<worldVars, seq, step, due, counter, job,
                   mailVars, tallyVars>>

-----------------------------------------------------------------------------
(* The guards of guarded_send, read before the transport is touched *)

SlipCapReached == SentOn(day) > EffectiveCap(day)

CapReached == SentOn(day) >= EffectiveCap(day)

SlipRefused(t) == CapReached

\* AddressSuppressed or CapExceeded.
Refused(t) == t \in suppressed \/ CapReached

\* The state of a sender whose guards have passed for step st of thread t.
Cleared(j, st, t) ==
    [j EXCEPT !.at = "cleared", !.todo = @ \ {st}, !.step = st, !.thread = t,
              !.date = day, !.row = counter[day] # None]

-----------------------------------------------------------------------------
(* The daily sweep *)

\* advance() evaluates its query.
SweepStart(w) ==
    /\ job[w].at = "off"
    /\ job' = [job EXCEPT ![w] = [NoJob EXCEPT !.at = "pick", !.todo = DueSteps]]
    /\ UNCHANGED <<worldVars, counter, faults, tableVars, mailVars, tallyVars>>

\* The sweep takes step st of its list, whatever became of it since.
Taking(w, st) ==
    /\ job[w].at = "pick"
    /\ st \in First(job[w].todo)

\* _open_human_task: the task is committed before its step is marked.
OpenTask(w, st) ==
    /\ Taking(w, st)
    /\ st \in Human
    /\ out' = [out EXCEPT ![st] = @ + 1]
    /\ job' = [job EXCEPT ![w].at = "task", ![w].todo = @ \ {st}, ![w].step = st]
    /\ UNCHANGED <<worldVars, counter, faults, tableVars, mailVars,
                   posted, cut, uncounted, early, afterStop>>

\* _send_email_step up to the transport.  Without an active mailbox, with a body
\* the gate does not pass, or refused by a guard, the step stays pending.
ClearStep(w, st) ==
    LET t == threadOf[seqOf[st]]
    IN /\ Taking(w, st)
       /\ st \notin Human
       /\ job' = [job EXCEPT ![w] =
                     IF mailbox = "active" /\ st \in Passing /\ ~Refused(t)
                     THEN Cleared(job[w], st, t)
                     ELSE [job[w] EXCEPT !.todo = @ \ {st}]]
       /\ UNCHANGED <<worldVars, counter, faults, tableVars, mailVars, tallyVars>>

\* check_gate raises GateError: not an OutreachError, it ends the sweep.
GateUnreachable(w, st) ==
    /\ Taking(w, st)
    /\ st \notin Human /\ mailbox = "active"
    /\ Fault("gate")
    /\ Abort(w)
    /\ UNCHANGED <<worldVars, counter, tableVars, mailVars, tallyVars>>

\* thread_send up to the transport; anything that refuses it changes nothing.
ManualSend(o, t) ==
    /\ job[o].at = "off"
    /\ manual < MaxManual /\ manual' = manual + 1
    /\ mailbox = "active" /\ ~Refused(t)
    /\ job' = [job EXCEPT ![o] = Cleared(@, None, t)]
    /\ UNCHANGED <<day, counter, mailbox, suppressed, faults, tableVars, mailVars, tallyVars>>

-----------------------------------------------------------------------------
(* guarded_send, from the transport on *)

\* What an email that leaves adds to the histories.
EmailLeaves(j) ==
    /\ posted' = [posted EXCEPT ![j.date] = @ + 1]
    /\ out' = IF j.step = None THEN out ELSE [out EXCEPT ![j.step] = @ + 1]
    /\ afterStop' = IF j.thread \in suppressed
                    THEN [afterStop EXCEPT ![j.thread] = @ + 1] ELSE afterStop

\* transport.send returns.
Deliver(s) ==
    /\ job[s].at = "cleared"
    /\ EmailLeaves(job[s])
    /\ job' = [job EXCEPT ![s].at = "out"]
    /\ UNCHANGED <<worldVars, counter, faults, tableVars, mailVars,
                   cut, uncounted, early>>

\* transport.send raises, and the email did not go out.
TransportFails(s) ==
    /\ job[s].at = "cleared"
    /\ Fault("transport")
    /\ Abort(s)
    /\ UNCHANGED <<worldVars, counter, tableVars, mailVars, tallyVars>>

\* transport.send raises although the email went out.
AnswerLost(s) ==
    /\ job[s].at = "cleared"
    /\ Fault("answer")
    /\ EmailLeaves(job[s])
    /\ LoseMark([job[s] EXCEPT !.at = "out"])
    /\ Abort(s)
    /\ UNCHANGED <<worldVars, counter, tableVars, mailVars, early>>

\* A manual send is over, the sweep has yet to mark its step.
AfterCount(s) ==
    job' = [job EXCEPT ![s] =
               IF s \in Sweeps
               THEN [NoJob EXCEPT !.at = "counted", !.todo = job[s].todo,
                                    !.step = job[s].step]
               ELSE NoJob]

\* The counter is incremented in the database, or its row created; then the
\* email_sent activity is written.
Count(s) ==
    LET d == job[s].date
    IN /\ job[s].at = "out"
       /\ job[s].row \/ counter[d] = None
       /\ counter' = [counter EXCEPT ![d] = SentOn(d) + 1]
       /\ AfterCount(s)
       /\ UNCHANGED <<worldVars, faults, tableVars, mailVars, tallyVars>>

\* Another sender created the day's row meanwhile: IntegrityError, which
\* nobody catches, for an email that is out.
CountCollides(s) ==
    /\ job[s].at = "out"
    /\ ~job[s].row /\ counter[job[s].date] # None
    /\ LoseMark(job[s])
    /\ Abort(s)
    /\ UNCHANGED <<worldVars, counter, faults, tableVars, mailVars,
                   posted, out, early, afterStop>>

-----------------------------------------------------------------------------
(* The end of a step and of a sweep *)

SlipMarkStep(w) ==
    /\ job[w].at \in {"counted", "task"}
    /\ NextStep(w)
    /\ UNCHANGED <<worldVars, counter, faults, tableVars, mailVars, tallyVars>>

\* The instance of the list is saved, whatever the row has become.
MarkStep(w) ==
    LET st == job[w].step
    IN /\ job[w].at \in {"counted", "task"}
       /\ step' = [step EXCEPT ![st] = IF st \in Human THEN "task_open" ELSE "sent"]
       /\ NextStep(w)
       /\ UNCHANGED <<worldVars, seq, due, enrolling, counter, faults,
                      mailVars, tallyVars>>

\* The list is done: the query of the active sequences.
ListActive(w) ==
    /\ job[w].at = "pick" /\ job[w].todo = {}
    /\ LET active == {q \in Seqs : seq[q] = "active"}
       IN job' = [job EXCEPT ![w] = IF active = {} THEN NoJob
                                    ELSE [NoJob EXCEPT !.at = "close", !.left = active]]
    /\ UNCHANGED <<worldVars, counter, faults, tableVars, mailVars, tallyVars>>

SlipFinished(q) == \E st \in Steps : seqOf[st] = q /\ step[st] # "pending"

Finished(q) == \A st \in Steps : seqOf[st] = q => step[st] # "pending"

\* A listed sequence without pending steps is completed, even one paused since.
CloseSequence(w, q) ==
    /\ job[w].at = "close" /\ q \in job[w].left
    /\ IF Finished(q)
       THEN /\ seq' = [seq EXCEPT ![q] = "completed"]
            /\ early' = IF q \in enrolling THEN early \cup {q} ELSE early
       ELSE UNCHANGED <<seq, early>>
    /\ job' = [job EXCEPT ![w] = IF job[w].left = {q} THEN NoJob
                                   ELSE [job[w] EXCEPT !.left = @ \ {q}]]
    /\ UNCHANGED <<worldVars, step, due, enrolling, counter, faults,
                   mailVars, posted, out, cut, uncounted, afterStop>>

\* The worker or the web process dies.
Crash(s) ==
    /\ job[s].at # "off"
    /\ Fault("crash")
    /\ LoseMark(job[s])
    /\ Abort(s)
    /\ UNCHANGED <<worldVars, counter, tableVars, mailVars,
                   posted, out, early, afterStop>>

-----------------------------------------------------------------------------
(* Opt-outs, the mailbox, the days *)

\* unsubscribe, suppression_add.
Suppress(t) ==
    /\ t \notin suppressed
    /\ suppressed' = suppressed \cup {t}
    /\ UNCHANGED <<manual, day, counter, mailbox, job, faults, tableVars, mailVars, tallyVars>>

\* suppression_remove.
Unsuppress(t) ==
    /\ t \in suppressed
    /\ suppressed' = suppressed \ {t}
    /\ afterStop' = [afterStop EXCEPT ![t] = 0]
    /\ UNCHANGED <<manual, day, counter, mailbox, job, faults, tableVars, mailVars,
                   posted, out, cut, uncounted, early>>

\* mailbox_pause, mailbox_resume.
ToggleMailbox ==
    /\ mailbox' = IF mailbox = "active" THEN "paused" ELSE "active"
    /\ UNCHANGED <<manual, day, counter, suppressed, job, faults, tableVars, mailVars, tallyVars>>

NewDay ==
    /\ day < MaxDay
    /\ day' = day + 1
    /\ UNCHANGED <<manual, counter, mailbox, suppressed, job, faults, tableVars, mailVars, tallyVars>>

-----------------------------------------------------------------------------
(* The Gmail sync and reply triage.  A message is "new" while its date is      *)
(* after GoogleIntegration.last_synced_at, "past" once the cursor is behind it.*)

Fresh == {m \in Mails : mail[m] = "new"}

MailArrives(m) ==
    /\ mail[m] = "unsent"
    /\ mail' = [mail EXCEPT ![m] = "new"]
    /\ exposed' = IF syncing = "fetched" THEN exposed \cup {m} ELSE exposed
    /\ UNCHANGED <<worldVars, counter, job, faults, tableVars,
                   batch, syncing, triaged, tallyVars>>

\* recent_messages: at most MaxMessages messages after the cursor.
GmailFetch ==
    /\ syncing = "off"
    /\ \E found \in SUBSET Fresh :
        /\ found = Fresh \/ Cardinality(found) = MaxMessages
        /\ Cardinality(found) <= MaxMessages
        /\ batch' = found
        /\ exposed' = exposed \cup (Fresh \ found)
    /\ syncing' = "fetched"
    /\ UNCHANGED <<worldVars, counter, job, faults, tableVars,
                   mail, triaged, tallyVars>>

\* triage_inbound on one message: the activity, then every active sequence of
\* the thread the sender's address leads to is paused.
Triage(m) ==
    /\ syncing = "fetched" /\ m \in batch
    /\ batch' = batch \ {m}
    /\ triaged' = triaged \cup {m}
    /\ seq' = [q \in Seqs |-> IF threadOf[q] = matchOf[m] /\ seq[q] = "active"
                              THEN "paused" ELSE seq[q]]
    /\ UNCHANGED <<worldVars, step, due, enrolling, counter, job,
                   faults, mail, syncing, exposed, tallyVars>>

\* triage_inbound raises: the sync logs it and goes on without the rest.
TriageFails ==
    /\ syncing = "fetched" /\ batch # {}
    /\ Fault("triage")
    /\ exposed' = exposed \cup batch
    /\ batch' = {}
    /\ UNCHANGED <<worldVars, counter, job, tableVars, mail,
                   syncing, triaged, tallyVars>>

\* last_synced_at = now: every message that has arrived is behind the cursor.
MoveCursor == mail' = [m \in Mails |-> IF mail[m] = "new" THEN "past" ELSE mail[m]]

GmailStamp ==
    /\ syncing = "fetched" /\ batch = {}
    /\ MoveCursor
    /\ syncing' = "off"
    /\ UNCHANGED <<worldVars, counter, job, faults, tableVars,
                   batch, triaged, exposed, tallyVars>>

SlipGmailCrash ==
    /\ syncing = "fetched"
    /\ Fault("crash")
    /\ MoveCursor
    /\ syncing' = "off"
    /\ batch' = {}
    /\ UNCHANGED <<worldVars, counter, job, tableVars,
                   triaged, exposed, tallyVars>>

\* The worker dies before the cursor moves: the next sync reads on from there.
GmailCrash ==
    /\ syncing = "fetched"
    /\ Fault("crash")
    /\ syncing' = "off"
    /\ batch' = {}
    /\ UNCHANGED <<worldVars, counter, job, tableVars, mail,
                   triaged, exposed, tallyVars>>

\* sync_google_calendar stamps the same cursor.
CalendarStamp ==
    /\ Fresh # {}
    /\ MoveCursor
    /\ exposed' = exposed \cup (Fresh \ triaged)
    /\ UNCHANGED <<worldVars, counter, job, faults, tableVars,
                   batch, syncing, triaged, tallyVars>>

-----------------------------------------------------------------------------

SweepStep(w) ==
    \/ SweepStart(w)
    \/ \E st \in Steps : OpenTask(w, st) \/ ClearStep(w, st)
    \/ MarkStep(w) \/ ListActive(w)
    \/ \E q \in Seqs : CloseSequence(w, q)

SendStep(s) ==
    Deliver(s) \/ Count(s) \/ CountCollides(s)

Failures ==
    \/ \E w \in Sweeps, st \in Steps : GateUnreachable(w, st)
    \/ \E s \in Senders : TransportFails(s) \/ AnswerLost(s) \/ Crash(s)
    \/ \E q \in Seqs : EnrollCrash(q)

People ==
    \/ \E q \in Seqs : Enroll(q)
    \/ \E st \in Steps : EnrollStep(st)
    \/ \E o \in Operators, t \in Threads : ManualSend(o, t)
    \/ \E t \in Threads : Suppress(t) \/ Unsuppress(t)
    \/ ToggleMailbox

Syncs ==
    \/ \E m \in Mails : MailArrives(m) \/ Triage(m)
    \/ GmailFetch \/ TriageFails \/ GmailStamp \/ GmailCrash \/ CalendarStamp

Next ==
    \/ \E w \in Sweeps : SweepStep(w)
    \/ \E s \in Senders : SendStep(s)
    \/ Failures
    \/ People
    \/ Syncs
    \/ NewDay

Init ==
    /\ day = 0
    /\ seq = [q \in Seqs |-> "none"]
    /\ step = [st \in Steps |-> "none"]
    /\ due = [st \in Steps |-> 0]
    /\ enrolling = {}
    /\ counter = [d \in Days |-> None]
    /\ mailbox = "active"
    /\ suppressed = {}
    /\ job = [s \in Senders |-> NoJob]
    /\ mail = [m \in Mails |-> "unsent"]
    /\ batch = {} /\ syncing = "off"
    /\ faults = 0 /\ manual = 0
    /\ posted = [d \in Days |-> 0]
    /\ out = [st \in Steps |-> 0] /\ cut = [st \in Steps |-> 0]
    /\ uncounted = [d \in Days |-> 0]
    /\ afterStop = [t \in Threads |-> 0]
    /\ early = {} /\ triaged = {} /\ exposed = {}

Spec == Init /\ [][Next]_vars

-----------------------------------------------------------------------------
(* Properties *)

\* A step of advance() is resolved by one email, or one task, unless the run
\* that produced it ended before it could mark the step (a crash, a collision on
\* the day's counter, a lost answer), or another sweep had the step in its list
\* when it was marked: advance takes no lock and re-reads no row.
StepBudget == \A st \in Steps : out[st] <= 1 + cut[st] + (Cardinality(Sweeps) - 1)

\* A day's emails exceed the cap of the warm-up ramp by at most the senders that
\* read the counter together, and by the emails guarded_send never counted.
CapOvershoot ==
    \A d \in Days :
        posted[d] <= EffectiveCap(d) + Cardinality(Senders) - 1 + uncounted[d]

\* After an opt-out at most the emails that had passed the suppression guard
\* still go out, one per sender.
OptOutOvershoot == \A t \in Threads : afterStop[t] <= Cardinality(Senders)

\* A reply is passed over without being triaged only if it was exposed to it: it
\* arrived between a fetch and the stamp, the calendar sync moved the shared
\* cursor, the batch was full, or triage raised.  A crash loses none.
MissedOnlyWhenExposed ==
    \A m \in Mails : mail[m] = "past" /\ m \notin batch \cup triaged => m \in exposed

\* A sequence is completed with a pending step only if the sweep looked at it
\* while its enrolment was still creating steps: that step is never sent.
StrandedOnlyByEnrolment ==
    \A st \in Steps :
        step[st] = "pending" /\ seq[seqOf[st]] = "completed" => seqOf[st] \in early
=============================================================================
