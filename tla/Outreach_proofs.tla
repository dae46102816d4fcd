--------------------------- MODULE Outreach_proofs ---------------------------
(***************************************************************************)
(* For any threads, sequences, sweeps and bounds: the types, and the five  *)
(* safety properties of the sequences, the guarded sender and the triage.  *)
(***************************************************************************)
EXTENDS Outreach, FiniteSetTheorems, TLAPS

TableTyped ==
    /\ seq \in [Seqs -> {"none", "active", "paused", "completed"}]
    /\ step \in [Steps -> {"none", "pending", "sent", "task_open"}]
    /\ due \in [Steps -> Nat]
    /\ enrolling \subseteq Seqs
CounterTyped == counter \in [Days -> Nat \cup {None}]
WorldTyped ==
    /\ day \in Days /\ mailbox \in {"active", "paused"}
    /\ suppressed \subseteq Threads /\ manual \in Nat
JobTyped == job \in [Senders -> Job]
MailTyped ==
    /\ mail \in [Mails -> {"unsent", "new", "past"}]
    /\ batch \subseteq Mails /\ syncing \in {"off", "fetched"}
    /\ triaged \subseteq Mails /\ exposed \subseteq Mails
TallyTyped ==
    /\ posted \in [Days -> Nat] /\ uncounted \in [Days -> Nat]
    /\ out \in [Steps -> Nat] /\ cut \in [Steps -> Nat]
    /\ afterStop \in [Threads -> Nat] /\ early \subseteq Seqs

LEMMA TypeParts ==
    /\ TypeOK <=> /\ TableTyped /\ CounterTyped /\ WorldTyped /\ JobTyped
                  /\ MailTyped /\ TallyTyped /\ faults \in Nat
    /\ TypeOK' <=> /\ TableTyped' /\ CounterTyped' /\ WorldTyped' /\ JobTyped'
                   /\ MailTyped' /\ TallyTyped' /\ faults' \in Nat
  BY DEF TypeOK, TableTyped, CounterTyped, WorldTyped, JobTyped, MailTyped, TallyTyped

LEMMA NoJobTyped == NoJob \in Job
<1>1. 0 \in Days
  BY OutreachAssumption DEF Days
<1> QED BY <1>1 DEF NoJob, Job, Stages

LEMMA AbortTyped ==
    ASSUME JobTyped, NEW s \in Senders, Abort(s) PROVE JobTyped'
  BY NoJobTyped DEF JobTyped, Abort

LEMMA ClearedTyped ==
    ASSUME WorldTyped, NEW j \in Job, NEW st \in Steps \cup {None}, NEW t \in Threads
    PROVE  Cleared(j, st, t) \in Job
<1>1. "cleared" \in Stages /\ day \in Days /\ (counter[day] # None) \in BOOLEAN
  BY DEF Stages, WorldTyped
<1>2. j.todo \ {st} \in SUBSET Steps
  BY DEF Job
<1> QED BY <1>1, <1>2 DEF Cleared, Job

LEMMA Bump ==
    ASSUME NEW S, NEW f \in [S -> Nat], NEW x PROVE [f EXCEPT ![x] = f[x] + 1] \in [S -> Nat]
<1>1. CASE x \in S
  <2>1. f[x] + 1 \in Nat
    BY <1>1
  <2> QED BY <2>1
<1>2. CASE x \notin S
  <2>1. [f EXCEPT ![x] = f[x] + 1] = f
    BY <1>2
  <2> QED BY <2>1
<1> QED BY <1>1, <1>2

LEMMA LoseMarkTyped ==
    ASSUME TallyTyped, NEW j, LoseMark(j)
    PROVE  cut' \in [Steps -> Nat] /\ uncounted' \in [Days -> Nat]
<1>1. cut' \in [Steps -> Nat]
  <2>1. CASE j.step # None /\ j.at \in {"out", "counted", "task"}
    <3>1. cut' = [cut EXCEPT ![j.step] = cut[j.step] + 1]
      BY <2>1 DEF LoseMark
    <3> QED BY <3>1, Bump DEF TallyTyped
  <2>2. CASE ~(j.step # None /\ j.at \in {"out", "counted", "task"})
    <3>1. cut' = cut
      BY <2>2 DEF LoseMark
    <3> QED BY <3>1 DEF TallyTyped
  <2> QED BY <2>1, <2>2
<1>2. uncounted' \in [Days -> Nat]
  <2>1. CASE j.at = "out"
    <3>1. uncounted' = [uncounted EXCEPT ![j.date] = uncounted[j.date] + 1]
      BY <2>1 DEF LoseMark
    <3> QED BY <3>1, Bump DEF TallyTyped
  <2>2. CASE j.at # "out"
    <3>1. uncounted' = uncounted
      BY <2>2 DEF LoseMark
    <3> QED BY <3>1 DEF TallyTyped
  <2> QED BY <2>1, <2>2
<1> QED BY <1>1, <1>2

LEMMA EmailTyped ==
    ASSUME TallyTyped, NEW j, EmailLeaves(j)
    PROVE  posted' \in [Days -> Nat] /\ out' \in [Steps -> Nat] /\ afterStop' \in [Threads -> Nat]
<1>1. posted' \in [Days -> Nat]
  <2>1. posted' = [posted EXCEPT ![j.date] = posted[j.date] + 1]
    BY DEF EmailLeaves
  <2> QED BY <2>1, Bump DEF TallyTyped
<1>2. out' \in [Steps -> Nat]
  <2>1. CASE j.step = None
    BY <2>1 DEF EmailLeaves, TallyTyped
  <2>2. CASE j.step # None
    <3>1. out' = [out EXCEPT ![j.step] = out[j.step] + 1]
      BY <2>2 DEF EmailLeaves
    <3> QED BY <3>1, Bump DEF TallyTyped
  <2> QED BY <2>1, <2>2
<1>3. afterStop' \in [Threads -> Nat]
  <2>1. CASE j.thread \in suppressed
    <3>1. afterStop' = [afterStop EXCEPT ![j.thread] = afterStop[j.thread] + 1]
      BY <2>1 DEF EmailLeaves
    <3> QED BY <3>1, Bump DEF TallyTyped
  <2>2. CASE j.thread \notin suppressed
    BY <2>2 DEF EmailLeaves, TallyTyped
  <2> QED BY <2>1, <2>2
<1> QED BY <1>1, <1>2, <1>3

LEMMA CursorTyped ==
    ASSUME MailTyped, MoveCursor PROVE mail' \in [Mails -> {"unsent", "new", "past"}]
  BY DEF MailTyped, MoveCursor

LEMMA SweepTyped ==
    ASSUME TypeOK, NEW w \in Sweeps, SweepStep(w) PROVE TypeOK'
<1> USE TypeParts
<1>0. w \in Senders /\ job[w] \in Job
  BY DEF Senders, JobTyped
<1>j. ASSUME NEW v \in Job, job' = [job EXCEPT ![w] = v] PROVE JobTyped'
  BY <1>j DEF JobTyped
<1>1. CASE SweepStart(w)
  <2>1. [NoJob EXCEPT !.at = "pick", !.todo = DueSteps] \in Job
    BY NoJobTyped DEF Job, DueSteps, Stages
  <2> QED BY <1>1, <1>j, <2>1
          DEF SweepStart, TableTyped, CounterTyped, WorldTyped, MailTyped, TallyTyped,
              worldVars, tableVars, mailVars, tallyVars
<1>2. ASSUME NEW st \in Steps, OpenTask(w, st) PROVE TypeOK'
  <2>1. [job[w] EXCEPT !.at = "task", !.todo = @ \ {st}, !.step = st] \in Job
    BY <1>0 DEF Job, Stages
  <2>2. job' = [job EXCEPT ![w] = [job[w] EXCEPT !.at = "task", !.todo = @ \ {st}, !.step = st]]
    BY <1>2 DEF OpenTask
  <2>3. out' \in [Steps -> Nat]
    BY <1>2 DEF OpenTask, TallyTyped
  <2> QED BY <1>2, <1>j, <2>1, <2>2, <2>3
          DEF OpenTask, TableTyped, CounterTyped, WorldTyped, MailTyped, TallyTyped,
              worldVars, tableVars, mailVars
<1>3. ASSUME NEW st \in Steps, ClearStep(w, st) PROVE TypeOK'
  <2>1. threadOf[seqOf[st]] \in Threads
    BY OutreachAssumption
  <2>2. Cleared(job[w], st, threadOf[seqOf[st]]) \in Job
    BY <1>0, <2>1, ClearedTyped
  <2>3. [job[w] EXCEPT !.todo = @ \ {st}] \in Job
    BY <1>0 DEF Job
  <2>4. JobTyped'
    <3>1. CASE mailbox = "active" /\ st \in Passing /\ ~Refused(threadOf[seqOf[st]])
      <4>1. job' = [job EXCEPT ![w] = Cleared(job[w], st, threadOf[seqOf[st]])]
        BY <1>3, <3>1 DEF ClearStep
      <4> QED BY <4>1, <1>j, <2>2
    <3>2. CASE ~(mailbox = "active" /\ st \in Passing /\ ~Refused(threadOf[seqOf[st]]))
      <4>1. job' = [job EXCEPT ![w] = [job[w] EXCEPT !.todo = @ \ {st}]]
        BY <1>3, <3>2 DEF ClearStep
      <4> QED BY <4>1, <1>j, <2>3
    <3> QED BY <3>1, <3>2
  <2> QED BY <1>3, <2>4
          DEF ClearStep, TableTyped, CounterTyped, WorldTyped, MailTyped, TallyTyped,
              worldVars, tableVars, mailVars, tallyVars
<1>4. CASE MarkStep(w)
  <2>1. [NoJob EXCEPT !.at = "pick", !.todo = job[w].todo] \in Job
    BY <1>0, NoJobTyped DEF Job, Stages
  <2>2. JobTyped'
    BY <1>4, <1>j, <2>1 DEF MarkStep, NextStep
  <2>3. step' \in [Steps -> {"none", "pending", "sent", "task_open"}]
    BY <1>4 DEF MarkStep, TableTyped
  <2> QED BY <1>4, <2>2, <2>3
          DEF MarkStep, TableTyped, CounterTyped, WorldTyped, MailTyped, TallyTyped,
              worldVars, mailVars, tallyVars
<1>5. CASE ListActive(w)
  <2>1. [NoJob EXCEPT !.at = "close", !.left = {q \in Seqs : seq[q] = "active"}] \in Job
    BY NoJobTyped DEF Job, Stages
  <2>2. JobTyped'
    BY <1>5, <1>j, <2>1, NoJobTyped DEF ListActive
  <2> QED BY <1>5, <2>2
          DEF ListActive, TableTyped, CounterTyped, WorldTyped, MailTyped, TallyTyped,
              worldVars, tableVars, mailVars, tallyVars
<1>6. ASSUME NEW q \in Seqs, CloseSequence(w, q) PROVE TypeOK'
  <2>1. [job[w] EXCEPT !.left = @ \ {q}] \in Job
    BY <1>0 DEF Job
  <2>2. JobTyped'
    <3>1. CASE job[w].left = {q}
      <4>1. job' = [job EXCEPT ![w] = NoJob]
        BY <1>6, <3>1 DEF CloseSequence
      <4> QED BY <4>1, <1>j, NoJobTyped
    <3>2. CASE job[w].left # {q}
      <4>1. job' = [job EXCEPT ![w] = [job[w] EXCEPT !.left = @ \ {q}]]
        BY <1>6, <3>2 DEF CloseSequence
      <4> QED BY <4>1, <1>j, <2>1
    <3> QED BY <3>1, <3>2
  <2>3. seq' \in [Seqs -> {"none", "active", "paused", "completed"}] /\ early' \subseteq Seqs
    BY <1>6 DEF CloseSequence, TableTyped, TallyTyped
  <2> QED BY <1>6, <2>2, <2>3
          DEF CloseSequence, TableTyped, CounterTyped, WorldTyped, MailTyped, TallyTyped,
              worldVars, mailVars
<1> QED BY <1>1, <1>2, <1>3, <1>4, <1>5, <1>6 DEF SweepStep

LEMMA SendTyped ==
    ASSUME TypeOK, NEW s \in Senders,
           SendStep(s) \/ TransportFails(s) \/ AnswerLost(s) \/ Crash(s)
    PROVE  TypeOK'
<1> USE TypeParts
<1>0. job[s] \in Job
  BY DEF JobTyped
<1>1. CASE Deliver(s)
  <2>1. [job[s] EXCEPT !.at = "out"] \in Job
    BY <1>0 DEF Job, Stages
  <2>2. JobTyped'
    BY <1>1, <2>1 DEF Deliver, JobTyped
  <2> QED BY <1>1, <2>2, EmailTyped
          DEF Deliver, TableTyped, CounterTyped, WorldTyped, MailTyped, TallyTyped,
              worldVars, tableVars, mailVars
<1>2. CASE Count(s)
  <2>1. [NoJob EXCEPT !.at = "counted", !.todo = job[s].todo, !.step = job[s].step] \in Job
    BY <1>0, NoJobTyped DEF Job, Stages
  <2>2. JobTyped'
    BY <1>2, <2>1, NoJobTyped DEF Count, AfterCount, JobTyped
  <2>3. job[s].date \in Days
    BY <1>0 DEF Job
  <2>4. SentOn(job[s].date) \in Nat
    BY <2>3 DEF SentOn, CounterTyped
  <2>5. CounterTyped'
    <3>1. counter' = [counter EXCEPT ![job[s].date] = SentOn(job[s].date) + 1]
      BY <1>2 DEF Count
    <3>2. SentOn(job[s].date) + 1 \in Nat
      BY <2>4
    <3> QED BY <3>1, <3>2 DEF CounterTyped
  <2> QED BY <1>2, <2>2, <2>5
          DEF Count, TableTyped, WorldTyped, MailTyped, TallyTyped,
              worldVars, tableVars, mailVars, tallyVars
<1>3. CASE CountCollides(s)
  BY <1>3, AbortTyped, LoseMarkTyped
     DEF CountCollides, TableTyped, CounterTyped, WorldTyped, MailTyped, TallyTyped,
         worldVars, tableVars, mailVars
<1>4. CASE TransportFails(s)
  BY <1>4, AbortTyped
     DEF TransportFails, TableTyped, CounterTyped, WorldTyped, MailTyped, TallyTyped,
         worldVars, tableVars, mailVars, tallyVars, Fault
<1>5. CASE AnswerLost(s)
  BY <1>5, AbortTyped, LoseMarkTyped, EmailTyped
     DEF AnswerLost, TableTyped, CounterTyped, WorldTyped, MailTyped, TallyTyped,
         worldVars, tableVars, mailVars, Fault
<1>6. CASE Crash(s)
  BY <1>6, AbortTyped, LoseMarkTyped
     DEF Crash, TableTyped, CounterTyped, WorldTyped, MailTyped, TallyTyped,
         worldVars, tableVars, mailVars, Fault
<1> QED BY <1>1, <1>2, <1>3, <1>4, <1>5, <1>6 DEF SendStep

LEMMA PeopleTyped ==
    ASSUME TypeOK, People \/ (\E q \in Seqs : EnrollCrash(q)) \/ NewDay
                   \/ (\E w \in Sweeps, st \in Steps : GateUnreachable(w, st))
    PROVE  TypeOK'
<1> USE TypeParts DEF worldVars, tableVars, mailVars, tallyVars, Fault
<1>1. ASSUME NEW q \in Seqs, Enroll(q) \/ EnrollCrash(q) PROVE TypeOK'
  <2>1. TableTyped'
    <3>1. \A st \in Steps : day + delay[st] \in Nat
      BY OutreachAssumption DEF WorldTyped, Days
    <3>2. ScheduledFor(q) \in [Steps -> Nat]
      BY <3>1 DEF ScheduledFor, TableTyped
    <3> QED BY <1>1, <3>2 DEF Enroll, EnrollCrash, TableTyped
  <2> QED BY <1>1, <2>1
          DEF Enroll, EnrollCrash, CounterTyped, WorldTyped, JobTyped, MailTyped, TallyTyped
<1>2. ASSUME NEW st \in Steps, EnrollStep(st) PROVE TypeOK'
  <2>2. due' \in [Steps -> Nat] /\ enrolling' \subseteq Seqs
    BY <1>2 DEF EnrollStep, TableTyped
  <2>3. step' \in [Steps -> {"none", "pending", "sent", "task_open"}]
    BY <1>2 DEF EnrollStep, TableTyped
  <2> QED BY <1>2, <2>2, <2>3
          DEF EnrollStep, TableTyped, CounterTyped, WorldTyped, JobTyped, MailTyped, TallyTyped
<1>3. ASSUME NEW o \in Operators, NEW t \in Threads, ManualSend(o, t) PROVE TypeOK'
  <2>1. o \in Senders /\ job[o] \in Job
    BY DEF Senders, JobTyped
  <2>2. Cleared(job[o], None, t) \in Job
    BY <2>1, ClearedTyped
  <2>3. JobTyped'
    BY <1>3, <2>2 DEF ManualSend, JobTyped
  <2> QED BY <1>3, <2>3
          DEF ManualSend, TableTyped, CounterTyped, WorldTyped, MailTyped, TallyTyped
<1>4. ASSUME NEW t \in Threads, Suppress(t) \/ Unsuppress(t) PROVE TypeOK'
  <2>1. WorldTyped'
    BY <1>4 DEF Suppress, Unsuppress, WorldTyped
  <2>2. afterStop' \in [Threads -> Nat]
    BY <1>4 DEF Suppress, Unsuppress, TallyTyped
  <2> QED BY <1>4, <2>1, <2>2
          DEF Suppress, Unsuppress, TableTyped, CounterTyped, JobTyped, MailTyped, TallyTyped
<1>5. CASE ToggleMailbox
  <2>1. WorldTyped'
    BY <1>5 DEF ToggleMailbox, WorldTyped
  <2> QED BY <1>5, <2>1
          DEF ToggleMailbox, TableTyped, CounterTyped, JobTyped, MailTyped, TallyTyped
<1>6. CASE NewDay
  <2>1. day' \in Days
    BY <1>6, OutreachAssumption DEF NewDay, WorldTyped, Days
  <2> QED BY <1>6, <2>1
          DEF NewDay, TableTyped, CounterTyped, WorldTyped, JobTyped, MailTyped, TallyTyped
<1>7. ASSUME NEW w \in Sweeps, NEW st \in Steps, GateUnreachable(w, st) PROVE TypeOK'
  <2>1. w \in Senders
    BY DEF Senders
  <2> QED BY <1>7, <2>1, AbortTyped
          DEF GateUnreachable, TableTyped, CounterTyped, WorldTyped, MailTyped, TallyTyped
<1> QED BY <1>1, <1>2, <1>3, <1>4, <1>5, <1>6, <1>7 DEF People

LEMMA SyncTyped ==
    ASSUME TypeOK, Syncs PROVE TypeOK'
<1> USE TypeParts DEF worldVars, tableVars, mailVars, tallyVars, Fault
<1>1. MailTyped'
  <2>1. ASSUME NEW m \in Mails, MailArrives(m) PROVE MailTyped'
    BY <2>1 DEF MailArrives, MailTyped
  <2>2. ASSUME NEW m \in Mails, Triage(m) PROVE MailTyped'
    BY <2>2 DEF Triage, MailTyped
  <2>3. CASE GmailFetch
    BY <2>3 DEF GmailFetch, MailTyped, Fresh
  <2>4. CASE TriageFails
    BY <2>4 DEF TriageFails, MailTyped
  <2>5. CASE GmailStamp \/ GmailCrash
    BY <2>5, CursorTyped DEF GmailStamp, GmailCrash, MailTyped
  <2>6. CASE CalendarStamp
    BY <2>6, CursorTyped DEF CalendarStamp, MailTyped, Fresh
  <2> QED BY <2>1, <2>2, <2>3, <2>4, <2>5, <2>6 DEF Syncs
<1>2. TableTyped'
  <2>1. ASSUME NEW m \in Mails, Triage(m) PROVE TableTyped'
    BY <2>1 DEF Triage, TableTyped
  <2> QED BY <2>1 DEF Syncs, MailArrives, GmailFetch, TriageFails, GmailStamp, GmailCrash,
                      CalendarStamp, TableTyped
<1>3. CounterTyped' /\ WorldTyped' /\ JobTyped' /\ TallyTyped' /\ faults' \in Nat
  BY DEF Syncs, MailArrives, Triage, GmailFetch, TriageFails, GmailStamp, GmailCrash,
         CalendarStamp, CounterTyped, WorldTyped, JobTyped, TallyTyped
<1> QED BY <1>1, <1>2, <1>3

LEMMA TypeInit == Init => TypeOK
<1> SUFFICES ASSUME Init PROVE TypeOK
  OBVIOUS
<1> USE DEF Init
<1>1. TableTyped
  BY DEF TableTyped
<1>2. CounterTyped
  BY DEF CounterTyped
<1>3. WorldTyped
  BY OutreachAssumption DEF WorldTyped, Days
<1>4. JobTyped
  BY NoJobTyped DEF JobTyped
<1>5. MailTyped
  BY DEF MailTyped
<1>6. TallyTyped
  BY DEF TallyTyped
<1> QED BY <1>1, <1>2, <1>3, <1>4, <1>5, <1>6, TypeParts

LEMMA TypeStep == TypeOK /\ [Next]_vars => TypeOK'
<1> SUFFICES ASSUME TypeOK, [Next]_vars PROVE TypeOK'
  OBVIOUS
<1>1. CASE UNCHANGED vars
  BY <1>1, TypeParts
     DEF vars, TableTyped, CounterTyped, WorldTyped, JobTyped, MailTyped, TallyTyped,
         worldVars, tableVars, mailVars, tallyVars
<1> QED BY <1>1, SweepTyped, SendTyped, PeopleTyped, SyncTyped DEF Next, Failures

\* Rows, counters, messages and the states of the senders stay within their types.
THEOREM TypeCorrect == Spec => []TypeOK
  BY TypeInit, TypeStep, PTL DEF Spec
-----------------------------------------------------------------------------
(* Replies.  While a fetch is in progress every message still ahead of the    *)
(* cursor is in the batch, triaged, or exposed.                               *)

MailInv ==
    \A m \in Mails :
        /\ mail[m] = "past" => m \in triaged \cup exposed
        /\ syncing = "fetched" /\ mail[m] = "new" => m \in batch \cup triaged \cup exposed

LEMMA MailStep ==
    ASSUME TypeOK, MailInv, [Next]_vars PROVE MailInv'
<1>0. mail \in [Mails -> {"unsent", "new", "past"}] /\ syncing \in {"off", "fetched"}
  BY DEF TypeOK
<1>1. ASSUME UNCHANGED mailVars PROVE MailInv'
  BY <1>1 DEF MailInv, mailVars
<1>2. CASE Syncs
  <2> SUFFICES ASSUME NEW m \in Mails
               PROVE  /\ mail'[m] = "past" => m \in triaged' \cup exposed'
                      /\ syncing' = "fetched" /\ mail'[m] = "new"
                         => m \in batch' \cup triaged' \cup exposed'
    BY DEF MailInv
  <2> DEFINE Kept == /\ mail'[m] = "past" => m \in triaged' \cup exposed'
                     /\ syncing' = "fetched" /\ mail'[m] = "new"
                        => m \in batch' \cup triaged' \cup exposed'
  <2>0. /\ mail[m] = "past" => m \in triaged \cup exposed
        /\ syncing = "fetched" /\ mail[m] = "new" => m \in batch \cup triaged \cup exposed
    BY DEF MailInv
  <2>1. ASSUME NEW x \in Mails, MailArrives(x) PROVE Kept
    <3>1. CASE m = x
      BY <2>1, <3>1, <1>0 DEF MailArrives
    <3>2. CASE m # x
      <4>1. mail'[m] = mail[m]
        BY <2>1, <3>2, <1>0 DEF MailArrives
      <4> QED BY <2>1, <2>0, <4>1 DEF MailArrives
    <3> QED BY <3>1, <3>2
  <2>2. ASSUME NEW x \in Mails, Triage(x) PROVE Kept
    BY <2>2, <2>0 DEF Triage
  <2>3. CASE GmailFetch
    BY <2>3, <2>0, <1>0 DEF GmailFetch, Fresh
  <2>4. CASE TriageFails
    BY <2>4, <2>0 DEF TriageFails
  <2>5. CASE GmailStamp
    BY <2>5, <2>0, <1>0 DEF GmailStamp, MoveCursor
  <2>6. CASE GmailCrash
    BY <2>6, <2>0 DEF GmailCrash
  <2>7. CASE CalendarStamp
    BY <2>7, <2>0, <1>0 DEF CalendarStamp, MoveCursor, Fresh
  <2> QED BY <1>2, <2>1, <2>2, <2>3, <2>4, <2>5, <2>6, <2>7 DEF Syncs
<1>3. CASE \E w \in Sweeps : SweepStep(w)
  BY <1>3, <1>1 DEF SweepStep, SweepStart, OpenTask, ClearStep, MarkStep, ListActive, CloseSequence
<1>4. CASE \E s \in Senders : SendStep(s)
  BY <1>4, <1>1 DEF SendStep, Deliver, Count, CountCollides
<1>5. CASE Failures
  BY <1>5, <1>1 DEF Failures, GateUnreachable, TransportFails, AnswerLost, Crash, EnrollCrash
<1>6. CASE People
  BY <1>6, <1>1 DEF People, Enroll, EnrollStep, ManualSend, Suppress, Unsuppress, ToggleMailbox
<1>7. CASE NewDay
  BY <1>7, <1>1 DEF NewDay
<1>8. CASE UNCHANGED vars
  BY <1>8, <1>1 DEF vars, mailVars
<1> QED BY <1>2, <1>3, <1>4, <1>5, <1>6, <1>7, <1>8 DEF Next

\* A reply the cursor has passed without triage was exposed to it: it came between
\* a fetch and the stamp, the calendar sync moved the cursor, the batch was full or
\* triage raised.  A crash of the sync loses none.
THEOREM RepliesMissed == Spec => []MissedOnlyWhenExposed
<1>1. Init => MailInv
  BY DEF Init, MailInv
<1>2. MailInv => MissedOnlyWhenExposed
  BY DEF MailInv, MissedOnlyWhenExposed
<1> QED BY <1>1, <1>2, TypeInit, TypeStep, MailStep, PTL DEF Spec

-----------------------------------------------------------------------------
(* Sequences.  One completed while its enrolment is still creating steps is    *)
(* early: the next step it creates is already stranded.                       *)

StrandInv ==
    /\ StrandedOnlyByEnrolment
    /\ \A q \in enrolling : seq[q] = "completed" => q \in early

LEMMA StrandStep ==
    ASSUME TypeOK, StrandInv, [Next]_vars PROVE StrandInv'
<1> USE OutreachAssumption
<1>0. /\ seq \in [Seqs -> {"none", "active", "paused", "completed"}]
      /\ step \in [Steps -> {"none", "pending", "sent", "task_open"}]
      /\ enrolling \subseteq Seqs /\ early \subseteq Seqs
  BY DEF TypeOK
<1>1. ASSUME UNCHANGED <<seq, step, enrolling, early>> PROVE StrandInv'
  BY <1>1 DEF StrandInv, StrandedOnlyByEnrolment
<1>2. ASSUME NEW q \in Seqs, Enroll(q) PROVE StrandInv'
  <2>1. \A x \in Seqs : seq'[x] = "completed" => seq[x] = "completed" /\ x # q
    BY <1>2, <1>0 DEF Enroll
  <2>2. step' = step /\ early' = early /\ enrolling' = enrolling \cup {q}
    BY <1>2 DEF Enroll, tallyVars
  <2> QED BY <2>1, <2>2, <1>0 DEF StrandInv, StrandedOnlyByEnrolment
<1>3. ASSUME NEW st \in Steps, EnrollStep(st) PROVE StrandInv'
  <2>1. \A x \in Steps : step'[x] = "pending" => step[x] = "pending" \/ x = st
    BY <1>3, <1>0 DEF EnrollStep
  <2>2. seq' = seq /\ early' = early /\ enrolling' \subseteq enrolling /\ seqOf[st] \in enrolling
    BY <1>3 DEF EnrollStep, tallyVars
  <2> QED BY <2>1, <2>2, <1>0 DEF StrandInv, StrandedOnlyByEnrolment
<1>4. ASSUME NEW q \in Seqs, EnrollCrash(q) PROVE StrandInv'
  BY <1>4 DEF EnrollCrash, tallyVars, StrandInv, StrandedOnlyByEnrolment
<1>5. ASSUME NEW w \in Sweeps, MarkStep(w) PROVE StrandInv'
  <2>1. \A x \in Steps : step'[x] = "pending" => step[x] = "pending"
    BY <1>5, <1>0 DEF MarkStep
  <2>2. seq' = seq /\ early' = early /\ enrolling' = enrolling
    BY <1>5 DEF MarkStep, tallyVars
  <2> QED BY <2>1, <2>2, <1>0 DEF StrandInv, StrandedOnlyByEnrolment
<1>6. ASSUME NEW w \in Sweeps, NEW q \in Seqs, CloseSequence(w, q) PROVE StrandInv'
  <2>0. step' = step /\ enrolling' = enrolling
    BY <1>6 DEF CloseSequence
  <2>1. CASE Finished(q)
    <3>1. seq' = [seq EXCEPT ![q] = "completed"]
      BY <1>6, <2>1 DEF CloseSequence
    <3>2. early \subseteq early' /\ (q \in enrolling => q \in early')
      BY <1>6, <2>1 DEF CloseSequence
    <3>3. \A x \in Seqs : seq'[x] = "completed" => seq[x] = "completed" \/ x = q
      BY <3>1, <1>0
    <3>4. \A x \in Steps : step[x] = "pending" => seqOf[x] # q
      BY <2>1 DEF Finished
    <3> QED BY <2>0, <3>2, <3>3, <3>4, <1>0 DEF StrandInv, StrandedOnlyByEnrolment
  <2>2. CASE ~Finished(q)
    BY <1>6, <2>0, <2>2, <1>1 DEF CloseSequence
  <2> QED BY <2>1, <2>2
<1>7. ASSUME NEW m \in Mails, Triage(m) PROVE StrandInv'
  <2>1. \A x \in Seqs : seq'[x] = "completed" => seq[x] = "completed"
    BY <1>7, <1>0 DEF Triage
  <2>2. step' = step /\ early' = early /\ enrolling' = enrolling
    BY <1>7 DEF Triage, tallyVars
  <2> QED BY <2>1, <2>2, <1>0 DEF StrandInv, StrandedOnlyByEnrolment
<1>8. CASE \E w \in Sweeps : SweepStep(w)
  BY <1>8, <1>1, <1>5, <1>6
     DEF SweepStep, SweepStart, OpenTask, ClearStep, ListActive, tableVars, tallyVars
<1>9. CASE \E s \in Senders : SendStep(s)
  BY <1>9, <1>1 DEF SendStep, Deliver, Count, CountCollides, tableVars, tallyVars
<1>10. CASE Failures
  BY <1>10, <1>1, <1>4
     DEF Failures, GateUnreachable, TransportFails, AnswerLost, Crash, tableVars, tallyVars
<1>11. CASE People
  BY <1>11, <1>1, <1>2, <1>3
     DEF People, ManualSend, Suppress, Unsuppress, ToggleMailbox, tableVars, tallyVars
<1>12. CASE Syncs
  BY <1>12, <1>1, <1>7
     DEF Syncs, MailArrives, GmailFetch, TriageFails, GmailStamp, GmailCrash, CalendarStamp,
         tableVars, tallyVars
<1>13. CASE NewDay \/ UNCHANGED vars
  BY <1>13, <1>1 DEF NewDay, vars, tableVars, tallyVars
<1> QED BY <1>8, <1>9, <1>10, <1>11, <1>12, <1>13 DEF Next

\* A pending step of a completed sequence is always one whose sequence the sweep
\* completed while enroll was still creating its steps.
THEOREM StepsStranded == Spec => []StrandedOnlyByEnrolment
<1>1. Init => StrandInv
  BY DEF Init, StrandInv, StrandedOnlyByEnrolment
<1>2. StrandInv => StrandedOnlyByEnrolment
  BY DEF StrandInv
<1> QED BY <1>1, <1>2, TypeInit, TypeStep, StrandStep, PTL DEF Spec
-----------------------------------------------------------------------------
(* Opt-outs.  The senders that passed the suppression guard before the opt-out  *)
(* and the emails already sent since are together at most the senders.         *)

Going(t) == {s \in Senders : job[s].at = "cleared" /\ job[s].thread = t}

OptInv ==
    \A t \in Threads :
        IF t \in suppressed THEN afterStop[t] + Cardinality(Going(t)) <= Cardinality(Senders)
        ELSE afterStop[t] = 0

LEMMA SenderSets ==
    /\ IsFiniteSet(Senders) /\ Cardinality(Senders) \in Nat \ {0}
    /\ \A S : S \subseteq Senders => /\ IsFiniteSet(S) /\ Cardinality(S) \in Nat
                                     /\ Cardinality(S) <= Cardinality(Senders)
    /\ \A S, T : S \subseteq Senders /\ T \subseteq S => Cardinality(T) <= Cardinality(S)
    /\ \A S, s : S \subseteq Senders /\ s \in S
                 => Cardinality(S \ {s}) = Cardinality(S) - 1
    /\ \A S, s : S \subseteq Senders /\ s \in Senders \ S
                 => Cardinality(S \cup {s}) = Cardinality(S) + 1
<1>1. IsFiniteSet(Senders)
  BY OutreachAssumption, FS_Union DEF Senders
<1>2. Cardinality(Senders) \in Nat /\ Cardinality(Senders) # 0
  BY <1>1, FS_CardinalityType, FS_EmptySet, OutreachAssumption
<1>3. \A S : S \subseteq Senders => IsFiniteSet(S) /\ Cardinality(S) \in Nat
                                    /\ Cardinality(S) <= Cardinality(Senders)
  BY <1>1, FS_Subset, FS_CardinalityType
<1>4. \A S, T : S \subseteq Senders /\ T \subseteq S => Cardinality(T) <= Cardinality(S)
  BY <1>3, FS_Subset
<1>5. \A S, s : S \subseteq Senders /\ s \in S => Cardinality(S \ {s}) = Cardinality(S) - 1
  BY <1>3, FS_RemoveElement
<1>6. \A S, s : S \subseteq Senders /\ s \in Senders \ S
                => Cardinality(S \cup {s}) = Cardinality(S) + 1
  BY <1>3, FS_AddElement
<1> QED BY <1>1, <1>2, <1>3, <1>4, <1>5, <1>6

\* Nobody passes the guard and nobody mails.
LEMMA OptQuiet ==
    ASSUME TypeOK, OptInv, UNCHANGED <<suppressed, afterStop>>,
           \A s \in Senders : job'[s] = job[s] \/ job'[s].at # "cleared"
    PROVE  OptInv'
<1> SUFFICES ASSUME NEW t \in Threads
             PROVE  IF t \in suppressed
                    THEN afterStop[t] + Cardinality(Going(t)') <= Cardinality(Senders)
                    ELSE afterStop[t] = 0
  BY DEF OptInv
<1>1. Going(t)' \subseteq Going(t) /\ Going(t) \subseteq Senders
  BY DEF Going
<1>2. /\ Cardinality(Going(t)') <= Cardinality(Going(t))
      /\ Cardinality(Going(t)) \in Nat /\ Cardinality(Going(t)') \in Nat
      /\ Cardinality(Senders) \in Nat
  BY <1>1, SenderSets
<1>3. afterStop[t] \in Nat
  BY DEF TypeOK
<1> QED BY <1>2, <1>3 DEF OptInv

\* A sender passes the guard for a thread that is not suppressed.
LEMMA OptCleared ==
    ASSUME TypeOK, OptInv, UNCHANGED <<suppressed, afterStop>>, NEW s \in Senders,
           NEW j \in Job, job' = [job EXCEPT ![s] = j], j.thread \notin suppressed
    PROVE  OptInv'
<1> SUFFICES ASSUME NEW t \in Threads
             PROVE  IF t \in suppressed
                    THEN afterStop[t] + Cardinality(Going(t)') <= Cardinality(Senders)
                    ELSE afterStop[t] = 0
  BY DEF OptInv
<1>1. CASE t \notin suppressed
  BY <1>1 DEF OptInv
<1>2. CASE t \in suppressed
  <2>1. Going(t)' \subseteq Going(t) /\ Going(t) \subseteq Senders
    BY <1>2 DEF Going, TypeOK
  <2>2. /\ Cardinality(Going(t)') <= Cardinality(Going(t))
        /\ Cardinality(Going(t)) \in Nat /\ Cardinality(Going(t)') \in Nat
        /\ Cardinality(Senders) \in Nat
    BY <2>1, SenderSets
  <2>3. afterStop[t] \in Nat
    BY DEF TypeOK
  <2> QED BY <1>2, <2>2, <2>3 DEF OptInv
<1> QED BY <1>1, <1>2

\* A cleared sender mails, and is cleared no more.
LEMMA OptMailed ==
    ASSUME TypeOK, OptInv, suppressed' = suppressed, NEW s \in Senders,
           job[s].at = "cleared", EmailLeaves(job[s]),
           NEW j \in Job, job' = [job EXCEPT ![s] = j], j.at # "cleared"
    PROVE  OptInv'
<1>0. job \in [Senders -> Job] /\ afterStop \in [Threads -> Nat]
  BY DEF TypeOK
<1> SUFFICES ASSUME NEW t \in Threads
             PROVE  IF t \in suppressed
                    THEN afterStop'[t] + Cardinality(Going(t)') <= Cardinality(Senders)
                    ELSE afterStop'[t] = 0
  BY DEF OptInv
<1>1. Going(t) \subseteq Senders /\ Cardinality(Going(t)) \in Nat /\ Cardinality(Senders) \in Nat
  BY SenderSets DEF Going
<1>2. CASE t \notin suppressed
  <2>1. afterStop'[t] = afterStop[t]
    BY <1>0, <1>2 DEF EmailLeaves
  <2> QED BY <1>2, <2>1 DEF OptInv
<1>3. CASE t \in suppressed /\ job[s].thread = t
  <2>1. s \in Going(t) /\ Going(t)' = Going(t) \ {s}
    BY <1>0, <1>3 DEF Going
  <2>2. Cardinality(Going(t)') = Cardinality(Going(t)) - 1
    BY <1>1, <2>1, SenderSets
  <2>3. afterStop'[t] = afterStop[t] + 1
    BY <1>0, <1>3 DEF EmailLeaves
  <2> QED BY <1>0, <1>1, <1>3, <2>2, <2>3 DEF OptInv
<1>4. CASE t \in suppressed /\ job[s].thread # t
  <2>1. Going(t)' = Going(t)
    BY <1>0, <1>4 DEF Going
  <2>2. afterStop'[t] = afterStop[t]
    BY <1>0, <1>4 DEF EmailLeaves
  <2> QED BY <1>4, <2>1, <2>2 DEF OptInv
<1> QED BY <1>2, <1>3, <1>4

LEMMA OptStep ==
    ASSUME TypeOK, OptInv, [Next]_vars PROVE OptInv'
<1>0. /\ job \in [Senders -> Job] /\ afterStop \in [Threads -> Nat]
      /\ suppressed \subseteq Threads /\ Sweeps \subseteq Senders /\ Operators \subseteq Senders
      /\ \A q \in Seqs : threadOf[q] \in Threads
      /\ \A st \in Steps : seqOf[st] \in Seqs
  BY OutreachAssumption DEF TypeOK, Senders
<1> USE DEF worldVars, tallyVars
<1>1. ASSUME NEW w \in Sweeps, SweepStep(w) PROVE OptInv'
  <2>1. ASSUME NEW st \in Steps, ClearStep(w, st) PROVE OptInv'
    <3>1. CASE mailbox = "active" /\ st \in Passing /\ ~Refused(threadOf[seqOf[st]])
      <4>1. Cleared(job[w], st, threadOf[seqOf[st]]) \in Job
        BY <1>0, ClearedTyped, TypeParts
      <4>2. /\ Cleared(job[w], st, threadOf[seqOf[st]]).thread = threadOf[seqOf[st]]
            /\ threadOf[seqOf[st]] \notin suppressed
        BY <1>0, <3>1 DEF Cleared, Job, Refused
      <4>3. job' = [job EXCEPT ![w] = Cleared(job[w], st, threadOf[seqOf[st]])]
        BY <2>1, <3>1 DEF ClearStep
      <4>4. UNCHANGED <<suppressed, afterStop>>
        BY <2>1 DEF ClearStep
      <4> QED BY <1>0, <4>1, <4>2, <4>3, <4>4, OptCleared
    <3>2. CASE ~(mailbox = "active" /\ st \in Passing /\ ~Refused(threadOf[seqOf[st]]))
      <4>1. job' = [job EXCEPT ![w] = [job[w] EXCEPT !.todo = @ \ {st}]]
        BY <2>1, <3>2 DEF ClearStep
      <4>2. job[w].at = "pick"
        BY <2>1 DEF ClearStep, Taking
      <4>3. [job[w] EXCEPT !.todo = @ \ {st}].at = "pick"
        BY <1>0, <4>2 DEF Job
      <4> QED BY <1>0, <2>1, <4>1, <4>3, OptQuiet DEF ClearStep
    <3> QED BY <3>1, <3>2
  <2>2. CASE SweepStart(w)
    BY <1>0, <2>2, OptQuiet DEF SweepStart, NoJob
  <2>3. ASSUME NEW st \in Steps, OpenTask(w, st) PROVE OptInv'
    <3>1. \A s \in Senders : job'[s] = job[s] \/ job'[s].at # "cleared"
      BY <1>0, <2>3 DEF OpenTask, Job
    <3> QED BY <2>3, <3>1, OptQuiet DEF OpenTask
  <2>4. CASE MarkStep(w)
    BY <1>0, <2>4, OptQuiet DEF MarkStep, NextStep, NoJob
  <2>5. CASE ListActive(w)
    BY <1>0, <2>5, OptQuiet DEF ListActive, NoJob
  <2>6. ASSUME NEW q \in Seqs, CloseSequence(w, q) PROVE OptInv'
    <3>1. \A s \in Senders : job'[s] = job[s] \/ job'[s].at # "cleared"
      BY <1>0, <2>6 DEF CloseSequence, NoJob, Job
    <3> QED BY <2>6, <3>1, OptQuiet DEF CloseSequence
  <2> QED BY <1>1, <2>1, <2>2, <2>3, <2>4, <2>5, <2>6 DEF SweepStep
<1>2. ASSUME NEW s \in Senders, SendStep(s) \/ TransportFails(s) \/ AnswerLost(s) \/ Crash(s)
      PROVE  OptInv'
  <2>1. CASE Deliver(s)
    <3>1. [job[s] EXCEPT !.at = "out"] \in Job /\ [job[s] EXCEPT !.at = "out"].at # "cleared"
      BY <1>0 DEF Job, Stages
    <3>2. job' = [job EXCEPT ![s] = [job[s] EXCEPT !.at = "out"]]
      BY <2>1 DEF Deliver
    <3> QED BY <2>1, <3>1, <3>2, OptMailed DEF Deliver
  <2>2. CASE AnswerLost(s)
    <3>1. NoJob \in Job /\ NoJob.at # "cleared"
      BY NoJobTyped DEF NoJob
    <3> QED BY <2>2, <3>1, OptMailed DEF AnswerLost, Abort
  <2>3. CASE Count(s) \/ CountCollides(s)
    <3>1. \A x \in Senders : job'[x] = job[x] \/ job'[x].at # "cleared"
      <4>1. CASE Count(s)
        BY <1>0, <4>1 DEF Count, AfterCount, NoJob
      <4>2. CASE CountCollides(s)
        BY <1>0, <4>2 DEF CountCollides, Abort, NoJob
      <4> QED BY <2>3, <4>1, <4>2
    <3>2. UNCHANGED <<suppressed, afterStop>>
      BY <2>3 DEF Count, CountCollides
    <3> QED BY <3>1, <3>2, OptQuiet
  <2>4. CASE TransportFails(s) \/ Crash(s)
    BY <1>0, <2>4, OptQuiet DEF TransportFails, Crash, Abort, NoJob
  <2> QED BY <1>2, <2>1, <2>2, <2>3, <2>4 DEF SendStep
<1>3. ASSUME NEW w \in Sweeps, NEW st \in Steps, GateUnreachable(w, st) PROVE OptInv'
  BY <1>0, <1>3, OptQuiet DEF GateUnreachable, Abort, NoJob
<1>4. CASE UNCHANGED <<job, suppressed, afterStop>>
  BY <1>4, OptQuiet
<1>5. CASE People
  <2>1. ASSUME NEW o \in Operators, NEW t \in Threads, ManualSend(o, t) PROVE OptInv'
    <3>1. Cleared(job[o], None, t) \in Job
      BY <1>0, ClearedTyped, TypeParts
    <3>2. Cleared(job[o], None, t).thread = t /\ t \notin suppressed
      BY <1>0, <2>1 DEF Cleared, Job, Refused, ManualSend
    <3>3. job' = [job EXCEPT ![o] = Cleared(job[o], None, t)]
      BY <2>1 DEF ManualSend
    <3> QED BY <1>0, <2>1, <3>1, <3>2, <3>3, OptCleared DEF ManualSend
  <2>2. ASSUME NEW t \in Threads, Suppress(t) PROVE OptInv'
    <3> SUFFICES ASSUME NEW u \in Threads
                 PROVE  IF u \in suppressed'
                        THEN afterStop'[u] + Cardinality(Going(u)') <= Cardinality(Senders)
                        ELSE afterStop'[u] = 0
      BY DEF OptInv
    <3>1. afterStop' = afterStop /\ Going(u)' = Going(u) /\ suppressed' = suppressed \cup {t}
      BY <2>2 DEF Suppress, Going
    <3>2. Cardinality(Going(u)) \in Nat /\ Cardinality(Going(u)) <= Cardinality(Senders)
          /\ Cardinality(Senders) \in Nat
      BY SenderSets DEF Going
    <3> QED BY <2>2, <3>1, <3>2 DEF OptInv, Suppress
  <2>3. ASSUME NEW t \in Threads, Unsuppress(t) PROVE OptInv'
    <3> SUFFICES ASSUME NEW u \in Threads
                 PROVE  IF u \in suppressed'
                        THEN afterStop'[u] + Cardinality(Going(u)') <= Cardinality(Senders)
                        ELSE afterStop'[u] = 0
      BY DEF OptInv
    <3>1. afterStop'[u] = (IF u = t THEN 0 ELSE afterStop[u]) /\ Going(u)' = Going(u)
          /\ suppressed' = suppressed \ {t}
      BY <1>0, <2>3 DEF Unsuppress, Going
    <3> QED BY <3>1 DEF OptInv
  <2> QED BY <1>5, <1>4, <2>1, <2>2, <2>3 DEF People, Enroll, EnrollStep, ToggleMailbox
<1>6. CASE Syncs
  BY <1>6, <1>4 DEF Syncs, MailArrives, Triage, GmailFetch, TriageFails, GmailStamp, GmailCrash,
                    CalendarStamp
<1>7. CASE NewDay \/ UNCHANGED vars \/ \E q \in Seqs : EnrollCrash(q)
  BY <1>7, <1>4 DEF NewDay, vars, EnrollCrash
<1> QED BY <1>1, <1>2, <1>3, <1>5, <1>6, <1>7 DEF Next, Failures

\* After an opt-out a contact gets at most one more email per sender: the ones that
\* had passed the suppression guard.
THEOREM OptOutHonoured == Spec => []OptOutOvershoot
<1>1. Init => OptInv
  BY DEF Init, OptInv
<1>2. TypeOK /\ OptInv => OptOutOvershoot
  <2> SUFFICES ASSUME TypeOK, OptInv, NEW t \in Threads
               PROVE  afterStop[t] <= Cardinality(Senders)
    BY DEF OptOutOvershoot
  <2>1. Cardinality(Going(t)) \in Nat /\ Cardinality(Senders) \in Nat /\ afterStop[t] \in Nat
    BY SenderSets DEF Going, TypeOK
  <2> QED BY <2>1 DEF OptInv
<1> QED BY <1>1, <1>2, TypeInit, TypeStep, OptStep, PTL DEF Spec
-----------------------------------------------------------------------------
(* The daily cap.  The day's counter and the senders past the guard stay below   *)
(* the cap plus the other senders; what went out is counted, about to be       *)
(* counted, or lost to the count.                                              *)

Posting(d) == {s \in Senders : job[s].at \in {"cleared", "out"} /\ job[s].date = d}
Sent(d) == {s \in Senders : job[s].at = "out" /\ job[s].date = d}

CapAt(d) ==
    /\ SentOn(d) + Cardinality(Posting(d)) <= EffectiveCap(d) + Cardinality(Senders) - 1
    /\ posted[d] <= SentOn(d) + Cardinality(Sent(d)) + uncounted[d]
CapInv == \A d \in Days : CapAt(d)

\* The ramp, or the mailbox's own cap after it, is a number of emails.
LEMMA CapNat == \A d \in Days : EffectiveCap(d) \in Nat
<1> SUFFICES ASSUME NEW d \in Days PROVE EffectiveCap(d) \in Nat
  OBVIOUS
<1>1. d \in Nat /\ WeekDays \in Nat \ {0} /\ MaxDay \in Nat
  BY OutreachAssumption DEF Days
<1>2. d \div WeekDays \in Nat
  BY <1>1
<1> DEFINE week == d \div WeekDays
<1>3. CASE week < Len(RampCaps)
  <2>1. week + 1 \in 1..Len(RampCaps)
    BY <1>2, <1>3, OutreachAssumption
  <2>2. RampCaps[week + 1] \in Nat
    BY <2>1, OutreachAssumption
  <2> QED BY <1>3, <2>2 DEF EffectiveCap
<1>4. CASE ~(week < Len(RampCaps))
  BY <1>4, OutreachAssumption DEF EffectiveCap
<1> QED BY <1>3, <1>4

LEMMA CapTyped ==
    ASSUME TypeOK, NEW d \in Days
    PROVE  /\ SentOn(d) \in Nat /\ posted[d] \in Nat /\ uncounted[d] \in Nat
           /\ EffectiveCap(d) \in Nat
           /\ Cardinality(Senders) \in Nat \ {0}
           /\ Posting(d) \subseteq Senders /\ Cardinality(Posting(d)) \in Nat
           /\ Sent(d) \subseteq Senders /\ Cardinality(Sent(d)) \in Nat
<1>1. SentOn(d) \in Nat /\ posted[d] \in Nat /\ uncounted[d] \in Nat
  BY DEF TypeOK, SentOn
<1>2. Posting(d) \subseteq Senders /\ Sent(d) \subseteq Senders
  BY DEF Posting, Sent
<1> QED BY <1>1, <1>2, CapNat, SenderSets

\* No sender passes the guard, mails, or is done mailing.
LEMMA CapQuiet ==
    ASSUME TypeOK, CapInv, UNCHANGED <<counter, posted, uncounted>>,
           \A s \in Senders : \/ job'[s] = job[s]
                              \/ job'[s].at \notin {"cleared", "out"} /\ job[s].at # "out"
    PROVE  CapInv'
<1> SUFFICES ASSUME NEW d \in Days PROVE CapAt(d)'
  BY DEF CapInv
<1>1. Posting(d)' \subseteq Posting(d) /\ Sent(d)' = Sent(d) /\ Posting(d) \subseteq Senders
  BY DEF Posting, Sent
<1>2. Cardinality(Posting(d)') <= Cardinality(Posting(d)) /\ Cardinality(Posting(d)') \in Nat
  BY <1>1, SenderSets
<1>3. SentOn(d)' = SentOn(d)
  BY DEF SentOn
<1> HIDE DEF CapInv
<1>4. CapAt(d)
  BY DEF CapInv
<1> QED BY <1>1, <1>2, <1>3, <1>4, CapTyped DEF CapAt

\* A sender that mails neither reads the counter below the cap.
LEMMA CapCleared ==
    ASSUME TypeOK, CapInv, UNCHANGED <<counter, posted, uncounted>>, NEW s \in Senders,
           NEW j \in Job, job' = [job EXCEPT ![s] = j], j.at = "cleared", j.date = day,
           job[s].at \notin {"cleared", "out"}, ~CapReached
    PROVE  CapInv'
<1>0. job \in [Senders -> Job] /\ day \in Days
  BY DEF TypeOK
<1> SUFFICES ASSUME NEW d \in Days PROVE CapAt(d)'
  BY DEF CapInv
<1>1. Sent(d)' = Sent(d) /\ SentOn(d)' = SentOn(d)
  BY <1>0 DEF Sent, SentOn
<1>2. CapAt(d)
  BY DEF CapInv
<1>3. Posting(d)' \subseteq Senders
  BY DEF Posting
<1>4. Cardinality(Posting(d)') <= Cardinality(Senders) /\ Cardinality(Posting(d)') \in Nat
  BY <1>3, SenderSets
<1>5. CASE d = day
  BY <1>1, <1>2, <1>4, <1>5, CapTyped DEF CapAt, CapReached
<1>6. CASE d # day
  <2>1. Posting(d)' = Posting(d)
    BY <1>0, <1>6 DEF Posting
  <2> QED BY <1>1, <1>2, <2>1, CapTyped DEF CapAt
<1> QED BY <1>5, <1>6

LEMMA CapDeliver ==
    ASSUME TypeOK, CapInv, NEW s \in Senders, Deliver(s) PROVE CapInv'
<1>0. /\ job \in [Senders -> Job] /\ posted \in [Days -> Nat] /\ job[s] \in Job
      /\ job[s].date \in Days
  BY DEF TypeOK, Job
<1> SUFFICES ASSUME NEW d \in Days PROVE CapAt(d)'
  BY DEF CapInv
<1>1. /\ job'[s].at = "out" /\ job'[s].date = job[s].date /\ job[s].at = "cleared"
      /\ \A x \in Senders \ {s} : job'[x] = job[x]
  BY <1>0 DEF Deliver, Job
<1>2. Posting(d)' = Posting(d) /\ SentOn(d)' = SentOn(d) /\ uncounted' = uncounted
  BY <1>1 DEF Posting, SentOn, Deliver
<1>3. CapAt(d)
  BY DEF CapInv
<1>4. CASE d = job[s].date
  <2>1. Sent(d)' = Sent(d) \cup {s} /\ s \in Senders \ Sent(d)
    BY <1>1, <1>4 DEF Sent
  <2>2. Cardinality(Sent(d)') = Cardinality(Sent(d)) + 1
    BY <2>1, SenderSets, CapTyped
  <2>3. posted'[d] = posted[d] + 1
    BY <1>0, <1>4 DEF Deliver, EmailLeaves
  <2> QED BY <1>2, <1>3, <2>2, <2>3, CapTyped DEF CapAt
<1>5. CASE d # job[s].date
  <2>1. Sent(d)' = Sent(d) /\ posted'[d] = posted[d]
    BY <1>0, <1>1, <1>5 DEF Sent, Deliver, EmailLeaves
  <2> QED BY <1>2, <1>3, <2>1, CapTyped DEF CapAt
<1> QED BY <1>4, <1>5

LEMMA CapCount ==
    ASSUME TypeOK, CapInv, NEW s \in Senders, Count(s) PROVE CapInv'
<1>0. /\ job \in [Senders -> Job] /\ counter \in [Days -> Nat \cup {None}] /\ job[s] \in Job
      /\ job[s].date \in Days
  BY DEF TypeOK, Job
<1> SUFFICES ASSUME NEW d \in Days PROVE CapAt(d)'
  BY DEF CapInv
<1>1. /\ job'[s].at \in {"off", "counted"} /\ job[s].at = "out"
      /\ \A x \in Senders \ {s} : job'[x] = job[x]
  BY <1>0 DEF Count, AfterCount, NoJob
<1>2. posted' = posted /\ uncounted' = uncounted
  BY DEF Count, tallyVars
<1>3. CapAt(d)
  BY DEF CapInv
<1>4. CASE d = job[s].date
  <2>1. /\ Sent(d)' = Sent(d) \ {s} /\ s \in Sent(d)
        /\ Posting(d)' = Posting(d) \ {s} /\ s \in Posting(d)
    BY <1>1, <1>4 DEF Sent, Posting
  <2>2. /\ Cardinality(Sent(d)') = Cardinality(Sent(d)) - 1
        /\ Cardinality(Posting(d)') = Cardinality(Posting(d)) - 1
    BY <2>1, SenderSets, CapTyped
  <2>3. SentOn(d)' = SentOn(d) + 1
    <3>1. counter'[d] = SentOn(d) + 1
      BY <1>0, <1>4 DEF Count
    <3>2. SentOn(d) + 1 # None
      BY CapTyped, OutreachAssumption
    <3> QED BY <3>1, <3>2 DEF SentOn
  <2> QED BY <1>2, <1>3, <2>2, <2>3, CapTyped DEF CapAt
<1>5. CASE d # job[s].date
  <2>1. Sent(d)' = Sent(d) /\ Posting(d)' = Posting(d)
    BY <1>1, <1>5 DEF Sent, Posting
  <2>2. SentOn(d)' = SentOn(d)
    BY <1>0, <1>5 DEF Count, SentOn
  <2> QED BY <1>2, <1>3, <2>1, <2>2, CapTyped DEF CapAt
<1> QED BY <1>4, <1>5

\* A sender ends after the transport: the email is never counted.
LEMMA CapLost ==
    ASSUME TypeOK, CapInv, NEW s \in Senders, UNCHANGED <<counter, posted>>,
           job[s].at = "out", LoseMark(job[s]), Abort(s)
    PROVE  CapInv'
<1>0. /\ job \in [Senders -> Job] /\ uncounted \in [Days -> Nat] /\ job[s] \in Job
      /\ job[s].date \in Days
  BY DEF TypeOK, Job
<1> SUFFICES ASSUME NEW d \in Days PROVE CapAt(d)'
  BY DEF CapInv
<1>1. job'[s].at = "off" /\ \A x \in Senders \ {s} : job'[x] = job[x]
  BY <1>0 DEF Abort, NoJob
<1>2. Posting(d)' \subseteq Posting(d) /\ SentOn(d)' = SentOn(d)
  BY <1>1 DEF Posting, SentOn
<1>3. Cardinality(Posting(d)') <= Cardinality(Posting(d)) /\ Cardinality(Posting(d)') \in Nat
  BY <1>2, SenderSets, CapTyped
<1>4. CapAt(d)
  BY DEF CapInv
<1>5. CASE d = job[s].date
  <2>1. Sent(d)' = Sent(d) \ {s} /\ s \in Sent(d)
    BY <1>1, <1>5 DEF Sent
  <2>2. Cardinality(Sent(d)') = Cardinality(Sent(d)) - 1
    BY <2>1, SenderSets, CapTyped
  <2>3. uncounted'[d] = uncounted[d] + 1
    BY <1>0, <1>5 DEF LoseMark
  <2> QED BY <1>2, <1>3, <1>4, <2>2, <2>3, CapTyped DEF CapAt
<1>6. CASE d # job[s].date
  <2>1. Sent(d)' = Sent(d) /\ uncounted'[d] = uncounted[d]
    BY <1>0, <1>1, <1>6 DEF Sent, LoseMark
  <2> QED BY <1>2, <1>3, <1>4, <2>1, CapTyped DEF CapAt
<1> QED BY <1>5, <1>6

LEMMA CapAnswer ==
    ASSUME TypeOK, CapInv, NEW s \in Senders, AnswerLost(s) PROVE CapInv'
<1>0. /\ job \in [Senders -> Job] /\ uncounted \in [Days -> Nat] /\ posted \in [Days -> Nat]
      /\ job[s] \in Job /\ job[s].date \in Days /\ job[s].at = "cleared"
  BY DEF TypeOK, Job, AnswerLost
<1> SUFFICES ASSUME NEW d \in Days PROVE CapAt(d)'
  BY DEF CapInv
<1>1. job'[s].at = "off" /\ \A x \in Senders \ {s} : job'[x] = job[x]
  BY <1>0 DEF AnswerLost, Abort, NoJob
<1>2. Posting(d)' \subseteq Posting(d) /\ SentOn(d)' = SentOn(d) /\ Sent(d)' = Sent(d)
  BY <1>0, <1>1 DEF Posting, SentOn, Sent, AnswerLost
<1>3. Cardinality(Posting(d)') <= Cardinality(Posting(d)) /\ Cardinality(Posting(d)') \in Nat
  BY <1>2, SenderSets, CapTyped
<1>4. CapAt(d)
  BY DEF CapInv
<1>5. [job[s] EXCEPT !.at = "out"].at = "out" /\ [job[s] EXCEPT !.at = "out"].date = job[s].date
  BY <1>0 DEF Job
<1>6. CASE d = job[s].date
  <2>1. posted'[d] = posted[d] + 1
    BY <1>0, <1>6 DEF AnswerLost, EmailLeaves
  <2>2. uncounted'[d] = uncounted[d] + 1
    BY <1>0, <1>5, <1>6 DEF AnswerLost, LoseMark
  <2> QED BY <1>2, <1>3, <1>4, <2>1, <2>2, CapTyped DEF CapAt
<1>7. CASE d # job[s].date
  <2>1. posted'[d] = posted[d]
    BY <1>0, <1>7 DEF AnswerLost, EmailLeaves
  <2>2. uncounted'[d] = uncounted[d]
    BY <1>0, <1>5, <1>7 DEF AnswerLost, LoseMark
  <2> QED BY <1>2, <1>3, <1>4, <2>1, <2>2, CapTyped DEF CapAt
<1> QED BY <1>6, <1>7

LEMMA CapStep ==
    ASSUME TypeOK, CapInv, [Next]_vars PROVE CapInv'
<1>0. /\ job \in [Senders -> Job] /\ Sweeps \subseteq Senders /\ Operators \subseteq Senders
      /\ \A q \in Seqs : threadOf[q] \in Threads
      /\ \A st \in Steps : seqOf[st] \in Seqs
  BY OutreachAssumption DEF TypeOK, Senders
<1> USE DEF worldVars, tallyVars
<1>1. ASSUME NEW w \in Sweeps, SweepStep(w) PROVE CapInv'
  <2>1. ASSUME NEW st \in Steps, ClearStep(w, st) PROVE CapInv'
    <3>0. job[w].at = "pick"
      BY <2>1 DEF ClearStep, Taking
    <3>1. CASE mailbox = "active" /\ st \in Passing /\ ~Refused(threadOf[seqOf[st]])
      <4> DEFINE j == Cleared(job[w], st, threadOf[seqOf[st]])
      <4>1. j \in Job
        BY <1>0, ClearedTyped, TypeParts
      <4>2. j.at = "cleared" /\ j.date = day
        BY <1>0 DEF Cleared, Job
      <4>3. job' = [job EXCEPT ![w] = j] /\ UNCHANGED <<counter, posted, uncounted>>
        BY <2>1, <3>1 DEF ClearStep
      <4>4. ~CapReached
        BY <3>1 DEF Refused
      <4> HIDE DEF j
      <4> QED BY <1>0, <3>0, <4>1, <4>2, <4>3, <4>4, CapCleared
    <3>2. CASE ~(mailbox = "active" /\ st \in Passing /\ ~Refused(threadOf[seqOf[st]]))
      <4>1. job' = [job EXCEPT ![w] = [job[w] EXCEPT !.todo = @ \ {st}]]
        BY <2>1, <3>2 DEF ClearStep
      <4>2. [job[w] EXCEPT !.todo = @ \ {st}].at = "pick"
        BY <1>0, <3>0 DEF Job
      <4> QED BY <1>0, <2>1, <3>0, <4>1, <4>2, CapQuiet DEF ClearStep
    <3> QED BY <3>1, <3>2
  <2>2. CASE SweepStart(w)
    BY <1>0, <2>2, CapQuiet DEF SweepStart, NoJob
  <2>3. ASSUME NEW st \in Steps, OpenTask(w, st) PROVE CapInv'
    <3>1. \A s \in Senders : \/ job'[s] = job[s]
                             \/ job'[s].at \notin {"cleared", "out"} /\ job[s].at # "out"
      BY <1>0, <2>3 DEF OpenTask, Taking, Job
    <3> QED BY <2>3, <3>1, CapQuiet DEF OpenTask
  <2>4. CASE MarkStep(w)
    BY <1>0, <2>4, CapQuiet DEF MarkStep, NextStep, NoJob
  <2>5. CASE ListActive(w)
    BY <1>0, <2>5, CapQuiet DEF ListActive, NoJob
  <2>6. ASSUME NEW q \in Seqs, CloseSequence(w, q) PROVE CapInv'
    <3>1. \A s \in Senders : \/ job'[s] = job[s]
                             \/ job'[s].at \notin {"cleared", "out"} /\ job[s].at # "out"
      BY <1>0, <2>6 DEF CloseSequence, NoJob, Job
    <3> QED BY <2>6, <3>1, CapQuiet DEF CloseSequence
  <2> QED BY <1>1, <2>1, <2>2, <2>3, <2>4, <2>5, <2>6 DEF SweepStep
<1>2. ASSUME NEW s \in Senders, SendStep(s) \/ TransportFails(s) \/ AnswerLost(s) \/ Crash(s)
      PROVE  CapInv'
  <2>1. CASE CountCollides(s)
    BY <2>1, CapLost DEF CountCollides
  <2>2. CASE TransportFails(s)
    BY <1>0, <2>2, CapQuiet DEF TransportFails, Abort, NoJob
  <2>3. CASE Crash(s)
    <3>1. CASE job[s].at = "out"
      BY <2>3, <3>1, CapLost DEF Crash
    <3>2. CASE job[s].at # "out"
      BY <1>0, <2>3, <3>2, CapQuiet DEF Crash, LoseMark, Abort, NoJob
    <3> QED BY <3>1, <3>2
  <2> QED BY <1>2, <2>1, <2>2, <2>3, CapDeliver, CapCount, CapAnswer DEF SendStep
<1>3. ASSUME NEW w \in Sweeps, NEW st \in Steps, GateUnreachable(w, st) PROVE CapInv'
  BY <1>0, <1>3, CapQuiet DEF GateUnreachable, Taking, Abort, NoJob
<1>4. CASE UNCHANGED <<job, counter, posted, uncounted>>
  BY <1>4, CapQuiet
<1>5. CASE People
  <2>1. ASSUME NEW o \in Operators, NEW t \in Threads, ManualSend(o, t) PROVE CapInv'
    <3>1. Cleared(job[o], None, t) \in Job
      BY <1>0, ClearedTyped, TypeParts
    <3>2. /\ Cleared(job[o], None, t).at = "cleared" /\ Cleared(job[o], None, t).date = day
          /\ ~CapReached /\ job[o].at = "off"
      BY <1>0, <2>1 DEF Cleared, Job, Refused, ManualSend
    <3>3. /\ job' = [job EXCEPT ![o] = Cleared(job[o], None, t)]
          /\ UNCHANGED <<counter, posted, uncounted>>
      BY <2>1 DEF ManualSend
    <3> QED BY <1>0, <3>1, <3>2, <3>3, CapCleared
  <2> QED BY <1>5, <1>4, <2>1
          DEF People, Enroll, EnrollStep, Suppress, Unsuppress, ToggleMailbox
<1>6. CASE Syncs
  BY <1>6, <1>4 DEF Syncs, MailArrives, Triage, GmailFetch, TriageFails, GmailStamp, GmailCrash,
                    CalendarStamp
<1>7. CASE NewDay \/ UNCHANGED vars \/ \E q \in Seqs : EnrollCrash(q)
  BY <1>7, <1>4 DEF NewDay, vars, EnrollCrash
<1> QED BY <1>1, <1>2, <1>3, <1>5, <1>6, <1>7 DEF Next, Failures

\* However the counter's readers interleave, a day's emails exceed the warm-up cap
\* by at most one per other sender and one per email that was never counted.
THEOREM CapHeld == Spec => []CapOvershoot
<1>1. Init => CapInv
  <2> SUFFICES ASSUME Init, NEW d \in Days PROVE CapAt(d)
    BY DEF CapInv
  <2>1. Posting(d) = {} /\ Sent(d) = {} /\ SentOn(d) = 0
    BY DEF Init, Posting, Sent, SentOn, NoJob
  <2>2. EffectiveCap(d) \in Nat /\ Cardinality(Senders) \in Nat \ {0}
    BY CapNat, SenderSets
  <2>3. Cardinality(Posting(d)) = 0 /\ Cardinality(Sent(d)) = 0
    BY <2>1, FS_EmptySet
  <2> QED BY <2>1, <2>2, <2>3 DEF CapAt, Init
<1>2. TypeOK /\ CapInv => CapOvershoot
  <2> SUFFICES ASSUME TypeOK, CapInv, NEW d \in Days
               PROVE  posted[d] <= EffectiveCap(d) + Cardinality(Senders) - 1 + uncounted[d]
    BY DEF CapOvershoot
  <2>1. Cardinality(Sent(d)) <= Cardinality(Posting(d))
    <3>1. Sent(d) \subseteq Posting(d) /\ Posting(d) \subseteq Senders
      BY DEF Sent, Posting
    <3> QED BY <3>1, SenderSets
  <2> QED BY <2>1, CapTyped DEF CapInv, CapAt
<1> QED BY <1>1, <1>2, TypeInit, TypeStep, CapStep, PTL DEF Spec
-----------------------------------------------------------------------------
(* The outputs of a step.  Before it is marked, every output is cut or belongs   *)
(* to a sweep that is about to mark it; afterwards only the sweeps that have   *)
(* it in their list, or are mailing it, can still add one.                     *)

JobInv == \A s \in Senders : /\ s \notin Sweeps => job[s].step = None
                             /\ job[s].step \notin job[s].todo

Marking(st) == {w \in Sweeps : job[w].step = st /\ job[w].at \in {"out", "counted", "task"}}
Holding(st) == {w \in Sweeps : st \in job[w].todo \/ (job[w].at = "cleared" /\ job[w].step = st)}

Marked(st) == step[st] \in {"sent", "task_open"}

BudgetAt(st) ==
    IF Marked(st) THEN out[st] + Cardinality(Holding(st)) <= cut[st] + Cardinality(Sweeps)
    ELSE out[st] <= cut[st] + Cardinality(Marking(st))
BudgetInv == \A st \in Steps : BudgetAt(st)

LEMMA BudgetTyped ==
    ASSUME TypeOK, NEW st \in Steps
    PROVE  /\ out[st] \in Nat /\ cut[st] \in Nat /\ Cardinality(Sweeps) \in Nat
           /\ Marking(st) \subseteq Senders /\ Cardinality(Marking(st)) \in Nat
           /\ Holding(st) \subseteq Senders /\ Cardinality(Holding(st)) \in Nat
           /\ Cardinality(Marking(st)) <= Cardinality(Sweeps)
           /\ st # None
<1>1. out[st] \in Nat /\ cut[st] \in Nat /\ Sweeps \subseteq Senders /\ st # None
  BY OutreachAssumption DEF TypeOK, Senders
<1>2. Marking(st) \subseteq Sweeps /\ Holding(st) \subseteq Sweeps
  BY DEF Marking, Holding
<1> QED BY <1>1, <1>2, SenderSets

LEMMA JobStep ==
    ASSUME TypeOK, JobInv, [Next]_vars PROVE JobInv'
<1>0. /\ job \in [Senders -> Job] /\ None \notin Steps
      /\ Sweeps \subseteq Senders /\ Operators \subseteq Senders
  BY OutreachAssumption DEF TypeOK, Senders
<1>j. ASSUME NEW s \in Senders, NEW j, job' = [job EXCEPT ![s] = j],
             s \notin Sweeps => j.step = None, j.step \notin j.todo
      PROVE  JobInv'
  BY <1>0, <1>j DEF JobInv
<1>n. NoJob.step = None /\ NoJob.step \notin NoJob.todo
  BY DEF NoJob
<1>c. ASSUME NEW s \in Senders, NEW st \in Steps \cup {None}, NEW t,
             s \notin Sweeps => st = None
      PROVE  /\ s \notin Sweeps => Cleared(job[s], st, t).step = None
             /\ Cleared(job[s], st, t).step \notin Cleared(job[s], st, t).todo
  BY <1>0, <1>c DEF Cleared, Job
<1>4. CASE UNCHANGED job
  BY <1>4 DEF JobInv
<1>1. ASSUME NEW w \in Sweeps, SweepStep(w) PROVE JobInv'
  <2>0. job[w].step \notin job[w].todo /\ job[w] \in Job
    BY <1>0 DEF JobInv
  <2>1. ASSUME NEW st \in Steps, ClearStep(w, st) PROVE JobInv'
    <3>1. CASE mailbox = "active" /\ st \in Passing /\ ~Refused(threadOf[seqOf[st]])
      <4>1. job' = [job EXCEPT ![w] = Cleared(job[w], st, threadOf[seqOf[st]])]
        BY <2>1, <3>1 DEF ClearStep
      <4> QED BY <1>0, <1>j, <1>c, <4>1
    <3>2. CASE ~(mailbox = "active" /\ st \in Passing /\ ~Refused(threadOf[seqOf[st]]))
      <4>1. job' = [job EXCEPT ![w] = [job[w] EXCEPT !.todo = @ \ {st}]]
        BY <2>1, <3>2 DEF ClearStep
      <4>2. LET j == [job[w] EXCEPT !.todo = @ \ {st}] IN j.step \notin j.todo
        BY <2>0 DEF Job
      <4> QED BY <1>0, <1>j, <4>1, <4>2
    <3> QED BY <3>1, <3>2
  <2>2. CASE SweepStart(w)
    <3>1. LET j == [NoJob EXCEPT !.at = "pick", !.todo = DueSteps] IN j.step \notin j.todo
      BY <1>0 DEF NoJob, DueSteps
    <3> QED BY <1>0, <1>j, <2>2, <3>1 DEF SweepStart
  <2>3. ASSUME NEW st \in Steps, OpenTask(w, st) PROVE JobInv'
    <3>1. /\ \A s \in Senders \ {w} : job'[s] = job[s]
          /\ job'[w].step = st /\ job'[w].todo = job[w].todo \ {st}
      BY <1>0, <2>3 DEF OpenTask, Job
    <3> QED BY <3>1, <1>0 DEF JobInv
  <2>4. CASE MarkStep(w)
    <3>1. LET j == [NoJob EXCEPT !.at = "pick", !.todo = job[w].todo] IN j.step \notin j.todo
      BY <1>0 DEF NoJob, Job
    <3> QED BY <1>0, <1>j, <2>4, <3>1 DEF MarkStep, NextStep
  <2>5. CASE ListActive(w)
    <3>1. \A s \in Senders \ {w} : job'[s] = job[s]
      BY <1>0, <2>5 DEF ListActive
    <3>2. job'[w].todo = {}
      BY <1>0, <2>5 DEF ListActive, NoJob
    <3> QED BY <3>1, <3>2, <1>0 DEF JobInv
  <2>6. ASSUME NEW q \in Seqs, CloseSequence(w, q) PROVE JobInv'
    <3>1. CASE job[w].left = {q}
      <4>1. job' = [job EXCEPT ![w] = NoJob]
        BY <2>6, <3>1 DEF CloseSequence
      <4> QED BY <4>1, <1>0, <1>j, <1>n
    <3>2. CASE job[w].left # {q}
      <4>1. job' = [job EXCEPT ![w] = [job[w] EXCEPT !.left = @ \ {q}]]
        BY <2>6, <3>2 DEF CloseSequence
      <4>2. LET j == [job[w] EXCEPT !.left = @ \ {q}] IN j.step \notin j.todo
        BY <2>0 DEF Job
      <4> QED BY <1>0, <1>j, <4>1, <4>2
    <3> QED BY <3>1, <3>2
  <2> QED BY <1>1, <2>1, <2>2, <2>3, <2>4, <2>5, <2>6 DEF SweepStep
<1>2. ASSUME NEW s \in Senders, SendStep(s) \/ TransportFails(s) \/ AnswerLost(s) \/ Crash(s)
      PROVE  JobInv'
  <2>0. /\ s \notin Sweeps => job[s].step = None
        /\ job[s].step \notin job[s].todo /\ job[s] \in Job
    BY <1>0 DEF JobInv
  <2>1. CASE Deliver(s)
    <3>1. LET j == [job[s] EXCEPT !.at = "out"]
          IN (s \notin Sweeps => j.step = None) /\ j.step \notin j.todo
      BY <2>0 DEF Job
    <3>2. job' = [job EXCEPT ![s] = [job[s] EXCEPT !.at = "out"]]
      BY <2>1 DEF Deliver
    <3> QED BY <1>0, <1>j, <3>1, <3>2
  <2>2. CASE Count(s)
    <3>1. CASE s \in Sweeps
      <4> DEFINE j == [NoJob EXCEPT !.at = "counted", !.todo = job[s].todo, !.step = job[s].step]
      <4>1. job' = [job EXCEPT ![s] = j]
        BY <2>2, <3>1 DEF Count, AfterCount
      <4>2. j.step \notin j.todo
        BY <2>0 DEF NoJob
      <4> QED BY <1>0, <1>j, <3>1, <4>1, <4>2
    <3>2. CASE s \notin Sweeps
      BY <1>j, <1>n, <2>2, <3>2 DEF Count, AfterCount
    <3> QED BY <3>1, <3>2
  <2>3. CASE Abort(s)
    BY <1>j, <1>n, <2>3 DEF Abort
  <2> QED BY <1>2, <2>1, <2>2, <2>3 DEF SendStep, CountCollides, TransportFails, AnswerLost, Crash
<1>3. CASE Failures
  BY <1>3, <1>0, <1>2, <1>4, <1>j, <1>n DEF Failures, GateUnreachable, Abort, EnrollCrash
<1>5. CASE People
  <2>1. ASSUME NEW o \in Operators, NEW t \in Threads, ManualSend(o, t) PROVE JobInv'
    <3>1. job' = [job EXCEPT ![o] = Cleared(job[o], None, t)]
      BY <2>1 DEF ManualSend
    <3> QED BY <1>0, <1>j, <1>c, <3>1
  <2> QED BY <1>5, <1>4, <2>1
          DEF People, Enroll, EnrollStep, Suppress, Unsuppress, ToggleMailbox
<1>6. CASE Syncs
  BY <1>6, <1>4 DEF Syncs, MailArrives, Triage, GmailFetch, TriageFails, GmailStamp, GmailCrash,
                    CalendarStamp
<1>7. CASE NewDay \/ UNCHANGED vars
  BY <1>7, <1>4 DEF NewDay, vars
<1> QED BY <1>1, <1>2, <1>3, <1>5, <1>6, <1>7 DEF Next
\* No output is added, and no sweep stops being about to mark, or comes to hold,
\* a step it matters for.
LEMMA BudgetQuiet ==
    ASSUME TypeOK, BudgetInv, UNCHANGED <<out, cut>>,
           \A st \in Steps : /\ Marked(st)' = Marked(st)
                             /\ ~Marked(st) => Marking(st) \subseteq Marking(st)'
                             /\ Marked(st) => Holding(st)' \subseteq Holding(st)
    PROVE  BudgetInv'
<1> SUFFICES ASSUME NEW st \in Steps PROVE BudgetAt(st)'
  BY DEF BudgetInv
<1>1. BudgetAt(st)
  BY DEF BudgetInv
<1>2. Marking(st)' \subseteq Senders /\ Holding(st)' \subseteq Senders
  BY DEF Marking, Holding, Senders
<1>3. CASE Marked(st)
  <2>1. Cardinality(Holding(st)') <= Cardinality(Holding(st)) /\ Cardinality(Holding(st)') \in Nat
    BY <1>2, <1>3, SenderSets, BudgetTyped
  <2>2. Marked(st)'
    BY <1>3
  <2> QED BY <1>1, <1>3, <2>1, <2>2, BudgetTyped DEF BudgetAt
<1>4. CASE ~Marked(st)
  <2>1. Cardinality(Marking(st)) <= Cardinality(Marking(st)') /\ Cardinality(Marking(st)') \in Nat
    BY <1>2, <1>4, SenderSets
  <2>2. ~Marked(st)'
    BY <1>4
  <2> QED BY <1>1, <1>4, <2>1, <2>2, BudgetTyped DEF BudgetAt
<1> QED BY <1>3, <1>4

\* One sender's state changes and no row: it was not about to mark, and holds no more.
LEMMA BudgetIdle ==
    ASSUME TypeOK, BudgetInv, UNCHANGED <<out, cut, step>>, NEW s \in Senders,
           \A x \in Senders \ {s} : job'[x] = job[x],
           \A st \in Steps : /\ ~(job[s].step = st /\ job[s].at \in {"out", "counted", "task"})
                                \/ (job'[s].step = st /\ job'[s].at \in {"out", "counted", "task"})
                             /\ Marked(st) /\ (st \in job'[s].todo
                                                \/ (job'[s].at = "cleared" /\ job'[s].step = st))
                                => (st \in job[s].todo
                                    \/ (job[s].at = "cleared" /\ job[s].step = st))
    PROVE  BudgetInv'
<1>1. \A st \in Steps : Marked(st)' = Marked(st)
  BY DEF Marked
<1>2. Sweeps \subseteq Senders
  BY DEF Senders
<1>3. \A st \in Steps : Marking(st) \subseteq Marking(st)'
  BY <1>2 DEF Marking
<1>4. \A st \in Steps : Marked(st) => Holding(st)' \subseteq Holding(st)
  BY <1>2 DEF Holding
<1> QED BY <1>1, <1>3, <1>4, BudgetQuiet

\* A sender ends: what it had put out without marking it is cut.
LEMMA BudgetAbort ==
    ASSUME TypeOK, JobInv, BudgetInv, UNCHANGED <<out, step>>, NEW s \in Senders,
           LoseMark(job[s]), Abort(s)
    PROVE  BudgetInv'
<1>0. job \in [Senders -> Job] /\ cut \in [Steps -> Nat]
  BY DEF TypeOK
<1> SUFFICES ASSUME NEW st \in Steps PROVE BudgetAt(st)'
  BY DEF BudgetInv
<1>1. BudgetAt(st) /\ Marked(st)' = Marked(st)
  BY DEF BudgetInv, Marked
<1>2. /\ job'[s].at = "off" /\ job'[s].todo = {}
      /\ \A x \in Senders \ {s} : job'[x] = job[x]
  BY <1>0 DEF Abort, NoJob
<1>3. Sweeps \subseteq Senders
  BY DEF Senders
<1>4. Holding(st)' \subseteq Holding(st)
  BY <1>2, <1>3 DEF Holding
<1>5. Cardinality(Holding(st)') <= Cardinality(Holding(st)) /\ Cardinality(Holding(st)') \in Nat
  BY <1>4, SenderSets, BudgetTyped
<1>6. CASE job[s].step = st /\ job[s].at \in {"out", "counted", "task"}
  <2>1. s \in Sweeps
    BY <1>6, BudgetTyped DEF JobInv
  <2>2. s \in Marking(st) /\ Marking(st)' = Marking(st) \ {s}
    BY <1>2, <1>3, <1>6, <2>1 DEF Marking
  <2>3. Cardinality(Marking(st)') = Cardinality(Marking(st)) - 1
    BY <2>2, SenderSets, BudgetTyped
  <2>4. cut'[st] = cut[st] + 1
    BY <1>0, <1>6, BudgetTyped DEF LoseMark
  <2> QED BY <1>1, <1>5, <2>3, <2>4, BudgetTyped DEF BudgetAt
<1>7. CASE ~(job[s].step = st /\ job[s].at \in {"out", "counted", "task"})
  <2>1. Marking(st)' = Marking(st)
    BY <1>2, <1>3, <1>7 DEF Marking
  <2>2. cut'[st] = cut[st]
    BY <1>0, <1>7 DEF LoseMark
  <2> QED BY <1>1, <1>5, <2>1, <2>2, BudgetTyped DEF BudgetAt
<1> QED BY <1>6, <1>7

\* A sweep that holds a step puts its output out, and is about to mark it.
LEMMA BudgetOutput ==
    ASSUME TypeOK, JobInv, BudgetInv, UNCHANGED <<cut, step>>,
           NEW w \in Sweeps, NEW st \in Steps,
           st \in job[w].todo \/ (job[w].at = "cleared" /\ job[w].step = st),
           job[w].at \notin {"out", "counted", "task"},
           out' = [out EXCEPT ![st] = @ + 1],
           \A x \in Senders \ {w} : job'[x] = job[x],
           job'[w].at \in {"out", "task"}, job'[w].step = st, job'[w].todo = job[w].todo \ {st}
    PROVE  BudgetInv'
<1>0. out \in [Steps -> Nat] /\ Sweeps \subseteq Senders
  BY DEF TypeOK, Senders
<1> SUFFICES ASSUME NEW x \in Steps PROVE BudgetAt(x)'
  BY DEF BudgetInv
<1>1. BudgetAt(x) /\ Marked(x)' = Marked(x)
  BY DEF BudgetInv, Marked
<1>2. CASE x = st
  <2>1. w \in Senders \ Marking(x) /\ Marking(x)' = Marking(x) \cup {w}
    BY <1>0, <1>2 DEF Marking
  <2>2. w \in Holding(x) /\ Holding(x)' = Holding(x) \ {w}
    BY <1>0, <1>2 DEF Holding
  <2>3. /\ Cardinality(Marking(x)') = Cardinality(Marking(x)) + 1
        /\ Cardinality(Holding(x)') = Cardinality(Holding(x)) - 1
    BY <2>1, <2>2, SenderSets, BudgetTyped
  <2>4. out'[x] = out[x] + 1
    BY <1>0, <1>2
  <2> QED BY <1>1, <2>3, <2>4, BudgetTyped DEF BudgetAt
<1>3. CASE x # st
  <2>1. Marking(x)' = Marking(x)
    BY <1>0, <1>3 DEF Marking
  <2>2. Holding(x)' \subseteq Holding(x)
    BY <1>0, <1>3 DEF Holding
  <2>3. Cardinality(Holding(x)') <= Cardinality(Holding(x)) /\ Cardinality(Holding(x)') \in Nat
    BY <2>2, SenderSets, BudgetTyped
  <2>4. out'[x] = out[x]
    BY <1>0, <1>3
  <2> QED BY <1>1, <2>1, <2>3, <2>4, BudgetTyped DEF BudgetAt
<1> QED BY <1>2, <1>3

LEMMA BudgetAnswer ==
    ASSUME TypeOK, JobInv, BudgetInv, NEW s \in Senders, AnswerLost(s) PROVE BudgetInv'
<1>0. /\ job \in [Senders -> Job] /\ cut \in [Steps -> Nat] /\ out \in [Steps -> Nat]
      /\ job[s] \in Job /\ job[s].at = "cleared" /\ Sweeps \subseteq Senders
  BY DEF TypeOK, AnswerLost, Senders
<1> SUFFICES ASSUME NEW st \in Steps PROVE BudgetAt(st)'
  BY DEF BudgetInv
<1>1. BudgetAt(st) /\ Marked(st)' = Marked(st)
  BY DEF BudgetInv, Marked, AnswerLost, tableVars
<1>2. /\ job'[s].at = "off" /\ job'[s].todo = {}
      /\ \A x \in Senders \ {s} : job'[x] = job[x]
  BY <1>0 DEF AnswerLost, Abort, NoJob
<1>3. Holding(st)' \subseteq Holding(st) /\ Marking(st)' = Marking(st)
  BY <1>0, <1>2 DEF Holding, Marking
<1>4. Cardinality(Holding(st)') <= Cardinality(Holding(st)) /\ Cardinality(Holding(st)') \in Nat
  BY <1>3, SenderSets, BudgetTyped
<1>5. /\ [job[s] EXCEPT !.at = "out"].at = "out"
      /\ [job[s] EXCEPT !.at = "out"].step = job[s].step
  BY <1>0 DEF Job
<1>6. CASE job[s].step = st
  <2>1. out'[st] = out[st] + 1
    BY <1>0, <1>6, BudgetTyped DEF AnswerLost, EmailLeaves
  <2>2. cut'[st] = cut[st] + 1
    BY <1>0, <1>5, <1>6, BudgetTyped DEF AnswerLost, LoseMark
  <2> QED BY <1>1, <1>3, <1>4, <2>1, <2>2, BudgetTyped DEF BudgetAt
<1>7. CASE job[s].step # st
  <2>1. out'[st] = out[st]
    BY <1>0, <1>7 DEF AnswerLost, EmailLeaves
  <2>2. cut'[st] = cut[st]
    BY <1>0, <1>5, <1>7 DEF AnswerLost, LoseMark
  <2> QED BY <1>1, <1>3, <1>4, <2>1, <2>2, BudgetTyped DEF BudgetAt
<1> QED BY <1>6, <1>7

LEMMA BudgetMark ==
    ASSUME TypeOK, JobInv, BudgetInv, NEW w \in Sweeps, MarkStep(w) PROVE BudgetInv'
<1>0. /\ job \in [Senders -> Job] /\ job[w] \in Job /\ Sweeps \subseteq Senders
      /\ step \in [Steps -> {"none", "pending", "sent", "task_open"}]
      /\ job[w].at \in {"counted", "task"}
  BY DEF TypeOK, MarkStep, Senders
<1> SUFFICES ASSUME NEW st \in Steps PROVE BudgetAt(st)'
  BY DEF BudgetInv
<1>1. BudgetAt(st) /\ out' = out /\ cut' = cut
  BY DEF BudgetInv, MarkStep, tallyVars
<1>2. /\ job'[w].at = "pick" /\ job'[w].todo = job[w].todo
      /\ \A x \in Senders \ {w} : job'[x] = job[x]
  BY <1>0 DEF MarkStep, NextStep, NoJob
<1>3. Holding(st)' = Holding(st)
  BY <1>0, <1>2 DEF Holding
<1>4. CASE job[w].step = st
  <2>1. Marked(st)'
    BY <1>0, <1>4 DEF MarkStep, Marked
  <2>2. CASE Marked(st)
    BY <1>1, <1>3, <2>1, <2>2 DEF BudgetAt
  <2>3. CASE ~Marked(st)
    <3>1. /\ Marking(st) \cap Holding(st) = {}
          /\ Marking(st) \cup Holding(st) \subseteq Sweeps
      BY <1>0 DEF Marking, Holding, JobInv
    <3>2. IsFiniteSet(Marking(st)) /\ IsFiniteSet(Holding(st)) /\ Sweeps \subseteq Senders
      BY <1>0, SenderSets, BudgetTyped
    <3>3. Cardinality(Marking(st) \cup Holding(st))
              = Cardinality(Marking(st)) + Cardinality(Holding(st))
      <4>1. Cardinality(Marking(st) \cup Holding(st))
              = Cardinality(Marking(st)) + Cardinality(Holding(st))
                - Cardinality(Marking(st) \cap Holding(st))
        BY <3>2, FS_Union
      <4>2. Cardinality(Marking(st) \cap Holding(st)) = 0
        BY <3>1, FS_EmptySet
      <4> QED BY <4>1, <4>2, BudgetTyped
    <3>4. Cardinality(Marking(st) \cup Holding(st)) <= Cardinality(Sweeps)
      BY <3>1, <3>2, SenderSets
    <3> QED BY <1>1, <1>3, <2>1, <2>3, <3>3, <3>4, BudgetTyped DEF BudgetAt
  <2> QED BY <2>2, <2>3
<1>5. CASE job[w].step # st
  <2>1. Marked(st)' = Marked(st)
    BY <1>0, <1>5 DEF MarkStep, Marked
  <2>2. Marking(st)' = Marking(st)
    BY <1>0, <1>2, <1>5 DEF Marking
  <2> QED BY <1>1, <1>3, <2>1, <2>2 DEF BudgetAt
<1> QED BY <1>4, <1>5

LEMMA BudgetStep ==
    ASSUME TypeOK, JobInv, BudgetInv, [Next]_vars PROVE BudgetInv'
<1>0. /\ job \in [Senders -> Job] /\ step \in [Steps -> {"none", "pending", "sent", "task_open"}]
      /\ Sweeps \subseteq Senders /\ Operators \subseteq Senders /\ None \notin Steps
      /\ out \in [Steps -> Nat]
  BY OutreachAssumption DEF TypeOK, Senders
<1> USE DEF tableVars, tallyVars
<1>1. ASSUME NEW w \in Sweeps, SweepStep(w) PROVE BudgetInv'
  <2>0. job[w] \in Job /\ w \in Senders
    BY <1>0
  <2>1. ASSUME NEW st \in Steps, ClearStep(w, st) PROVE BudgetInv'
    <3>0. job[w].at = "pick" /\ st \in job[w].todo /\ UNCHANGED <<out, cut, step>>
      BY <2>1 DEF ClearStep, Taking, First
    <3>1. CASE mailbox = "active" /\ st \in Passing /\ ~Refused(threadOf[seqOf[st]])
      <4>1. job' = [job EXCEPT ![w] = Cleared(job[w], st, threadOf[seqOf[st]])]
        BY <2>1, <3>1 DEF ClearStep
      <4>2. /\ \A x \in Senders \ {w} : job'[x] = job[x]
            /\ job'[w].at = "cleared" /\ job'[w].step = st /\ job'[w].todo = job[w].todo \ {st}
        BY <1>0, <2>0, <4>1 DEF Cleared, Job
      <4> QED BY <2>0, <3>0, <4>2, BudgetIdle
    <3>2. CASE ~(mailbox = "active" /\ st \in Passing /\ ~Refused(threadOf[seqOf[st]]))
      <4>1. job' = [job EXCEPT ![w] = [job[w] EXCEPT !.todo = @ \ {st}]]
        BY <2>1, <3>2 DEF ClearStep
      <4>2. /\ \A x \in Senders \ {w} : job'[x] = job[x]
            /\ job'[w].at = "pick" /\ job'[w].todo = job[w].todo \ {st}
        BY <1>0, <2>0, <3>0, <4>1 DEF Job
      <4> QED BY <2>0, <3>0, <4>2, BudgetIdle
    <3> QED BY <3>1, <3>2
  <2>2. CASE SweepStart(w)
    <3>1. /\ \A x \in Senders \ {w} : job'[x] = job[x]
          /\ job'[w].at = "pick" /\ job'[w].todo = DueSteps /\ job[w].at = "off"
          /\ UNCHANGED <<out, cut, step>>
      BY <1>0, <2>0, <2>2 DEF SweepStart, NoJob
    <3>2. \A st \in Steps : Marked(st) => st \notin DueSteps
      BY DEF Marked, DueSteps
    <3> QED BY <2>0, <3>1, <3>2, BudgetIdle
  <2>3. ASSUME NEW st \in Steps, OpenTask(w, st) PROVE BudgetInv'
    <3>1. job[w].at = "pick" /\ st \in job[w].todo
      BY <2>3 DEF OpenTask, Taking, First
    <3>2. /\ \A x \in Senders \ {w} : job'[x] = job[x]
          /\ job'[w].at = "task" /\ job'[w].step = st /\ job'[w].todo = job[w].todo \ {st}
      BY <1>0, <2>0, <2>3 DEF OpenTask, Job
    <3>3. out' = [out EXCEPT ![st] = @ + 1] /\ UNCHANGED <<cut, step>>
      BY <2>3 DEF OpenTask
    <3> QED BY <3>1, <3>2, <3>3, BudgetOutput
  <2>4. CASE ListActive(w)
    <3>1. /\ \A x \in Senders \ {w} : job'[x] = job[x]
          /\ job'[w].at \in {"off", "close"} /\ job'[w].todo = {} /\ job[w].at = "pick"
          /\ UNCHANGED <<out, cut, step>>
      BY <1>0, <2>0, <2>4 DEF ListActive, NoJob
    <3> QED BY <2>0, <3>1, BudgetIdle
  <2>5. ASSUME NEW q \in Seqs, CloseSequence(w, q) PROVE BudgetInv'
    <3>1. \A x \in Senders \ {w} : job'[x] = job[x]
      BY <1>0, <2>0, <2>5 DEF CloseSequence
    <3>2. job[w].at = "close" /\ UNCHANGED <<out, cut, step>>
      BY <2>5 DEF CloseSequence
    <3>3. job'[w].at \in {"off", "close"} /\ job'[w].todo \subseteq job[w].todo
      <4>1. CASE job[w].left = {q}
        BY <1>0, <2>0, <2>5, <4>1 DEF CloseSequence, NoJob
      <4>2. CASE job[w].left # {q}
        <5>1. job' = [job EXCEPT ![w] = [job[w] EXCEPT !.left = @ \ {q}]]
          BY <2>5, <4>2 DEF CloseSequence
        <5> QED BY <1>0, <2>0, <3>2, <5>1 DEF Job
      <4> QED BY <4>1, <4>2
    <3> QED BY <2>0, <3>1, <3>2, <3>3, BudgetIdle
  <2> QED BY <1>1, <2>1, <2>2, <2>3, <2>4, <2>5, BudgetMark DEF SweepStep
<1>2. ASSUME NEW s \in Senders, SendStep(s) \/ TransportFails(s) \/ AnswerLost(s) \/ Crash(s)
      PROVE  BudgetInv'
  <2>0. job[s] \in Job /\ (s \notin Sweeps => job[s].step = None) /\ job[s].step \notin job[s].todo
    BY <1>0 DEF JobInv
  <2>1. CASE Deliver(s)
    <3>1. /\ \A x \in Senders \ {s} : job'[x] = job[x]
          /\ job[s].at = "cleared" /\ job'[s].at = "out"
          /\ job'[s].step = job[s].step /\ job'[s].todo = job[s].todo
          /\ UNCHANGED <<cut, step>>
      BY <1>0, <2>0, <2>1 DEF Deliver, Job
    <3>2. CASE job[s].step = None
      <4>1. out' = out
        BY <2>1, <3>2 DEF Deliver, EmailLeaves
      <4> QED BY <1>0, <3>1, <3>2, <4>1, BudgetIdle
    <3>3. CASE job[s].step # None
      <4>1. job[s].step \in Steps /\ s \in Sweeps
        BY <2>0, <3>3 DEF Job
      <4>2. out' = [out EXCEPT ![job[s].step] = @ + 1]
        BY <2>1, <3>3 DEF Deliver, EmailLeaves
      <4>3. job'[s].todo = job[s].todo \ {job[s].step}
        BY <2>0, <3>1
      <4> QED BY <3>1, <4>1, <4>2, <4>3, BudgetOutput
    <3> QED BY <3>2, <3>3
  <2>2. CASE Count(s)
    <3>1. \A x \in Senders \ {s} : job'[x] = job[x]
      BY <1>0, <2>2 DEF Count, AfterCount
    <3>2. job[s].at = "out" /\ UNCHANGED <<out, cut, step>>
      BY <2>2 DEF Count
    <3>3. CASE s \in Sweeps
      <4>1. /\ job'[s].at = "counted" /\ job'[s].todo = job[s].todo
            /\ job'[s].step = job[s].step
        BY <1>0, <2>2, <3>3 DEF Count, AfterCount, NoJob
      <4> QED BY <3>1, <3>2, <4>1, BudgetIdle
    <3>4. CASE s \notin Sweeps
      <4>1. job'[s].at = "off" /\ job'[s].todo = {}
        BY <1>0, <2>2, <3>4 DEF Count, AfterCount, NoJob
      <4>2. job[s].step \notin Steps
        BY <1>0, <2>0, <3>4
      <4> QED BY <3>1, <3>2, <4>1, <4>2, BudgetIdle
    <3> QED BY <3>3, <3>4
  <2>3. CASE CountCollides(s) \/ Crash(s)
    BY <2>3, BudgetAbort DEF CountCollides, Crash
  <2>4. CASE TransportFails(s)
    <3>1. /\ \A x \in Senders \ {s} : job'[x] = job[x]
          /\ job[s].at = "cleared" /\ job'[s].at = "off" /\ job'[s].todo = {}
          /\ UNCHANGED <<out, cut, step>>
      BY <1>0, <2>4 DEF TransportFails, Abort, NoJob
    <3> QED BY <3>1, BudgetIdle
  <2> QED BY <1>2, <2>1, <2>2, <2>3, <2>4, BudgetAnswer DEF SendStep
<1>3. ASSUME NEW w \in Sweeps, NEW st \in Steps, GateUnreachable(w, st) PROVE BudgetInv'
  <2>1. /\ \A x \in Senders \ {w} : job'[x] = job[x]
        /\ job[w].at = "pick" /\ job'[w].at = "off" /\ job'[w].todo = {} /\ w \in Senders
        /\ UNCHANGED <<out, cut, step>>
    BY <1>0, <1>3 DEF GateUnreachable, Taking, Abort, NoJob
  <2> QED BY <2>1, BudgetIdle
<1>4. ASSUME UNCHANGED <<job, out, cut>>, \A st \in Steps : Marked(st)' = Marked(st)
      PROVE  BudgetInv'
  BY <1>4, BudgetQuiet DEF Marking, Holding
<1>5. CASE UNCHANGED <<job, out, cut, step>>
  BY <1>4, <1>5 DEF Marked
<1>6. CASE People
  <2>1. ASSUME NEW o \in Operators, NEW t \in Threads, ManualSend(o, t) PROVE BudgetInv'
    <3>1. job' = [job EXCEPT ![o] = Cleared(job[o], None, t)]
      BY <2>1 DEF ManualSend
    <3>2. /\ \A x \in Senders \ {o} : job'[x] = job[x]
          /\ job'[o].step = None /\ job'[o].todo = job[o].todo \ {None}
      BY <1>0, <3>1 DEF Cleared, Job
    <3>3. job[o].at = "off" /\ UNCHANGED <<out, cut, step>>
      BY <2>1 DEF ManualSend
    <3>4. o \in Senders
      BY <1>0
    <3> QED BY <1>0, <3>2, <3>3, <3>4, BudgetIdle
  <2>2. ASSUME NEW st \in Steps, EnrollStep(st) PROVE BudgetInv'
    <3>1. step[st] = "none"
      BY <2>2 DEF EnrollStep, First
    <3>2. \A x \in Steps : Marked(x)' = Marked(x)
      BY <1>0, <2>2, <3>1 DEF EnrollStep, Marked
    <3> QED BY <2>2, <3>2, <1>4 DEF EnrollStep
  <2> QED BY <1>6, <1>5, <2>1, <2>2
          DEF People, Enroll, Suppress, Unsuppress, ToggleMailbox
<1>7. CASE Syncs
  BY <1>7, <1>5 DEF Syncs, MailArrives, Triage, GmailFetch, TriageFails, GmailStamp, GmailCrash,
                    CalendarStamp
<1>8. CASE NewDay \/ UNCHANGED vars \/ \E q \in Seqs : EnrollCrash(q)
  BY <1>8, <1>5 DEF NewDay, vars, EnrollCrash
<1> QED BY <1>1, <1>2, <1>3, <1>6, <1>7, <1>8 DEF Next, Failures

\* A step is resolved by one email, or one task, but for the outputs whose sweep
\* ended before the mark and the other sweeps that held the step when it was marked.
THEOREM StepResolvedOnce == Spec => []StepBudget
<1>1. Init => JobInv /\ BudgetInv
  <2> SUFFICES ASSUME Init PROVE JobInv /\ BudgetInv
    OBVIOUS
  <2>1. JobInv
    BY DEF Init, JobInv, NoJob
  <2>2. ASSUME NEW st \in Steps PROVE BudgetAt(st)
    <3>1. Marking(st) = {}
      BY DEF Init, Marking, NoJob, Senders
    <3>2. Cardinality(Marking(st)) = 0
      BY <3>1, FS_EmptySet
    <3> QED BY <3>2 DEF Init, BudgetAt, Marked
  <2> QED BY <2>1, <2>2 DEF BudgetInv
<1>2. TypeOK /\ BudgetInv => StepBudget
  <2> SUFFICES ASSUME TypeOK, BudgetInv, NEW st \in Steps
               PROVE  out[st] <= 1 + cut[st] + (Cardinality(Sweeps) - 1)
    BY DEF StepBudget
  <2> QED BY BudgetTyped DEF BudgetInv, BudgetAt
<1> QED BY <1>1, <1>2, TypeInit, TypeStep, JobStep, BudgetStep, PTL DEF Spec
=============================================================================
