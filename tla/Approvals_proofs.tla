--------------------------- MODULE Approvals_proofs ---------------------------
(***************************************************************************)
(* For any rows, servers, links and bounds: the types, the two approvals   *)
(* of a two-stage workspace, and how often a link is acted upon and a row  *)
(* published.                                                              *)
(***************************************************************************)
EXTENDS Approvals, FiniteSetTheorems, TLAPS

StatusTyped == status \in [Rows -> Statuses]
LinksTyped ==
    /\ review \in Reviews
    /\ token \in [Tokens -> Token]
    /\ assignment \in [Tokens -> {"none", "pending", "approved", "declined"}]
JobTyped == job \in [Servers -> Job]
EngineTyped ==
    /\ calls \in [Rows -> Nat] /\ closing \in [Rows -> Nat]
    /\ published \in [Rows -> Nat]
SignTyped == signed \in [Rows -> Nat] /\ bypassed \subseteq Rows /\ raced \subseteq Rows
TallyTyped == requests \in Nat /\ decisions \in [Tokens -> Nat] /\ revived \in [Rows -> Nat]

LEMMA TypeParts ==
    /\ TypeOK <=> /\ StatusTyped /\ LinksTyped /\ JobTyped
                  /\ EngineTyped /\ SignTyped /\ TallyTyped
    /\ TypeOK' <=> /\ StatusTyped' /\ LinksTyped' /\ JobTyped'
                   /\ EngineTyped' /\ SignTyped' /\ TallyTyped'
  BY DEF TypeOK, StatusTyped, LinksTyped, JobTyped, EngineTyped, SignTyped, TallyTyped

\* The machine moves into "approved" from the two review states only.
LEMMA ApprovedFrom ==
    ASSUME NEW st \in Statuses, CanTransition(st, "approved")
    PROVE  st \in {"pending_review", "pending_client"}
  BY DEF Statuses, CanTransition, ValidTransitions

LEMMA NextTokenFresh == Unminted # {} => NextToken \in Unminted
  BY DEF NextToken

LEMMA OutcomeTyped ==
    ASSUME NEW kind \in Services
    PROVE  /\ \A st : Outcome(kind, st) \in Statuses
           /\ \A seen : [r \in Rows |-> Outcome(kind, seen[r])] \in [Rows -> Statuses]
  BY DEF Services, Outcome, Wanted, Statuses

-----------------------------------------------------------------------------
(* Types: the pieces the actions are made of                                 *)

LEMMA ReadTyped ==
    ASSUME StatusTyped
    PROVE  \A rows : Read(rows) \in [Rows -> Statuses \cup {None}]
  BY DEF Read, StatusTyped

LEMMA NoJobTyped == NoJob \in Job /\ Nothing \in [Rows -> Statuses \cup {None}]
  BY DEF NoJob, Job, Nothing, Statuses

\* What the requests start with.
LEMMA WorkTyped ==
    ASSUME NEW at \in {"menu", "approving", "sending", "scheduling", "listed", "saving", "link"}
                          \cup Services,
           NEW t \in Tokens \cup {None}, NEW to \in Statuses,
           NEW seen \in [Rows -> Statuses \cup {None}]
    PROVE  /\ [NoJob EXCEPT !.at = at] \in Job
           /\ [NoJob EXCEPT !.at = at, !.seen = seen] \in Job
           /\ [NoJob EXCEPT !.at = at, !.to = to, !.seen = seen] \in Job
           /\ [NoJob EXCEPT !.at = at, !.token = t] \in Job
           /\ \A j \in Job : /\ [j EXCEPT !.at = at] \in Job
                             /\ [j EXCEPT !.at = at, !.seen = seen] \in Job
                             /\ [j EXCEPT !.seen = seen] \in Job
  BY NoJobTyped DEF NoJob, Job

LEMMA JobStep ==
    ASSUME JobTyped, NEW s \in Servers, NEW j \in Job, job' = [job EXCEPT ![s] = j]
    PROVE  JobTyped' /\ job'[s] = j /\ \A u \in Servers \ {s} : job'[u] = job[u]
  BY DEF JobTyped

LEMMA SaveTyped ==
    ASSUME StatusTyped, EngineTyped, SignTyped, revived \in [Rows -> Nat],
           NEW seen, NEW new \in [Rows -> Statuses], NEW signs, NEW bypasses \in SUBSET Rows,
           Save(seen, new, signs, bypasses)
    PROVE  StatusTyped' /\ EngineTyped' /\ SignTyped' /\ revived' \in [Rows -> Nat]
<1>1. StatusTyped'
  BY DEF Save, StatusTyped
<1>2. EngineTyped'
  BY DEF Save, EngineTyped, engineVars
<1>3. signed' \in [Rows -> Nat] /\ bypassed' \subseteq Rows /\ raced' \subseteq Rows
  BY DEF Save, SignTyped
<1>4. revived' \in [Rows -> Nat]
  BY DEF Save
<1> QED BY <1>1, <1>2, <1>3, <1>4 DEF SignTyped

\* A link's token after it is used, minted or expired.
LEMMA LinkTyped ==
    ASSUME LinksTyped, NEW t \in Tokens
    PROVE  /\ Use(t) \in [Tokens -> Token]
           /\ [token EXCEPT ![t].state = "expired"] \in [Tokens -> Token]
           /\ \A p \in {"review", "publish"}, o \in Tokens, tk \in [Tokens -> Token] :
                [tk EXCEPT ![NextToken] = [purpose |-> p, state |-> "live", of |-> o]]
                    \in [Tokens -> Token]
<1>1. \A st \in {"used", "expired"} : [token EXCEPT ![t].state = st] \in [Tokens -> Token]
  BY DEF LinksTyped, Token
<1>2. \A p \in {"review", "publish"}, o \in Tokens :
          [purpose |-> p, state |-> "live", of |-> o] \in Token
  BY DEF Token
<1> QED BY <1>1, <1>2 DEF Use

\* The saves the actions make.
LEMMA SavesTyped ==
    ASSUME TypeOK, NEW s \in Servers,
           \/ ServiceSave(s) \/ MenuSave(s) \/ Approve
           \/ LinkApprovePublish(s) \/ LinkPublish(s) \/ \E r \in Rows : SaveRow(s, r)
    PROVE  StatusTyped' /\ EngineTyped' /\ SignTyped' /\ revived' \in [Rows -> Nat]
<1> USE TypeParts
<1>0. StatusTyped /\ EngineTyped /\ SignTyped /\ revived \in [Rows -> Nat] /\ JobTyped
  BY DEF TallyTyped
<1>1. \A st \in Statuses : [r \in Rows |-> st] \in [Rows -> Statuses]
  OBVIOUS
<1>2. job[s].to \in Statuses /\ "scheduled" \in Statuses /\ "approved" \in Statuses
  BY <1>0 DEF JobTyped, Job, Statuses
<1>3. CASE ServiceSave(s)
  <2>1. [r \in Rows |-> Outcome(job[s].at, job[s].seen[r])] \in [Rows -> Statuses]
    BY <1>3, OutcomeTyped DEF ServiceSave
  <2>2. \E signs : Save(job[s].seen, [r \in Rows |-> Outcome(job[s].at, job[s].seen[r])],
                        signs, {})
    BY <1>3 DEF ServiceSave
  <2> QED BY <1>0, <2>1, <2>2, SaveTyped
<1>4. CASE MenuSave(s)
  <2>1. \E bypasses \in SUBSET Rows :
            Save(job[s].seen, [r \in Rows |-> job[s].to], {}, bypasses)
    BY <1>4 DEF MenuSave
  <2> QED BY <1>0, <1>1, <1>2, <2>1, SaveTyped
<1>5. CASE Approve
  <2>1. \E seen : \E bypasses \in SUBSET Rows :
            Save(seen, [r \in Rows |-> "approved"], {}, bypasses)
    BY <1>5 DEF Approve
  <2> QED BY <1>0, <1>1, <1>2, <2>1, SaveTyped
<1>6. CASE LinkApprovePublish(s) \/ LinkPublish(s) \/ \E r \in Rows : SaveRow(s, r)
  <2>1. \E seen : Save(seen, [r \in Rows |-> "scheduled"], {}, {})
    BY <1>6 DEF LinkApprovePublish, LinkPublish, SaveRow, ScheduleAll
  <2> QED BY <1>0, <1>1, <1>2, <2>1, SaveTyped
<1> QED BY <1>3, <1>4, <1>5, <1>6

\* The steps of a web process keep the types of what it holds.
LEMMA JobKept ==
    ASSUME TypeOK, NEW s \in Servers,
           Reviewing(s) \/ Schedules(s) \/ Console(s) \/ LinkStep(s) \/ Crash(s)
    PROVE  JobTyped'
<1> USE TypeParts
<1>0. JobTyped /\ StatusTyped
  OBVIOUS
<1>1. job[s] \in Job /\ \A r \in Rows : [job[s].seen EXCEPT ![r] = None]
                                            \in [Rows -> Statuses \cup {None}]
  BY <1>0 DEF JobTyped, Job
<1>2. ASSUME NEW j \in Job, job' = [job EXCEPT ![s] = j] PROVE JobTyped'
  BY <1>0, <1>2, JobStep
<1>3. ASSUME Done(s) PROVE JobTyped'
  BY <1>2, <1>3, NoJobTyped DEF Done
<1>4. CASE Reviewing(s)
  <2>1. ASSUME NEW kind \in Services, ServiceRead(s, kind) PROVE JobTyped'
    BY <1>0, <1>2, <2>1, ReadTyped, WorkTyped, "draft" \in Statuses, NoJobTyped
       DEF ServiceRead, Begins, Statuses
  <2>2. ASSUME NEW r \in Rows, NEW to \in Statuses, MenuRead(s, r, to) PROVE JobTyped'
    BY <1>0, <1>2, <2>2, ReadTyped, WorkTyped DEF MenuRead, Begins
  <2> QED BY <1>3, <1>4, <2>1, <2>2 DEF Reviewing, ServiceSave, MenuSave
<1>5. CASE Schedules(s)
  <2>1. CASE ComposerSchedule(s) \/ \E direct \in BOOLEAN : PublishPost(s, direct)
    BY <1>0, <1>2, <2>1, ReadTyped, WorkTyped, NoJobTyped, "draft" \in Statuses
       DEF ComposerSchedule, PublishPost, Begins, Statuses
  <2>2. CASE StartSchedule(s)
    BY <1>0, <1>1, <1>2, <2>2, ReadTyped, WorkTyped, "draft" \in Statuses
       DEF StartSchedule, ListRows, Statuses
  <2>3. CASE ReadRows(s)
    BY <1>0, <1>1, <1>2, <2>3, ReadTyped, WorkTyped, "draft" \in Statuses DEF ReadRows, Statuses
  <2>4. ASSUME NEW r \in Rows, SaveRow(s, r) PROVE JobTyped'
    <3>1. [job[s] EXCEPT !.seen = [job[s].seen EXCEPT ![r] = None]] \in Job
      BY <1>1 DEF Job
    <3> QED BY <1>2, <2>4, <3>1 DEF SaveRow
  <2> QED BY <1>3, <1>5, <2>1, <2>2, <2>3, <2>4 DEF Schedules, ScheduleDone
<1>6. CASE Console(s)
  <2>1. CASE ConsoleApprove(s) \/ ConsoleSend(s)
    BY <1>0, <1>2, <2>1, WorkTyped, NoJobTyped, "draft" \in Statuses
       DEF ConsoleApprove, ConsoleSend, Begins, Statuses
  <2>2. CASE SendApproves(s)
    BY <1>0, <1>1, <1>2, <2>2, WorkTyped, NoJobTyped, "draft" \in Statuses
       DEF SendApproves, Goes, Statuses
  <2> QED BY <1>3, <1>6, <2>1, <2>2 DEF Console, ConsoleApproved
<1>7. CASE LinkStep(s)
  <2>1. ASSUME NEW t \in Tokens, ResolveToken(s, t) PROVE JobTyped'
    BY <1>0, <1>2, <2>1, WorkTyped, NoJobTyped, "draft" \in Statuses
       DEF ResolveToken, Begins, Statuses
  <2>2. CASE LinkSchedules(s)
    BY <1>0, <1>1, <1>2, <2>2, ReadTyped, WorkTyped, "draft" \in Statuses
       DEF LinkSchedules, ListRows, Statuses
  <2> QED BY <1>3, <1>7, <2>1, <2>2 DEF LinkStep, LinkApprovePublish, LinkApprove,
          LinkDecline, LinkPublish, Commits
<1>8. CASE Crash(s)
  BY <1>3, <1>8 DEF Crash
<1> QED BY <1>4, <1>5, <1>6, <1>7, <1>8

\* The engine's steps touch the rows and its own counts.
LEMMA EngineTypes ==
    ASSUME TypeOK, NEW r \in Rows, Engine(r)
    PROVE  StatusTyped' /\ EngineTyped' /\ SignTyped' /\ revived' \in [Rows -> Nat]
<1> USE TypeParts DEF signVars
<1>1. StatusTyped'
  <2>1. UNCHANGED status \/ \E st \in Statuses : Sets(r, st)
    BY DEF Engine, EngineClaims, EngineBlocks, EngineFails, EnginePublishes, EngineHolds,
           EngineCloses, EngineTakesBack, EngineDies, Outcomes, Statuses
  <2> QED BY <2>1 DEF StatusTyped, Sets
<1>2. EngineTyped'
  <2>1. CASE EngineClaims(r) \/ EngineFails(r) \/ EngineDies(r)
    BY <2>1 DEF EngineClaims, EngineFails, EngineDies, EngineTyped
  <2>2. CASE EnginePublishes(r) \/ EngineHolds(r)
    BY <2>2 DEF EnginePublishes, EngineHolds, Closes, EngineTyped
  <2>3. CASE EngineBlocks(r) \/ EngineCloses(r) \/ EngineTakesBack(r)
    BY <2>3 DEF EngineBlocks, EngineCloses, EngineTakesBack, EngineTyped, engineVars
  <2> QED BY <2>1, <2>2, <2>3 DEF Engine
<1>3. SignTyped'
  BY DEF Engine, EngineClaims, EngineBlocks, EngineFails, EnginePublishes, EngineHolds,
         EngineCloses, EngineTakesBack, EngineDies, Closes, SignTyped
<1>4. revived' \in [Rows -> Nat]
  BY DEF Engine, EngineClaims, EngineBlocks, EngineFails, EnginePublishes, EngineHolds,
         EngineCloses, EngineTakesBack, EngineDies, Closes, TallyTyped
<1> QED BY <1>1, <1>2, <1>3, <1>4

\* Reviews, links and counts of a web process's step.
LEMMA LinksKeptTyped ==
    ASSUME TypeOK, NEW s \in Servers,
           Reviewing(s) \/ Schedules(s) \/ Console(s) \/ LinkStep(s) \/ Crash(s)
    PROVE  LinksTyped' /\ requests' \in Nat /\ decisions' \in [Tokens -> Nat]
<1> USE TypeParts
<1>0. LinksTyped /\ requests \in Nat /\ decisions \in [Tokens -> Nat] /\ JobTyped
  BY DEF TallyTyped
<1> DEFINE Counted == UNCHANGED requests \/ NewRequest
           Same == UNCHANGED <<review, token, assignment, decisions>> /\ Counted
<1>a. Same => LinksTyped' /\ requests' \in Nat /\ decisions' \in [Tokens -> Nat]
  BY <1>0 DEF NewRequest, LinksTyped
<1>1. CASE Reviewing(s)
  <2>1. ASSUME NEW kind \in Services, ServiceRead(s, kind) PROVE Same
    BY <2>1 DEF ServiceRead, Begins
  <2>2. ASSUME NEW r \in Rows, NEW to \in Statuses, MenuRead(s, r, to) PROVE Same
    BY <2>2 DEF MenuRead, Begins
  <2>3. CASE ServiceSave(s) \/ MenuSave(s)
    <3>1. UNCHANGED <<review, token, assignment, requests, decisions>>
      BY <2>3 DEF ServiceSave, MenuSave
    <3> QED BY <1>a, <3>1
  <2> HIDE DEF Same
  <2> QED BY <1>1, <1>a, <2>1, <2>2, <2>3 DEF Reviewing
<1>2. CASE Schedules(s)
  <2>1. ASSUME NEW direct \in BOOLEAN, PublishPost(s, direct) PROVE Same
    BY <2>1 DEF PublishPost, Begins
  <2>2. CASE ComposerSchedule(s)
    <3>1. UNCHANGED <<review, token, assignment, decisions>> /\ NewRequest
      BY <2>2 DEF ComposerSchedule, Begins
    <3> QED BY <1>a, <3>1
  <2>3. CASE StartSchedule(s) \/ ReadRows(s) \/ ScheduleDone(s)
    <3>1. UNCHANGED <<review, token, assignment, requests, decisions>>
      BY <2>3 DEF StartSchedule, ListRows, ReadRows, ScheduleDone
    <3> QED BY <1>a, <3>1
  <2>4. ASSUME NEW r \in Rows, SaveRow(s, r) PROVE Same
    BY <2>4 DEF SaveRow
  <2> HIDE DEF Same
  <2> QED BY <1>2, <1>a, <2>1, <2>2, <2>3, <2>4 DEF Schedules
<1>3. CASE Console(s)
  <2>1. /\ UNCHANGED <<token, assignment, decisions>> /\ review' \in {review, "approved"}
        /\ Counted
    BY <1>3 DEF Console, ConsoleApprove, ConsoleApproved, ConsoleSend, SendApproves, Begins
  <2> QED BY <1>0, <2>1 DEF LinksTyped, Reviews, NewRequest
<1>4. CASE LinkStep(s)
  <2>1. CASE LinkSchedules(s) \/ \E t \in Tokens : ResolveToken(s, t)
    <3>1. Same
      BY <2>1 DEF LinkSchedules, ListRows, ResolveToken, Begins
    <3> QED BY <1>a, <3>1
  <2>2. CASE \/ LinkApprovePublish(s) \/ LinkApprove(s) \/ LinkDecline(s) \/ LinkPublish(s)
    <3> DEFINE t == job[s].token
    <3>1. \E p \in {"review", "publish"} : Commits(s, p)
      BY <2>2 DEF LinkApprovePublish, LinkApprove, LinkDecline, LinkPublish
    <3>2. t \in Tokens
      BY <1>0, <3>1 DEF Commits, JobTyped, Job
    <3>3. requests' \in Nat /\ decisions' \in [Tokens -> Nat]
      BY <1>0, <3>1, <3>2 DEF Commits
    <3>4. token' \in [Tokens -> Token]
      <4>1. Use(t) \in [Tokens -> Token]
        BY <1>0, <3>2, LinkTyped
      <4>2. [Use(t) EXCEPT ![NextToken] = [purpose |-> "publish", state |-> "live", of |-> t]]
                \in [Tokens -> Token]
        BY <1>0, <3>2, <4>1, LinkTyped
      <4> QED BY <2>2, <4>1, <4>2
              DEF LinkApprovePublish, LinkApprove, LinkDecline, LinkPublish
    <3>5. /\ review' \in Reviews
          /\ assignment' \in [Tokens -> {"none", "pending", "approved", "declined"}]
      BY <1>0, <2>2 DEF LinkApprovePublish, LinkApprove, LinkDecline, LinkPublish,
                        LinksTyped, Reviews
    <3> QED BY <3>3, <3>4, <3>5 DEF LinksTyped
  <2> QED BY <1>4, <2>1, <2>2 DEF LinkStep
<1>5. CASE Crash(s)
  BY <1>0, <1>5 DEF Crash, LinksTyped
<1> QED BY <1>1, <1>2, <1>3, <1>4, <1>5

\* Which of a web process's steps save rows; the others leave them alone.
LEMMA ProcessSaves ==
    ASSUME NEW s \in Servers,
           Reviewing(s) \/ Schedules(s) \/ Console(s) \/ LinkStep(s) \/ Crash(s)
    PROVE  \/ UNCHANGED <<status, revived, engineVars, signVars>>
           \/ ServiceSave(s) \/ MenuSave(s) \/ Approve
           \/ LinkApprovePublish(s) \/ LinkPublish(s) \/ \E r \in Rows : SaveRow(s, r)
  BY DEF Reviewing, ServiceRead, MenuRead, Schedules, PublishPost, ComposerSchedule,
     StartSchedule, ListRows, ReadRows, ScheduleDone, Console, ConsoleApprove, ConsoleApproved,
     ConsoleSend, SendApproves, LinkStep, ResolveToken, LinkSchedules, LinkApprove, LinkDecline,
     Crash

\* Statuses, links, instances and tallies stay within their types.
THEOREM TypeCorrect == Spec => []TypeOK
<1> USE ApprovalsAssumption
<1>1. Init => TypeOK
  <2> SUFFICES ASSUME Init PROVE TypeOK
    OBVIOUS
  <2>1. StatusTyped
    BY DEF Init, StatusTyped, Statuses
  <2>2. LinksTyped
    BY DEF Init, LinksTyped, Token, NoToken, Reviews
  <2>3. JobTyped
    BY NoJobTyped DEF Init, JobTyped
  <2>4. EngineTyped /\ SignTyped /\ TallyTyped
    BY DEF Init, EngineTyped, SignTyped, TallyTyped
  <2> QED BY <2>1, <2>2, <2>3, <2>4, TypeParts
<1>2. TypeOK /\ [Next]_vars => TypeOK'
  <2> SUFFICES ASSUME TypeOK, [Next]_vars PROVE TypeOK'
    OBVIOUS
  <2> USE TypeParts
  <2>0. StatusTyped /\ LinksTyped /\ JobTyped /\ EngineTyped /\ SignTyped /\ TallyTyped
    OBVIOUS
  <2>1. ASSUME NEW s \in Servers,
               Reviewing(s) \/ Schedules(s) \/ Console(s) \/ LinkStep(s) \/ Crash(s)
        PROVE  TypeOK'
    <3>1. JobTyped'
      BY <2>1, JobKept
    <3>2. LinksTyped' /\ requests' \in Nat /\ decisions' \in [Tokens -> Nat]
      BY <2>1, LinksKeptTyped
    <3>3. StatusTyped' /\ EngineTyped' /\ SignTyped' /\ revived' \in [Rows -> Nat]
      <4>1. CASE UNCHANGED <<status, revived, engineVars, signVars>>
        BY <2>0, <4>1 DEF StatusTyped, EngineTyped, SignTyped, TallyTyped, engineVars, signVars
      <4> QED BY <2>1, <4>1, ProcessSaves, SavesTyped
    <3> QED BY <3>1, <3>2, <3>3 DEF TallyTyped
  <2>2. CASE Flag \/ \E outcome \in {"changes_requested", "rejected"} : ConsoleDecline(outcome)
    BY <2>0, <2>2 DEF Flag, ConsoleDecline, NewRequest, engineVars, signVars, StatusTyped,
       LinksTyped, JobTyped, EngineTyped, SignTyped, TallyTyped, Reviews
  <2>3. CASE AssignForReview
    <3>1. NextToken \in Tokens
      BY <2>3, NextTokenFresh DEF AssignForReview, Unminted
    <3>2. token' \in [Tokens -> Token]
      BY <2>0, <2>3, <3>1, LinkTyped DEF AssignForReview, Mint, LinksTyped
    <3>3. assignment' \in [Tokens -> {"none", "pending", "approved", "declined"}]
      BY <2>0, <2>3, <3>1 DEF AssignForReview, LinksTyped
    <3>4. review' \in Reviews
      BY <2>3 DEF AssignForReview, Reviews
    <3>5. StatusTyped' /\ JobTyped' /\ EngineTyped' /\ SignTyped' /\ TallyTyped'
      BY <2>0, <2>3 DEF AssignForReview, NewRequest, engineVars, signVars, StatusTyped,
         JobTyped, EngineTyped, SignTyped, TallyTyped
    <3> QED BY <3>2, <3>3, <3>4, <3>5 DEF LinksTyped
  <2>4. ASSUME NEW t \in Tokens, Expire(t) PROVE TypeOK'
    <3>1. token' \in [Tokens -> Token]
      BY <2>0, <2>4, LinkTyped DEF Expire
    <3> QED BY <2>0, <2>4, <3>1 DEF Expire, engineVars, signVars, StatusTyped, LinksTyped,
            JobTyped, EngineTyped, SignTyped, TallyTyped
  <2>5. ASSUME NEW r \in Rows, Engine(r) PROVE TypeOK'
    <3>1. UNCHANGED reviewVars
      BY <2>5 DEF Engine, EngineClaims, EngineBlocks, EngineFails, EnginePublishes,
         EngineHolds, EngineCloses, EngineTakesBack, EngineDies, Closes
    <3>2. LinksTyped' /\ JobTyped' /\ requests' \in Nat /\ decisions' \in [Tokens -> Nat]
      BY <2>0, <3>1 DEF reviewVars, LinksTyped, JobTyped, TallyTyped
    <3> QED BY <2>5, <3>2, EngineTypes DEF TallyTyped
  <2>6. CASE UNCHANGED vars
    BY <2>0, <2>6 DEF vars, engineVars, signVars, StatusTyped, LinksTyped, JobTyped,
       EngineTyped, SignTyped, TallyTyped
  <2> QED BY <2>1, <2>2, <2>3, <2>4, <2>5, <2>6 DEF Next
<1> QED BY <1>1, <1>2, PTL DEF Spec

-----------------------------------------------------------------------------
(* The two approvals.  A row that waits for the client has one, an approved   *)
(* row two; what a service holds is a row it may move.                        *)

JobSound ==
    \A s \in Servers, r \in Rows :
        job[s].at \in Services /\ job[s].seen[r] # None
            => /\ job[s].seen[r] \in Statuses
               /\ CanTransition(job[s].seen[r], Wanted(job[s].at))

Exempt == bypassed \cup raced

RowSigned(r) ==
    /\ status[r] = "pending_client" => signed[r] >= 1 \/ r \in Exempt
    /\ status[r] = "approved" => signed[r] >= 2 \/ r \in Exempt

SignInv ==
    /\ TypeOK /\ JobSound
    /\ TwoStage => \A r \in Rows : RowSigned(r)

\* A save gives a review state by an approval that was due, or the row is exempt.
Earned(seen, new, signs, bypasses, r) ==
    /\ r \in signs => seen[r] # None
    /\ seen[r] # None /\ new[r] = "pending_client"
          => r \in bypasses \cup signs \/ seen[r] = "pending_client"
    /\ seen[r] # None /\ new[r] = "approved"
          => \/ r \in bypasses \/ seen[r] = "approved"
             \/ r \in signs /\ seen[r] = "pending_client"

LEMMA SaveSigned ==
    ASSUME TypeOK, NEW seen, NEW new, NEW signs, NEW bypasses, NEW r \in Rows,
           Save(seen, new, signs, bypasses), RowSigned(r),
           Earned(seen, new, signs, bypasses, r)
    PROVE  RowSigned(r)'
<1> USE TypeParts
<1>0. status \in [Rows -> Statuses] /\ signed[r] \in Nat
  BY DEF StatusTyped, SignTyped
<1>1. /\ status'[r] = IF seen[r] # None THEN new[r] ELSE status[r]
      /\ r \in bypasses => r \in bypassed'
      /\ seen[r] # None /\ new[r] \in {"pending_client", "approved"} /\ seen[r] # status[r]
            => r \in raced'
  BY <1>0 DEF Save
<1>2. ~(seen[r] # None /\ new[r] = "pending_review")
        => /\ signed'[r] = IF r \in signs THEN signed[r] + 1 ELSE signed[r]
           /\ r \in Exempt => r \in Exempt'
  BY <1>0 DEF Save, Exempt
<1>3. CASE seen[r] = None
  BY <1>0, <1>1, <1>2, <1>3 DEF RowSigned, Earned
<1>4. CASE seen[r] # None /\ new[r] \notin {"pending_client", "approved"}
  BY <1>1, <1>4 DEF RowSigned
<1>5. CASE seen[r] # None /\ new[r] = "pending_client"
  BY <1>0, <1>1, <1>2, <1>5 DEF RowSigned, Earned, Exempt
<1>6. CASE seen[r] # None /\ new[r] = "approved"
  BY <1>0, <1>1, <1>2, <1>6 DEF RowSigned, Earned, Exempt
<1> QED BY <1>3, <1>4, <1>5, <1>6

\* Each of the saves the code makes.
LEMMA SavesSigned ==
    ASSUME TypeOK, TwoStage, JobSound, NEW s \in Servers, NEW r \in Rows, RowSigned(r),
           \/ ServiceSave(s) \/ MenuSave(s) \/ Approve
           \/ LinkApprovePublish(s) \/ LinkPublish(s) \/ \E q \in Rows : SaveRow(s, q)
    PROVE  RowSigned(r)'
<1>1. CASE ServiceSave(s)
  <2> DEFINE kind == job[s].at
             seen == job[s].seen
             new == [q \in Rows |-> Outcome(kind, seen[q])]
             signs == {q \in Rows : seen[q] # None /\ kind = "approve"}
  <2>1. Save(seen, new, signs, {}) /\ kind \in Services
    BY <1>1 DEF ServiceSave
  <2>2. kind = "approve" /\ seen[r] # None => seen[r] \in {"pending_review", "pending_client"}
    BY <2>1, ApprovedFrom DEF JobSound, Wanted
  <2>3. new[r] = Outcome(kind, seen[r]) /\ (r \in signs <=> seen[r] # None /\ kind = "approve")
    OBVIOUS
  <2>4. seen[r] # None /\ new[r] \in {"pending_client", "approved"} => kind = "approve"
    BY <2>1, <2>3 DEF Outcome, Wanted, Services
  <2>5. seen[r] # None /\ new[r] = "approved" => seen[r] = "pending_client"
    BY <2>2, <2>3, <2>4 DEF Outcome, Wanted
  <2> HIDE DEF new, signs, kind, seen
  <2>6. Earned(seen, new, signs, {}, r)
    BY <2>3, <2>4, <2>5 DEF Earned
  <2> QED BY <2>1, <2>6, SaveSigned
<1>2. CASE MenuSave(s)
  <2> DEFINE to == job[s].to
             seen == job[s].seen
             new == [q \in Rows |-> to]
             bypasses == {q \in Rows : /\ seen[q] # None /\ to # seen[q]
                                       /\ to \in {"pending_client", "approved"}}
  <2>1. Save(seen, new, {}, bypasses) /\ job[s].at = "menu"
    BY <1>2 DEF MenuSave
  <2>2. Earned(seen, new, {}, bypasses, r)
    BY DEF Earned
  <2> HIDE DEF new, bypasses, seen, to
  <2> QED BY <2>1, <2>2, SaveSigned
<1>3. CASE Approve
  <2> DEFINE waiting == {q \in Rows : status[q] = "pending_review"}
             new == [q \in Rows |-> "approved"]
  <2>1. Save(Read(waiting), new, {}, waiting)
    BY <1>3 DEF Approve
  <2>2. Read(waiting)[r] # None => r \in waiting
    BY DEF Read
  <2>3. Earned(Read(waiting), new, {}, waiting, r)
    BY <2>2 DEF Earned
  <2> HIDE DEF new, waiting
  <2> QED BY <2>1, <2>3, SaveSigned
<1>4. CASE LinkApprovePublish(s) \/ LinkPublish(s) \/ \E q \in Rows : SaveRow(s, q)
  <2> DEFINE new == [q \in Rows |-> "scheduled"]
  <2>1. PICK seen : Save(seen, new, {}, {})
    BY <1>4 DEF LinkApprovePublish, LinkPublish, SaveRow, ScheduleAll
  <2>2. Earned(seen, new, {}, {}, r)
    BY DEF Earned
  <2> HIDE DEF new
  <2> QED BY <2>1, <2>2, SaveSigned
<1> QED BY <1>1, <1>2, <1>3, <1>4

\* What makes no row wait for the client and approves none.
LEMMA SignKept ==
    ASSUME NEW r \in Rows, RowSigned(r), signed' = signed, raced' = raced,
           bypassed \subseteq bypassed',
           \/ status'[r] = status[r]
           \/ status'[r] \notin {"pending_client", "approved"}
           \/ r \in bypassed'
    PROVE  RowSigned(r)'
  BY DEF RowSigned, Exempt

LEMMA EngineSigned ==
    ASSUME TypeOK, NEW q \in Rows, Engine(q), NEW r \in Rows, RowSigned(r)
    PROVE  RowSigned(r)'
<1>0. StatusTyped
  BY TypeParts
<1>1. /\ signed' = signed /\ raced' = raced /\ bypassed \subseteq bypassed'
      /\ \/ UNCHANGED status
         \/ \E st \in {"publishing", "failed", "scheduled", "published"} : Sets(q, st)
         \/ Sets(q, "pending_client") /\ q \in bypassed'
  BY DEF Engine, EngineClaims, EngineBlocks, EngineFails, EnginePublishes, EngineHolds,
         EngineCloses, EngineTakesBack, EngineDies, Closes, Outcomes, signVars
<1> QED BY <1>0, <1>1, SignKept DEF StatusTyped, Sets

LEMMA JobSoundStep == SignInv /\ TypeOK' /\ [Next]_vars => JobSound'
<1> SUFFICES ASSUME SignInv, TypeOK', [Next]_vars PROVE JobSound'
  OBVIOUS
<1> USE TypeParts, ApprovalsAssumption
<1>0. JobSound /\ TypeOK /\ JobTyped /\ StatusTyped
  BY DEF SignInv
<1>1. CASE UNCHANGED job
  BY <1>0, <1>1 DEF JobSound
<1>2. ASSUME NEW s \in Servers, job'[s].at \notin Services,
             \A u \in Servers \ {s} : job'[u] = job[u]
      PROVE  JobSound'
  BY <1>0, <1>2 DEF JobSound
<1>3. ASSUME NEW s \in Servers, Done(s) PROVE JobSound'
  <2>1. job'[s] = NoJob /\ \A u \in Servers \ {s} : job'[u] = job[u]
    BY <1>0, <1>3 DEF Done, JobTyped
  <2> QED BY <1>2, <2>1 DEF NoJob, Services
<1>4. ASSUME NEW s \in Servers, NEW w, Begins(s, w), w.at \notin Services PROVE JobSound'
  <2>1. job'[s] = w /\ \A u \in Servers \ {s} : job'[u] = job[u]
    BY <1>0, <1>4 DEF Begins, JobTyped
  <2> QED BY <1>2, <1>4, <2>1
<1>5. ASSUME NEW s \in Servers, NEW kind \in Services, ServiceRead(s, kind)
      PROVE  JobSound'
  <2> DEFINE rows == {r \in Rows : /\ status[r] \in Eligible(kind)
                                   /\ CanTransition(status[r], Wanted(kind))}
             work == [NoJob EXCEPT !.at = kind, !.seen = Read(rows)]
  <2>1. Begins(s, work)
    BY <1>5 DEF ServiceRead
  <2>2. \A r \in Rows : Read(rows)[r] # None
            => Read(rows)[r] \in Statuses /\ CanTransition(Read(rows)[r], Wanted(kind))
    BY <1>0 DEF StatusTyped, Read
  <2>3. work.at = kind /\ work.seen = Read(rows)
    BY DEF NoJob
  <2> HIDE DEF work, rows
  <2>4. job'[s] = work /\ \A u \in Servers \ {s} : job'[u] = job[u]
    BY <1>0, <2>1 DEF Begins, JobTyped
  <2> QED BY <1>0, <2>2, <2>3, <2>4 DEF JobSound
<1>6. ASSUME NEW s \in Servers, NEW r \in Rows, NEW to \in Statuses, MenuRead(s, r, to)
      PROVE  JobSound'
  BY <1>4, <1>6 DEF MenuRead, NoJob, Services
<1>7. ASSUME NEW s \in Servers, Schedules(s) PROVE JobSound'
  <2>1. ASSUME NEW direct \in BOOLEAN, PublishPost(s, direct) PROVE JobSound'
    BY <1>4, <2>1 DEF PublishPost, NoJob, Services
  <2>2. CASE ComposerSchedule(s)
    BY <1>4, <2>2 DEF ComposerSchedule, NoJob, Services
  <2>3. CASE StartSchedule(s) \/ ReadRows(s)
    <3>1. /\ job'[s].at \in {"listed", "saving"}
          /\ \A u \in Servers \ {s} : job'[u] = job[u]
      <4>1. PICK at \in {"listed", "saving"} : \E seen :
                job' = [job EXCEPT ![s] = [job[s] EXCEPT !.at = at, !.seen = seen]]
        BY <2>3 DEF StartSchedule, ListRows, ReadRows
      <4> QED BY <1>0, <4>1 DEF JobTyped, Job
    <3> QED BY <1>2, <3>1 DEF Services
  <2>4. ASSUME NEW r \in Rows, SaveRow(s, r) PROVE JobSound'
    <3>1. job[s].at = "saving" /\ \E seen : job' = [job EXCEPT ![s] = [job[s] EXCEPT !.seen = seen]]
      BY <2>4 DEF SaveRow
    <3>2. job'[s].at = "saving" /\ \A u \in Servers \ {s} : job'[u] = job[u]
      BY <1>0, <3>1 DEF JobTyped, Job
    <3> QED BY <1>2, <3>2 DEF Services
  <2> QED BY <1>3, <1>7, <2>1, <2>2, <2>3, <2>4 DEF Schedules, ScheduleDone
<1>8. ASSUME NEW s \in Servers, Console(s) PROVE JobSound'
  <2>1. CASE ConsoleApprove(s) \/ ConsoleSend(s)
    BY <1>4, <2>1 DEF ConsoleApprove, ConsoleSend, NoJob, Services
  <2>2. CASE SendApproves(s)
    <3>1. job'[s].at = "scheduling" /\ \A u \in Servers \ {s} : job'[u] = job[u]
      BY <1>0, <2>2 DEF SendApproves, Goes, JobTyped, Job
    <3> QED BY <1>2, <3>1 DEF Services
  <2> QED BY <1>3, <1>8, <2>1, <2>2 DEF Console, ConsoleApproved
<1>9. ASSUME NEW s \in Servers, LinkStep(s) PROVE JobSound'
  <2>1. ASSUME NEW t \in Tokens, ResolveToken(s, t) PROVE JobSound'
    BY <1>4, <2>1 DEF ResolveToken, NoJob, Services
  <2>2. CASE LinkSchedules(s)
    <3>1. job'[s].at = "listed" /\ \A u \in Servers \ {s} : job'[u] = job[u]
      BY <1>0, <2>2 DEF LinkSchedules, ListRows, JobTyped, Job
    <3> QED BY <1>2, <3>1 DEF Services
  <2> QED BY <1>3, <1>9, <2>1, <2>2 DEF LinkStep, LinkApprovePublish, LinkApprove,
          LinkDecline, LinkPublish, Commits
<1>10. ASSUME NEW s \in Servers, Reviewing(s) \/ Crash(s) PROVE JobSound'
  BY <1>3, <1>5, <1>6, <1>10 DEF Reviewing, ServiceSave, MenuSave, Crash
<1>11. ASSUME NEW r \in Rows, Engine(r) PROVE JobSound'
  <2>1. UNCHANGED job
    BY <1>11 DEF Engine, EngineClaims, EngineBlocks, EngineFails, EnginePublishes,
       EngineHolds, EngineCloses, EngineTakesBack, EngineDies, Closes, reviewVars
  <2> QED BY <1>1, <2>1
<1> QED BY <1>1, <1>7, <1>8, <1>9, <1>10, <1>11
        DEF Next, Flag, AssignForReview, ConsoleDecline, Expire, vars

LEMMA SignStep == SignInv /\ TypeOK' /\ [Next]_vars => SignInv'
<1> SUFFICES ASSUME SignInv, TypeOK', [Next]_vars PROVE SignInv'
  OBVIOUS
<1>0. TypeOK /\ JobSound /\ JobSound'
  BY JobSoundStep DEF SignInv
<1> SUFFICES ASSUME TwoStage, NEW r \in Rows PROVE RowSigned(r)'
  BY <1>0 DEF SignInv
<1>1. RowSigned(r)
  BY DEF SignInv
<1>2. CASE UNCHANGED <<status, signVars>>
  BY <1>1, <1>2, SignKept DEF signVars
<1>3. ASSUME NEW s \in Servers,
             Reviewing(s) \/ Schedules(s) \/ Console(s) \/ LinkStep(s) \/ Crash(s)
      PROVE  RowSigned(r)'
  BY <1>0, <1>1, <1>2, <1>3, ProcessSaves, SavesSigned
<1>4. ASSUME NEW q \in Rows, Engine(q) PROVE RowSigned(r)'
  BY <1>0, <1>1, <1>4, EngineSigned
<1> QED BY <1>2, <1>3, <1>4 DEF Next, Flag, AssignForReview, ConsoleDecline, Expire, vars

\* Whatever two requests do to a row at a time: in a two-stage workspace an
\* approved row has both approvals, or the history says which way around them
\* it took.
THEOREM TwoApprovals == Spec => []SignedTwice
<1>1. Init => JobSound
  BY DEF Init, JobSound, NoJob, Services
<1>2. Init => \A r \in Rows : RowSigned(r)
  BY DEF Init, RowSigned
<1>3. Init /\ TypeOK => SignInv
  BY <1>1, <1>2 DEF SignInv
<1>4. SignInv => SignedTwice
  BY DEF SignInv, SignedTwice, RowSigned, Exempt
<1> QED BY <1>3, <1>4, SignStep, TypeCorrect, PTL DEF Spec

-----------------------------------------------------------------------------
(* Links and publications.  Once a link is used or has expired, the requests  *)
(* that may still act on it are those that found it unused.  A row is         *)
(* published by a cycle that has claimed it, and claimed when it is neither   *)
(* published nor in a cycle's hands.                                          *)

Holders(t) == {s \in Servers : job[s].token = t}

LinkCounted(t) ==
    /\ token[t].purpose = "none" => token[t].state = "expired" /\ Holders(t) = {}
                                    /\ decisions[t] = 0
    /\ token[t].state = "live" => decisions[t] = 0
    /\ decisions[t] + Cardinality(Holders(t)) <= Cardinality(Servers)

Claimable(r) ==
    IF status[r] = "published" \/ (status[r] = "publishing" /\ calls[r] > 0) THEN 0 ELSE 1
RowCounted(r) == published[r] + calls[r] + Claimable(r) <= 1 + revived[r]

CountInv ==
    /\ TypeOK
    /\ \A t \in Tokens : LinkCounted(t)
    /\ \A r \in Rows : RowCounted(r)

LEMMA HoldersFinite ==
    \A t : /\ IsFiniteSet(Holders(t)) /\ Cardinality(Holders(t)) \in Nat
           /\ Cardinality(Servers) \in Nat
           /\ Cardinality(Holders(t)) <= Cardinality(Servers)
           /\ IsFiniteSet(Holders(t)') /\ Cardinality(Holders(t)') \in Nat
           /\ Cardinality(Holders(t)') <= Cardinality(Servers)
<1> TAKE t
<1>1. Holders(t) \in SUBSET Servers /\ Holders(t)' \in SUBSET Servers /\ IsFiniteSet(Servers)
  BY ApprovalsAssumption DEF Holders
<1> QED BY <1>1, FS_Subset, FS_CardinalityType

\* No request begins to hold a link.
LEMMA LinksKept ==
    ASSUME CountInv, UNCHANGED <<token, decisions>>,
           \A s \in Servers : job'[s] = job[s] \/ job'[s].token \in {None, job[s].token}
    PROVE  \A t \in Tokens : LinkCounted(t)'
<1> SUFFICES ASSUME NEW t \in Tokens PROVE LinkCounted(t)'
  OBVIOUS
<1>1. Holders(t)' \subseteq Holders(t)
  BY ApprovalsAssumption DEF Holders
<1>2. Cardinality(Holders(t)') <= Cardinality(Holders(t))
  BY <1>1, HoldersFinite, FS_Subset
<1>3. decisions[t] \in Nat
  BY TypeParts DEF CountInv, TallyTyped
<1> QED BY <1>1, <1>2, <1>3, HoldersFinite DEF CountInv, LinkCounted

LEMMA RowKept ==
    ASSUME NEW r \in Rows, RowCounted(r), UNCHANGED <<status, calls, published, revived>>
    PROVE  RowCounted(r)'
  BY DEF RowCounted, Claimable

LEMMA SaveCounted ==
    ASSUME TypeOK, NEW seen, NEW new, NEW signs, NEW bypasses, NEW r \in Rows,
           Save(seen, new, signs, bypasses), RowCounted(r)
    PROVE  RowCounted(r)'
<1> USE TypeParts
<1>0. /\ published[r] \in Nat /\ calls[r] \in Nat /\ revived[r] \in Nat
      /\ published'[r] = published[r] /\ calls'[r] = calls[r]
  BY DEF EngineTyped, TallyTyped, Save, engineVars
<1>1. CASE seen[r] = None
  <2>1. status'[r] = status[r] /\ revived'[r] = revived[r]
    BY <1>1 DEF Save, StatusTyped, TallyTyped
  <2> QED BY <1>0, <2>1 DEF RowCounted, Claimable
<1>2. CASE seen[r] # None
  <2>1. /\ status'[r] = new[r]
        /\ revived'[r] = IF Taken(r, new[r]) THEN revived[r] + 1 ELSE revived[r]
    BY <1>2 DEF Save
  <2> QED BY <1>0, <2>1 DEF RowCounted, Claimable, Taken
<1> QED BY <1>1, <1>2

LEMMA EngineCounted ==
    ASSUME TypeOK, NEW q \in Rows, Engine(q), NEW r \in Rows, RowCounted(r)
    PROVE  RowCounted(r)'
<1> USE TypeParts
<1>0. /\ StatusTyped /\ EngineTyped /\ revived \in [Rows -> Nat]
      /\ published[r] \in Nat /\ calls[r] \in Nat /\ revived[r] \in Nat
  BY DEF EngineTyped, TallyTyped
<1>1. CASE q # r
  <2>1. /\ status'[r] = status[r] /\ calls'[r] = calls[r]
        /\ published'[r] = published[r] /\ revived'[r] = revived[r]
    BY <1>0, <1>1 DEF Engine, EngineClaims, EngineBlocks, EngineFails, EnginePublishes,
       EngineHolds, EngineCloses, EngineTakesBack, EngineDies, Closes, Sets, engineVars,
       StatusTyped, EngineTyped
  <2> QED BY <2>1 DEF RowCounted, Claimable
<1>2. CASE q = r
  <2>1. CASE EngineClaims(r)
    BY <1>0, <2>1 DEF EngineClaims, Sets, StatusTyped, EngineTyped, RowCounted, Claimable
  <2>2. CASE EngineBlocks(r)
    BY <1>0, <2>2 DEF EngineBlocks, Sets, engineVars, StatusTyped, RowCounted, Claimable
  <2>3. CASE EngineFails(r)
    BY <1>0, <2>3 DEF EngineFails, Outcomes, Sets, StatusTyped, EngineTyped, RowCounted,
       Claimable
  <2>4. CASE EnginePublishes(r)
    BY <1>0, <2>4 DEF EnginePublishes, Closes, Sets, StatusTyped, EngineTyped, RowCounted,
       Claimable
  <2>5. CASE EngineHolds(r)
    BY <1>0, <2>5 DEF EngineHolds, Closes, Sets, StatusTyped, EngineTyped, RowCounted,
       Claimable
  <2>6. CASE EngineCloses(r)
    BY <2>6, RowKept DEF EngineCloses
  <2>7. CASE EngineTakesBack(r)
    <3>1. PICK st \in {"scheduled", "failed"} : status' = [status EXCEPT ![r] = st]
      BY <2>7 DEF EngineTakesBack, Outcomes, Sets
    <3>2. /\ revived'[r] = IF Taken(r, "scheduled") THEN revived[r] + 1 ELSE revived[r]
          /\ calls' = calls /\ published' = published
      BY <1>0, <2>7 DEF EngineTakesBack
    <3>3. status'[r] = st
      BY <1>0, <3>1 DEF StatusTyped
    <3> QED BY <1>0, <3>2, <3>3 DEF Taken, RowCounted, Claimable
  <2>8. CASE EngineDies(r)
    BY <1>0, <2>8 DEF EngineDies, EngineTyped, RowCounted, Claimable
  <2> QED BY <1>2, <2>1, <2>2, <2>3, <2>4, <2>5, <2>6, <2>7, <2>8 DEF Engine
<1> QED BY <1>1, <1>2

\* The end of a link's transaction.
LEMMA LinkActs ==
    ASSUME CountInv, TypeOK, NEW s \in Servers,
           LinkApprovePublish(s) \/ LinkApprove(s) \/ LinkDecline(s) \/ LinkPublish(s)
    PROVE  \A u \in Tokens : LinkCounted(u)'
<1> USE TypeParts
<1>0. JobTyped /\ LinksTyped /\ decisions \in [Tokens -> Nat]
  BY DEF TallyTyped
<1>1. PICK t : t = job[s].token
  OBVIOUS
<1>2. PICK p \in {"review", "publish"} : Commits(s, p) /\ token[t].purpose = p
  BY <1>1 DEF LinkApprovePublish, LinkApprove, LinkDecline, LinkPublish, Commits
<1>3. /\ job'[s] = NoJob /\ t \in Tokens
      /\ \A o \in Servers \ {s} : job'[o] = job[o]
      /\ decisions' = [decisions EXCEPT ![t] = @ + 1]
  BY <1>0, <1>1, <1>2 DEF Commits, Done, JobTyped, Job
<1>4. /\ \A u \in Tokens : u # t => Holders(u)' = Holders(u)
      /\ Holders(t)' = Holders(t) \ {s} /\ s \in Holders(t)
  BY <1>1, <1>3, ApprovalsAssumption DEF Holders, NoJob
<1>5. \/ token' = Use(t)
      \/ /\ NextToken \in Tokens /\ token[NextToken].purpose = "none"
         /\ token' = [Use(t) EXCEPT ![NextToken] =
                         [purpose |-> "publish", state |-> "live", of |-> t]]
  BY <1>1, NextTokenFresh DEF LinkApprovePublish, LinkApprove, LinkDecline, LinkPublish, Unminted
<1> SUFFICES ASSUME NEW u \in Tokens PROVE LinkCounted(u)'
  OBVIOUS
<1>6. LinkCounted(u) /\ decisions[u] \in Nat /\ token \in [Tokens -> Token]
  BY <1>0 DEF CountInv, LinksTyped
<1>7. CASE u = t
  <2>1. decisions'[u] = decisions[u] + 1
    BY <1>0, <1>3, <1>7
  <2>2. Cardinality(Holders(u)') = Cardinality(Holders(u)) - 1
    <3>1. IsFiniteSet(Holders(u)) /\ s \in Holders(u)
      BY <1>4, <1>7, HoldersFinite
    <3> QED BY <1>4, <1>7, <3>1, FS_RemoveElement
  <2>3. token'[u].state = "used" /\ token'[u].purpose # "none"
    BY <1>2, <1>5, <1>6, <1>7 DEF Use, Token
  <2> QED BY <1>6, <2>1, <2>2, <2>3, HoldersFinite DEF LinkCounted
<1>8. CASE u # t
  <2>1. decisions'[u] = decisions[u] /\ Holders(u)' = Holders(u)
    BY <1>0, <1>3, <1>4, <1>8
  <2>2. CASE token'[u] = token[u]
    BY <1>6, <2>1, <2>2 DEF LinkCounted
  <2>3. CASE token[u].purpose = "none" /\ token'[u].purpose = "publish"
    BY <1>6, <2>1, <2>3 DEF LinkCounted
  <2> QED BY <1>5, <1>6, <1>8, <2>2, <2>3 DEF Use, Token
<1> QED BY <1>7, <1>8

LEMMA LinkResolved ==
    ASSUME CountInv, TypeOK, NEW s \in Servers, NEW t \in Tokens, ResolveToken(s, t)
    PROVE  \A u \in Tokens : LinkCounted(u)'
<1> USE TypeParts
<1>0. JobTyped
  OBVIOUS
<1>1. /\ job'[s].token = t /\ \A o \in Servers \ {s} : job'[o] = job[o]
      /\ UNCHANGED <<token, decisions>>
      /\ token[t].state = "live" /\ token[t].purpose # "none"
  BY <1>0 DEF ResolveToken, Begins, JobTyped, NoJob
<1> SUFFICES ASSUME NEW u \in Tokens PROVE LinkCounted(u)'
  OBVIOUS
<1>2. LinkCounted(u) /\ decisions[u] \in Nat
  BY DEF CountInv, TallyTyped
<1>3. CASE u = t
  BY <1>1, <1>2, <1>3, HoldersFinite DEF LinkCounted
<1>4. CASE u # t
  <2>1. Holders(u)' \subseteq Holders(u)
    BY <1>1, <1>4 DEF Holders
  <2>2. Cardinality(Holders(u)') <= Cardinality(Holders(u))
    BY <2>1, HoldersFinite, FS_Subset
  <2> QED BY <1>1, <1>2, <2>1, <2>2, HoldersFinite DEF LinkCounted
<1> QED BY <1>3, <1>4

\* The other steps of a web process hold no link they did not hold.
LEMMA LinksUntouched ==
    ASSUME CountInv, TypeOK, NEW s \in Servers,
           Reviewing(s) \/ Schedules(s) \/ Console(s) \/ LinkSchedules(s) \/ Crash(s)
    PROVE  \A t \in Tokens : LinkCounted(t)'
<1>0. JobTyped /\ job[s] \in Job
  BY TypeParts DEF JobTyped
<1>1. UNCHANGED <<token, decisions>>
  <2>1. CASE Reviewing(s)
    BY <2>1 DEF Reviewing, ServiceRead, ServiceSave, MenuRead, MenuSave
  <2>2. CASE Schedules(s)
    BY <2>2 DEF Schedules, PublishPost, ComposerSchedule, StartSchedule, ListRows, ReadRows,
       ScheduleDone, SaveRow
  <2>3. CASE Console(s) \/ LinkSchedules(s) \/ Crash(s)
    BY <2>3 DEF Console, ConsoleApprove, ConsoleApproved, ConsoleSend, SendApproves,
       LinkSchedules, ListRows, Crash
  <2> QED BY <2>1, <2>2, <2>3
<1>2. ASSUME job'[s].token \in {None, job[s].token},
             \A u \in Servers \ {s} : job'[u] = job[u]
      PROVE  \A t \in Tokens : LinkCounted(t)'
  <2>1. \A u \in Servers : job'[u] = job[u] \/ job'[u].token \in {None, job[u].token}
    BY <1>2
  <2> QED BY <1>1, <2>1, LinksKept
<1>3. Done(s) => \A t \in Tokens : LinkCounted(t)'
  <2>1. NoJob.token = None
    BY DEF NoJob
  <2>2. Done(s) => job'[s] = NoJob /\ \A u \in Servers \ {s} : job'[u] = job[u]
    BY <1>0 DEF Done, JobTyped
  <2> QED BY <1>2, <2>1, <2>2
<1>4. ASSUME NEW at, NEW seen, NEW to,
             \/ Begins(s, [NoJob EXCEPT !.at = at])
             \/ Begins(s, [NoJob EXCEPT !.at = at, !.seen = seen])
             \/ Begins(s, [NoJob EXCEPT !.at = at, !.to = to, !.seen = seen])
      PROVE  \A t \in Tokens : LinkCounted(t)'
  <2>1. /\ [NoJob EXCEPT !.at = at].token = None
        /\ [NoJob EXCEPT !.at = at, !.seen = seen].token = None
        /\ [NoJob EXCEPT !.at = at, !.to = to, !.seen = seen].token = None
    BY DEF NoJob
  <2>2. /\ job'[s].token = None
        /\ \A u \in Servers \ {s} : job'[u] = job[u]
    BY <1>0, <1>4, <2>1 DEF Begins, JobTyped
  <2> QED BY <1>2, <2>2
<1>5. ASSUME NEW at, NEW seen,
             \/ job' = [job EXCEPT ![s] = [job[s] EXCEPT !.at = at]]
             \/ job' = [job EXCEPT ![s] = [job[s] EXCEPT !.at = at, !.seen = seen]]
             \/ job' = [job EXCEPT ![s] = [job[s] EXCEPT !.seen = seen]]
      PROVE  \A t \in Tokens : LinkCounted(t)'
  <2>1. /\ [job[s] EXCEPT !.at = at].token = job[s].token
        /\ [job[s] EXCEPT !.at = at, !.seen = seen].token = job[s].token
        /\ [job[s] EXCEPT !.seen = seen].token = job[s].token
    BY <1>0 DEF Job
  <2>2. /\ job'[s].token = job[s].token
        /\ \A u \in Servers \ {s} : job'[u] = job[u]
    BY <1>0, <1>5, <2>1 DEF JobTyped
  <2> QED BY <1>2, <2>2
<1>6. CASE Reviewing(s)
  <2>1. ASSUME NEW kind \in Services, ServiceRead(s, kind)
        PROVE  \A t \in Tokens : LinkCounted(t)'
    BY <1>4, <2>1 DEF ServiceRead
  <2>2. ASSUME NEW r \in Rows, NEW to \in Statuses, MenuRead(s, r, to)
        PROVE  \A t \in Tokens : LinkCounted(t)'
    BY <1>4, <2>2 DEF MenuRead
  <2> QED BY <1>3, <1>6, <2>1, <2>2 DEF Reviewing, ServiceSave, MenuSave
<1>7. CASE Schedules(s)
  <2>1. CASE ComposerSchedule(s) \/ \E direct \in BOOLEAN : PublishPost(s, direct)
    BY <1>4, <2>1 DEF ComposerSchedule, PublishPost
  <2>2. CASE StartSchedule(s) \/ ReadRows(s) \/ \E r \in Rows : SaveRow(s, r)
    BY <1>5, <2>2 DEF StartSchedule, ListRows, ReadRows, SaveRow
  <2> QED BY <1>3, <1>7, <2>1, <2>2 DEF Schedules, ScheduleDone
<1>8. CASE Console(s)
  <2>1. CASE ConsoleApprove(s) \/ ConsoleSend(s)
    BY <1>4, <2>1 DEF ConsoleApprove, ConsoleSend
  <2>2. CASE SendApproves(s)
    BY <1>5, <2>2 DEF SendApproves, Goes
  <2> QED BY <1>3, <1>8, <2>1, <2>2 DEF Console, ConsoleApproved
<1>9. CASE LinkSchedules(s) \/ Crash(s)
  BY <1>3, <1>5, <1>9 DEF LinkSchedules, ListRows, Crash
<1> QED BY <1>6, <1>7, <1>8, <1>9

LEMMA CountStep == CountInv /\ TypeOK' /\ [Next]_vars => CountInv'
<1> SUFFICES ASSUME CountInv, TypeOK', [Next]_vars PROVE CountInv'
  OBVIOUS
<1> USE TypeParts
<1>0. TypeOK /\ (\A t \in Tokens : LinkCounted(t)) /\ (\A r \in Rows : RowCounted(r))
  BY DEF CountInv
<1> SUFFICES (\A t \in Tokens : LinkCounted(t)') /\ (\A r \in Rows : RowCounted(r)')
  BY DEF CountInv
<1>1. UNCHANGED <<job, token, decisions>> => \A t \in Tokens : LinkCounted(t)'
  BY LinksKept
<1>2. UNCHANGED <<status, revived, engineVars>> => \A r \in Rows : RowCounted(r)'
  BY <1>0, RowKept DEF engineVars
<1>3. ASSUME NEW s \in Servers,
             Reviewing(s) \/ Schedules(s) \/ Console(s) \/ LinkStep(s) \/ Crash(s)
      PROVE  (\A t \in Tokens : LinkCounted(t)') /\ (\A r \in Rows : RowCounted(r)')
  <2>1. \A t \in Tokens : LinkCounted(t)'
    BY <1>0, <1>3, LinksUntouched, LinkResolved, LinkActs DEF LinkStep
  <2>2. (\E seen, new, signs, bypasses : Save(seen, new, signs, bypasses))
            => \A r \in Rows : RowCounted(r)'
    BY <1>0, SaveCounted
  <2>3. ServiceSave(s) => \E seen, new, signs, bypasses : Save(seen, new, signs, bypasses)
    BY DEF ServiceSave
  <2>4. MenuSave(s) => \E seen, new, signs, bypasses : Save(seen, new, signs, bypasses)
    BY DEF MenuSave
  <2>5. Approve => \E seen, new, signs, bypasses : Save(seen, new, signs, bypasses)
    BY DEF Approve
  <2>6. LinkApprovePublish(s) \/ LinkPublish(s) \/ (\E r \in Rows : SaveRow(s, r))
            => \E seen, new, signs, bypasses : Save(seen, new, signs, bypasses)
    BY DEF LinkApprovePublish, LinkPublish, SaveRow, ScheduleAll
  <2> QED BY <1>2, <1>3, <2>1, <2>2, <2>3, <2>4, <2>5, <2>6, ProcessSaves
<1>4. CASE Flag \/ \E outcome \in {"changes_requested", "rejected"} : ConsoleDecline(outcome)
  BY <1>1, <1>2, <1>4 DEF Flag, ConsoleDecline
<1>5. CASE AssignForReview
  <2>1. \A r \in Rows : RowCounted(r)'
    BY <1>2, <1>5 DEF AssignForReview
  <2> SUFFICES ASSUME NEW t \in Tokens PROVE LinkCounted(t)'
    BY <2>1
  <2>2. NextToken \in Tokens /\ token[NextToken].purpose = "none"
    BY <1>5, NextTokenFresh DEF AssignForReview, Unminted
  <2>3. token' = [token EXCEPT ![NextToken] =
                     [purpose |-> "review", state |-> "live", of |-> NextToken]]
    BY <1>5 DEF AssignForReview, Mint
  <2>4. Holders(t)' = Holders(t) /\ decisions' = decisions /\ LinkCounted(t)
    BY <1>0, <1>5 DEF AssignForReview, Holders
  <2>5. CASE t = NextToken
    BY <1>0, <2>2, <2>3, <2>4, <2>5 DEF LinksTyped, LinkCounted
  <2>6. CASE t # NextToken
    BY <1>0, <2>3, <2>4, <2>6 DEF LinksTyped, LinkCounted
  <2> QED BY <2>5, <2>6
<1>6. ASSUME NEW t \in Tokens, Expire(t)
      PROVE  (\A u \in Tokens : LinkCounted(u)') /\ (\A r \in Rows : RowCounted(r)')
  <2>1. ASSUME NEW u \in Tokens PROVE LinkCounted(u)'
    <3>1. /\ Holders(u)' = Holders(u) /\ decisions' = decisions /\ LinkCounted(u)
          /\ token'[u].purpose = token[u].purpose
          /\ token'[u].state \in {"expired", token[u].state}
      BY <1>0, <1>6 DEF Expire, LinksTyped, Token, Holders
    <3> QED BY <3>1 DEF LinkCounted
  <2> QED BY <1>2, <1>6, <2>1 DEF Expire
<1>7. ASSUME NEW r \in Rows, Engine(r)
      PROVE  (\A t \in Tokens : LinkCounted(t)') /\ (\A q \in Rows : RowCounted(q)')
  <2>1. UNCHANGED reviewVars
    BY <1>7 DEF Engine, EngineClaims, EngineBlocks, EngineFails, EnginePublishes,
       EngineHolds, EngineCloses, EngineTakesBack, EngineDies, Closes
  <2> QED BY <1>0, <1>1, <1>7, <2>1, EngineCounted DEF reviewVars
<1>8. CASE UNCHANGED vars
  BY <1>1, <1>2, <1>8 DEF vars
<1> QED BY <1>3, <1>4, <1>5, <1>6, <1>7, <1>8 DEF Next

\* However requests and cycles overlap, a link is acted upon at most once by
\* each process, and a row is published again only after it was taken out of
\* "published" or away from the cycle at work on it.
THEOREM LinksActedOnce == Spec => []ActedOnce
<1>1. Init /\ TypeOK => CountInv
  <2> SUFFICES ASSUME Init, TypeOK PROVE CountInv
    OBVIOUS
  <2>1. ASSUME NEW t \in Tokens PROVE LinkCounted(t)
    <3>1. Holders(t) = {} /\ token[t] = NoToken /\ decisions[t] = 0
      BY ApprovalsAssumption DEF Init, Holders, NoJob
    <3> QED BY <3>1, HoldersFinite, FS_EmptySet DEF LinkCounted, NoToken
  <2>2. \A r \in Rows : RowCounted(r)
    BY DEF Init, RowCounted, Claimable
  <2> QED BY <2>1, <2>2 DEF CountInv
<1>2. CountInv => ActedOnce
  <2> SUFFICES ASSUME CountInv PROVE ActedOnce
    OBVIOUS
  <2> USE TypeParts
  <2>1. ASSUME NEW t \in Tokens PROVE decisions[t] <= Cardinality(Servers)
    BY HoldersFinite DEF CountInv, LinkCounted, TallyTyped
  <2>2. ASSUME NEW r \in Rows PROVE published[r] <= 1 + revived[r]
    BY DEF CountInv, RowCounted, Claimable, TallyTyped, EngineTyped
  <2> QED BY <2>1, <2>2 DEF ActedOnce
<1> QED BY <1>1, <1>2, CountStep, TypeCorrect, PTL DEF Spec
=============================================================================
