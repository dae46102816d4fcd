----------------------------- MODULE Approvals ------------------------------
(***************************************************************************)
(* The ways a post is reviewed and scheduled: the review services on its   *)
(* rows, the account menu, the console's decision on the post, and the     *)
(* review and publish links an external reviewer gets by email.            *)
(*   src/apps/approvals/services.py       submit, approve, changes, reject *)
(*   src/apps/approvals/console_views.py, send_actions.py   the console    *)
(*   src/apps/approvals/assignment_service.py, tokens.py, review_views.py  *)
(*   src/apps/composer/views.py   schedule_now, publish_post, save_post,   *)
(*                                the menu                                 *)
(* One post.  A service reads the rows before its transaction and saves    *)
(* those instances in it; schedule_now lists the rows, reads them again    *)
(* and saves them one by one; a link does all of it in its transaction.    *)
(* No reader locks a row; the lock an UPDATE holds to the end of its       *)
(* transaction is left out, which only adds interleavings.  So are texts,  *)
(* notifications, reminders, the deletion of live posts (LivePosts) and,   *)
(* of the publishing engine, all but what becomes of a row (PublishEngine).*)
(***************************************************************************)
EXTENDS Integers, FiniteSets, PostStatus

CONSTANTS
    Rows,        \* the PlatformPost rows of the post
    Servers,     \* web processes
    TwoStage,    \* approval_workflow_mode = "required_internal_and_client"
    MaxTokens,   \* bound: links
    MaxRequests, \* bound: requests
    MaxRevived,  \* bound: a log entry fails only while a row was revived less often
    None

Tokens == 1..MaxTokens

ASSUME ApprovalsAssumption ==
    /\ IsFiniteSet(Servers) /\ Servers # {}
    /\ TwoStage \in BOOLEAN
    /\ MaxTokens \in Nat /\ MaxRequests \in Nat /\ MaxRevived \in Nat
    /\ None \notin Tokens /\ None \notin Statuses

VARIABLES
    status,      \* PlatformPost.status
    review,      \* Post.review_state
    token,       \* the ActionToken rows
    assignment,  \* ReviewAssignment.status, by the review token it was mailed with
    job,         \* what each web process is doing
    requests,    \* requests so far
    calls,       \* publish cycles, parked submissions among them, at work on a row
    closing,     \* cycles that have saved the row's outcome and write its log entry
    signed,      \* history: approvals of a row since it was submitted
    bypassed,    \* history: rows that got a review state since without a service
    raced,       \* history: rows that got one from an instance that was out of date
    decisions,   \* history: how often each link was acted upon
    published,   \* history: how often a cycle saved a row as published
    revived      \* history: how often a save took a row out of "published" or away
                 \* from the cycle at work on it

engineVars == <<calls, closing, published>>
signVars == <<signed, bypassed, raced>>
vars == <<status, review, token, assignment, job, requests, decisions, revived,
          engineVars, signVars>>

-----------------------------------------------------------------------------
(* Types *)

Reviews == {"none", "pending", "approved", "changes_requested", "rejected"}

\* "of": the review token of the assignment a publish token belongs to.
Token == [purpose : {"none", "review", "publish"}, state : {"live", "used", "expired"},
          of : Tokens \cup {None}]
NoToken == [purpose |-> "none", state |-> "expired", of |-> None]

Services == {"submit", "resubmit", "approve", "changes", "reject"}

\* Requests hold the statuses of the instances they have read, None for the
\* rows they leave out; the menu also what is asked of its row, and a link the
\* token it found unused.
Job == [at : {"off", "menu", "approving", "sending", "scheduling", "listed", "saving", "link"}
                \cup Services,
        token : Tokens \cup {None}, to : Statuses,
        seen : [Rows -> Statuses \cup {None}]]
Nothing == [r \in Rows |-> None]
NoJob == [at |-> "off", token |-> None, to |-> "draft", seen |-> Nothing]

TypeOK ==
    /\ status \in [Rows -> Statuses]
    /\ review \in Reviews
    /\ token \in [Tokens -> Token]
    /\ assignment \in [Tokens -> {"none", "pending", "approved", "declined"}]
    /\ job \in [Servers -> Job]
    /\ requests \in Nat
    /\ calls \in [Rows -> Nat] /\ closing \in [Rows -> Nat]
    /\ signed \in [Rows -> Nat]
    /\ bypassed \subseteq Rows /\ raced \subseteq Rows
    /\ decisions \in [Tokens -> Nat]
    /\ published \in [Rows -> Nat] /\ revived \in [Rows -> Nat]

-----------------------------------------------------------------------------
(* Helpers.  A definition named Slip... is the one after it with a plausible  *)
(* mistake; no specification uses it, it shows that a property can fail.      *)

NewRequest == requests < MaxRequests /\ requests' = requests + 1

\* A web process that takes a request, goes on with it, or has answered it.
Begins(s, work) == job[s].at = "off" /\ NewRequest /\ job' = [job EXCEPT ![s] = work]
Goes(s, stage) == job' = [job EXCEPT ![s] = [job[s] EXCEPT !.at = stage]]
Done(s) == job' = [job EXCEPT ![s] = NoJob]

\* The instances of the rows in a set, as a query returns them.
Read(rows) == [r \in Rows |-> IF r \in rows THEN status[r] ELSE None]

\* Saving st takes the row out of "published", or away from a cycle's call.
Taken(r, st) ==
    \/ status[r] = "published" /\ st # "published"
    \/ status[r] = "publishing" /\ calls[r] > 0 /\ st \notin {"publishing", "published"}

\* The instances in "seen" are saved with the statuses in "new", whatever the
\* rows have become; of those rows some get an approval by it, some a review
\* state without one.
Save(seen, new, signs, bypasses) ==
    LET moved == {r \in Rows : seen[r] # None}
        submitted == {r \in moved : new[r] = "pending_review"}
        granted == {r \in moved : new[r] \in {"pending_client", "approved"}}
    IN /\ status' = [r \in Rows |-> IF r \in moved THEN new[r] ELSE status[r]]
       /\ signed' = [r \in Rows |-> IF r \in submitted THEN 0
                                    ELSE IF r \in signs THEN signed[r] + 1 ELSE signed[r]]
       /\ bypassed' = (bypassed \ submitted) \cup bypasses
       /\ raced' = (raced \ submitted) \cup {r \in granted : seen[r] # status[r]}
       /\ revived' = [r \in Rows |->
                        IF r \in moved /\ Taken(r, new[r]) THEN revived[r] + 1 ELSE revived[r]]
       /\ UNCHANGED engineVars

-----------------------------------------------------------------------------
(* The services *)

\* eligible_from_states.
Eligible(kind) ==
    CASE kind = "submit" -> {"draft", "changes_requested", "rejected"}
      [] kind = "resubmit" -> {"changes_requested", "rejected"}
      [] kind = "approve" -> {"pending_review", "pending_client", "draft", "rejected",
                              "changes_requested"}
      [] OTHER -> {"pending_review", "pending_client"}

\* The status a service asks for.
Wanted(kind) ==
    CASE kind \in {"submit", "resubmit"} -> "pending_review"
      [] kind = "approve" -> "approved"
      [] kind = "changes" -> "changes_requested"
      [] kind = "reject" -> "rejected"

SlipOutcome(kind, st) == Wanted(kind)

\* Where an instance in status st ends: two-stage workspaces hand what the
\* internal review has approved on to the client.
Outcome(kind, st) ==
    IF kind = "approve" /\ TwoStage /\ st = "pending_review"
    THEN "pending_client" ELSE Wanted(kind)

\* _resolve_targets: the eligible rows that can make the transition are read.
ServiceRead(s, kind) ==
    LET rows == {r \in Rows : /\ status[r] \in Eligible(kind)
                              /\ CanTransition(status[r], Wanted(kind))}
    IN /\ rows # {}
       /\ Begins(s, [NoJob EXCEPT !.at = kind, !.seen = Read(rows)])
       /\ UNCHANGED <<status, review, token, assignment, decisions, revived, engineVars, signVars>>

ServiceSave(s) ==
    LET kind == job[s].at
        seen == job[s].seen
    IN /\ kind \in Services
       /\ Save(seen, [r \in Rows |-> Outcome(kind, seen[r])],
               {r \in Rows : seen[r] # None /\ kind = "approve"}, {})
       /\ Done(s)
       /\ UNCHANGED <<review, token, assignment, requests, decisions>>

-----------------------------------------------------------------------------
(* The account menu, and whoever else saves a row that was read before *)

\* The menu and the API go by the machine; the composer saves the row, and
\* reschedule_post a row that is approved or scheduled, with the status it had;
\* publish_content_item saves "scheduled" whatever the row was.
MenuRead(s, r, to) ==
    /\ \/ CanTransition(status[r], to)
       \/ to \in {status[r], "scheduled"}
    /\ Begins(s, [NoJob EXCEPT !.at = "menu", !.to = to, !.seen = Read({r})])
    /\ UNCHANGED <<status, review, token, assignment, decisions, revived, engineVars, signVars>>

\* One click is no approval by the services, in either stage.
MenuSave(s) ==
    LET seen == job[s].seen
        to == job[s].to
    IN /\ job[s].at = "menu"
       /\ Save(seen, [r \in Rows |-> to], {},
               {r \in Rows : /\ seen[r] # None /\ to # seen[r]
                             /\ to \in {"pending_client", "approved"}})
       /\ Done(s)
       /\ UNCHANGED <<review, token, assignment, requests, decisions>>

-----------------------------------------------------------------------------
(* schedule_now, in a request of its own or in a link's transaction *)

\* Its first query: the rows neither scheduled nor beyond.
ListRows(s) ==
    LET rows == {r \in Rows : status[r] \notin {"scheduled", "publishing", "published"}}
    IN /\ job' = [job EXCEPT ![s] = [job[s] EXCEPT !.at = "listed", !.seen = Read(rows)]]
       /\ UNCHANGED <<status, review, token, assignment, requests, decisions, revived,
                      engineVars, signVars>>

\* _transition_post_children: to "scheduled" directly, or by way of draft; rows
\* in review are skipped.
Schedulable(st) ==
    \/ CanTransition(st, "scheduled")
    \/ st # "scheduled" /\ CanTransition(st, "draft") /\ CanTransition("draft", "scheduled")

\* The listed rows are read again.
ReadRows(s) ==
    LET rows == {r \in Rows : job[s].seen[r] # None /\ Schedulable(status[r])}
    IN /\ job[s].at = "listed"
       /\ job' = [job EXCEPT ![s] = [job[s] EXCEPT !.at = "saving", !.seen = Read(rows)]]
       /\ UNCHANGED <<status, review, token, assignment, requests, decisions, revived,
                      engineVars, signVars>>

ScheduleAll(seen) == Save(seen, [r \in Rows |-> "scheduled"], {}, {})

\* Outside a transaction each row is saved by itself.
SaveRow(s, r) ==
    /\ job[s].at = "saving" /\ job[s].token = None /\ job[s].seen[r] # None
    /\ ScheduleAll([Nothing EXCEPT ![r] = job[s].seen[r]])
    /\ job' = [job EXCEPT ![s] = [job[s] EXCEPT !.seen = [job[s].seen EXCEPT ![r] = None]]]
    /\ UNCHANGED <<review, token, assignment, requests, decisions>>

ScheduleDone(s) ==
    /\ job[s].at = "saving" /\ job[s].token = None /\ job[s].seen = Nothing
    /\ Done(s)
    /\ UNCHANGED <<status, review, token, assignment, requests, decisions, revived,
                   engineVars, signVars>>

\* publish_post, on an approved post or by its author with publish_directly.
PublishPost(s, isHumanDirect) ==
    /\ isHumanDirect \/ review = "approved"
    /\ Begins(s, [NoJob EXCEPT !.at = "scheduling"])
    /\ UNCHANGED <<status, review, token, assignment, decisions, revived, engineVars, signVars>>

\* save_post with "schedule", "publish_now" or "add_to_queue": the rows are read
\* without the first query.
ComposerSchedule(s) ==
    /\ Begins(s, [NoJob EXCEPT !.at = "listed", !.seen = Read(Rows)])
    /\ UNCHANGED <<status, review, token, assignment, decisions, revived, engineVars, signVars>>

StartSchedule(s) == job[s].at = "scheduling" /\ ListRows(s)

-----------------------------------------------------------------------------
(* The console *)

\* studio_submit_review: the post is flagged before its rows are submitted.
Flag ==
    /\ NewRequest
    /\ review \in {"none", "changes_requested", "rejected"}
    /\ review' = "pending"
    /\ UNCHANGED <<status, token, assignment, job, decisions, revived, engineVars, signVars>>

\* The UPDATE of the rows that wait for the internal review.
Approve ==
    LET waiting == {r \in Rows : status[r] = "pending_review"}
    IN Save(Read(waiting), [r \in Rows |-> "approved"], {}, waiting)

\* approval_decide: approve; the post is saved last.
ConsoleApprove(s) ==
    /\ Begins(s, [NoJob EXCEPT !.at = "approving"])
    /\ Approve
    /\ UNCHANGED <<review, token, assignment, decisions>>

ConsoleApproved(s) ==
    /\ job[s].at = "approving"
    /\ review' = "approved"
    /\ Done(s)
    /\ UNCHANGED <<status, token, assignment, requests, decisions, revived, engineVars, signVars>>

\* approval_decide: changes, reject.
ConsoleDecline(outcome) ==
    /\ NewRequest
    /\ review' = outcome
    /\ UNCHANGED <<status, token, assignment, job, decisions, revived, engineVars, signVars>>

\* approval_decide: send, which is send_for_publish: the post, the rows, and
\* after the email schedule_now.
ConsoleSend(s) ==
    /\ Begins(s, [NoJob EXCEPT !.at = "sending"])
    /\ review' = "approved"
    /\ UNCHANGED <<status, token, assignment, decisions, revived, engineVars, signVars>>

SendApproves(s) ==
    /\ job[s].at = "sending"
    /\ Approve
    /\ Goes(s, "scheduling")
    /\ UNCHANGED <<review, token, assignment, requests, decisions>>

-----------------------------------------------------------------------------
(* The links *)

Unminted == {t \in Tokens : token[t].purpose = "none"}
NextToken == CHOOSE t \in Unminted : TRUE

\* mint_token.
Mint(purpose, of) ==
    [token EXCEPT ![NextToken] = [purpose |-> purpose, state |-> "live", of |-> of]]

\* assign_for_review: the assignment, the state of the post, the review link.
AssignForReview ==
    /\ NewRequest
    /\ Unminted # {}
    /\ token' = Mint("review", NextToken)
    /\ assignment' = [assignment EXCEPT ![NextToken] = "pending"]
    /\ review' = "pending"
    /\ UNCHANGED <<status, job, decisions, revived, engineVars, signVars>>

\* resolve_token in the transaction of a POST.
ResolveToken(s, t) ==
    /\ token[t].purpose # "none" /\ token[t].state = "live"
    /\ Begins(s, [NoJob EXCEPT !.at = "link", !.token = t])
    /\ UNCHANGED <<status, review, token, assignment, decisions, revived, engineVars, signVars>>

SlipUse(t) == token

\* consume.
Use(t) == [token EXCEPT ![t].state = "used"]

\* What the end of a link's transaction does besides its own writes.
Commits(s, purpose) ==
    /\ job[s].token # None /\ token[job[s].token].purpose = purpose
    /\ decisions' = [decisions EXCEPT ![job[s].token] = @ + 1]
    /\ Done(s)
    /\ UNCHANGED requests

\* "approve_publish" and a publish link call schedule_now in the transaction.
LinkSchedules(s) == job[s].at = "link" /\ ListRows(s)

LinkApprovePublish(s) ==
    LET t == job[s].token
    IN /\ job[s].at = "saving" /\ Commits(s, "review")
       /\ assignment' = [assignment EXCEPT ![t] = "approved"]
       /\ review' = "approved"
       /\ token' = Use(t)
       /\ ScheduleAll(job[s].seen)

\* "approve": a publish link is minted for the owner.
LinkApprove(s) ==
    LET t == job[s].token
    IN /\ job[s].at = "link" /\ Commits(s, "review")
       /\ Unminted # {}
       /\ assignment' = [assignment EXCEPT ![t] = "approved"]
       /\ review' = "approved"
       /\ token' = [Use(t) EXCEPT ![NextToken] =
                       [purpose |-> "publish", state |-> "live", of |-> t]]
       /\ UNCHANGED <<status, revived, engineVars, signVars>>

LinkDecline(s) ==
    LET t == job[s].token
    IN /\ job[s].at = "link" /\ Commits(s, "review")
       /\ assignment' = [assignment EXCEPT ![t] = "declined"]
       /\ review' = "changes_requested"
       /\ token' = Use(t)
       /\ UNCHANGED <<status, revived, engineVars, signVars>>

\* publish: nothing is asked of the post's review state.
LinkPublish(s) ==
    /\ job[s].at = "saving" /\ Commits(s, "publish")
    /\ token' = Use(job[s].token)
    /\ ScheduleAll(job[s].seen)
    /\ UNCHANGED <<review, assignment>>

\* expires_at passes.
Expire(t) ==
    /\ token[t].purpose # "none" /\ token[t].state = "live"
    /\ token' = [token EXCEPT ![t].state = "expired"]
    /\ UNCHANGED <<status, review, assignment, job, requests, decisions, revived,
                   engineVars, signVars>>

-----------------------------------------------------------------------------
(* The engine.  A cycle claims a scheduled row and saves what comes of it,    *)
(* whatever the row has become; a row parked at Blotato stays with its cycle  *)
(* here until the reconciler settles it.                                      *)

reviewVars == <<review, token, assignment, job, requests, decisions>>

\* The row of a cycle, or of a blocked claim, gets a status.
Sets(r, st) == status' = [status EXCEPT ![r] = st]
Outcomes == {"scheduled", "failed"}

EngineClaims(r) ==
    /\ status[r] = "scheduled"
    /\ Sets(r, "publishing")
    /\ calls' = [calls EXCEPT ![r] = @ + 1]
    /\ UNCHANGED <<closing, published, revived, signVars, reviewVars>>

\* The gate blocks the row before it is claimed.
EngineBlocks(r) ==
    /\ status[r] = "scheduled"
    /\ Sets(r, "failed")
    /\ UNCHANGED <<revived, engineVars, signVars, reviewVars>>

EngineFails(r) ==
    /\ calls[r] > 0
    /\ \E st \in Outcomes : Sets(r, st)
    /\ calls' = [calls EXCEPT ![r] = @ - 1]
    /\ UNCHANGED <<closing, published, revived, signVars, reviewVars>>

\* The provider call is over.
Closes(r) ==
    /\ calls[r] > 0
    /\ calls' = [calls EXCEPT ![r] = @ - 1]
    /\ closing' = [closing EXCEPT ![r] = @ + 1]
    /\ UNCHANGED <<revived, signed, raced, reviewVars>>

EnginePublishes(r) ==
    /\ Closes(r)
    /\ Sets(r, "published")
    /\ published' = [published EXCEPT ![r] = @ + 1]
    /\ UNCHANGED bypassed

\* The Joseph gate; its bare return then fails in the caller like a log entry.
EngineHolds(r) ==
    /\ Closes(r)
    /\ Sets(r, "pending_client")
    /\ bypassed' = bypassed \cup {r}
    /\ UNCHANGED published

EngineCloses(r) ==
    /\ closing[r] > 0
    /\ closing' = [closing EXCEPT ![r] = @ - 1]
    /\ UNCHANGED <<status, calls, published, revived, signVars, reviewVars>>

\* The log entry fails and the row gets a retry.
EngineTakesBack(r) ==
    /\ closing[r] > 0 /\ revived[r] < MaxRevived
    /\ closing' = [closing EXCEPT ![r] = @ - 1]
    /\ \E st \in Outcomes : Sets(r, st)
    /\ revived' = [revived EXCEPT ![r] = IF Taken(r, "scheduled") THEN @ + 1 ELSE @]
    /\ UNCHANGED <<calls, published, signVars, reviewVars>>

\* A worker dies in its call.
EngineDies(r) ==
    /\ calls[r] > 0
    /\ calls' = [calls EXCEPT ![r] = @ - 1]
    /\ UNCHANGED <<status, closing, published, revived, signVars, reviewVars>>

\* A request dies: an open transaction wrote nothing, what was saved stays.
Crash(s) ==
    /\ job[s].at # "off"
    /\ Done(s)
    /\ UNCHANGED <<status, review, token, assignment, requests, decisions, revived,
                   engineVars, signVars>>

-----------------------------------------------------------------------------

Reviewing(s) ==
    \/ \E kind \in Services : ServiceRead(s, kind)
    \/ ServiceSave(s)
    \/ \E r \in Rows, to \in Statuses : MenuRead(s, r, to)
    \/ MenuSave(s)

Schedules(s) ==
    \/ \E direct \in BOOLEAN : PublishPost(s, direct)
    \/ ComposerSchedule(s) \/ StartSchedule(s) \/ ReadRows(s) \/ ScheduleDone(s)
    \/ \E r \in Rows : SaveRow(s, r)

Console(s) ==
    \/ ConsoleApprove(s) \/ ConsoleApproved(s) \/ ConsoleSend(s) \/ SendApproves(s)

LinkStep(s) ==
    \/ \E t \in Tokens : ResolveToken(s, t)
    \/ LinkSchedules(s)
    \/ LinkApprovePublish(s) \/ LinkApprove(s) \/ LinkDecline(s) \/ LinkPublish(s)

Engine(r) ==
    \/ EngineClaims(r) \/ EngineBlocks(r) \/ EngineFails(r) \/ EnginePublishes(r)
    \/ EngineHolds(r) \/ EngineCloses(r) \/ EngineTakesBack(r) \/ EngineDies(r)

Next ==
    \/ \E s \in Servers :
        Reviewing(s) \/ Schedules(s) \/ Console(s) \/ LinkStep(s) \/ Crash(s)
    \/ Flag \/ AssignForReview
    \/ \E outcome \in {"changes_requested", "rejected"} : ConsoleDecline(outcome)
    \/ \E t \in Tokens : Expire(t)
    \/ \E r \in Rows : Engine(r)

Init ==
    /\ status = [r \in Rows |-> "draft"]
    /\ review = "none"
    /\ token = [t \in Tokens |-> NoToken]
    /\ assignment = [t \in Tokens |-> "none"]
    /\ job = [s \in Servers |-> NoJob]
    /\ requests = 0
    /\ calls = [r \in Rows |-> 0] /\ closing = [r \in Rows |-> 0]
    /\ signed = [r \in Rows |-> 0]
    /\ bypassed = {} /\ raced = {}
    /\ decisions = [t \in Tokens |-> 0]
    /\ published = [r \in Rows |-> 0] /\ revived = [r \in Rows |-> 0]

Spec == Init /\ [][Next]_vars

-----------------------------------------------------------------------------
(* Properties *)

\* In a two-stage workspace a row is approved only after two approvals by the
\* services of what was last submitted, unless something else gave it a review
\* state (the console, the account menu or the engine's hold, which know one
\* stage only) or a save from an outdated instance came in between.
SignedTwice ==
    TwoStage => \A r \in Rows :
        status[r] = "approved" => signed[r] >= 2 \/ r \in bypassed \cup raced

\* A link is acted upon once, or once by each request that had found it unused;
\* and however the reviews and the unlocked scheduling overlap the cycles, a
\* row is published once more only for each time a save or a failed log entry
\* took it out of "published" or away from the cycle at work on it.
ActedOnce ==
    /\ \A t \in Tokens : decisions[t] <= Cardinality(Servers)
    /\ \A r \in Rows : published[r] <= 1 + revived[r]
=============================================================================
