---------------------------- MODULE PublishEngine ----------------------------
(***************************************************************************)
(* The publishing engine over the PlatformPost table.                      *)
(*                                                                         *)
(* Publish cycles (Celery ticks under the publish-cycle lock, and cycles   *)
(* started without it) poll for due rows, claim them, verify the approval  *)
(* gate, call the platform and write the outcome back.  They work on       *)
(* in-memory copies of rows and save whole rows, while people edit the     *)
(* same rows and the Blotato reconciler settles submissions.               *)
(*   src/apps/publisher/engine.py, tasks.py     the cycles, the reconciler *)
(*   src/apps/composer/views.py, console_publish.py,                       *)
(*   src/apps/api/routers/posts.py              the requests of people     *)
(***************************************************************************)
EXTENDS Integers, FiniteSets, Sequences, PostStatus

CONSTANTS
    Posts,        \* PlatformPost rows
    Groups,       \* the rows of one parent Post, for each parent
    Blotato,      \* rows on an asynchronous blotato_* account
    Sensitive,    \* rows whose intake item check_intake_gate may block, asked anew each time
    Held,         \* rows waiting for the principal's personal approval
    Origins,      \* who wrote the rows: subset of {"composer", "api", "agent"}
    Texts,        \* captions
    Cleared,      \* captions the approval gate answers pass/approved for
    Ticks,        \* Celery run_publish_cycle tasks: take the lock
    Consoles,     \* publish_content_item, run_publisher: take no lock
    Users,        \* people with a web or API request in progress
    MaxRetries,   \* MAX_RETRIES
    BatchLimit,   \* MAX_CONCURRENT_PUBLISHES
    Faults,       \* subset of {"crash", "gate", "answer", "log"}
    Operations,   \* which requests people make
    MaxRequests,  \* bound: requests made in one behaviour
    MaxCrashes,   \* bound: crashes in one behaviour
    None

Cycles == Ticks \cup Consoles

ASSUME EngineAssumption ==
    /\ \A G \in Groups : G \subseteq Posts
    /\ Blotato \subseteq Posts /\ Sensitive \subseteq Posts /\ Held \subseteq Posts
    /\ Cleared \subseteq Texts
    /\ IsFiniteSet(Ticks) /\ IsFiniteSet(Consoles) /\ Ticks \cap Consoles = {}
    /\ MaxRetries \in Nat /\ BatchLimit \in Nat
    /\ MaxRequests \in Nat /\ MaxCrashes \in Nat
    /\ None \notin Posts \cup Texts \cup Ticks \cup Consoles
    /\ Faults \subseteq {"crash", "gate", "answer", "log"}

VARIABLES
    row,       \* the committed PlatformPost rows
    text,      \* the parent's caption, as each row reads it
    due,       \* rows whose effective_at has passed
    remote,    \* what each platform accepted, in order
    lock,      \* owner of the publish-cycle lock
    phase,     \* where poll_and_publish stands in each cycle
    at,        \* where each cycle stands with each row
    copy,      \* the model instance each cycle holds of each row
    recon,     \* submission ids the reconciler has listed
    req,       \* the request each user has in progress
    requests,  \* requests made so far
    crashes,   \* crashes so far
    openings,  \* history: how often each row entered "scheduled"
    raced      \* history: rows edited while someone held a copy of them

engineVars == <<lock, phase, at, copy>>
peopleVars == <<req, requests>>
historyVars == <<openings, raced>>
vars == <<row, text, due, remote, recon, crashes,
          engineVars, peopleVars, historyVars>>

-----------------------------------------------------------------------------
(* Types *)

\* The columns of PlatformPost the engine depends on.  "wait" abstracts
\* next_retry_at: unset, in the future, or passed.  "sub" abstracts
\* platform_post_id: a position in remote for a submission id, 0 for the empty
\* string and for a platform's own post id, which check_status does not know.
Row == [status : Statuses, retry : Nat, wait : {"none", "ahead", "over"},
        sub : Nat, gate : Texts \cup {None}, hash : Texts \cup {None},
        bypass : BOOLEAN]

BlankRow == [status |-> "draft", retry |-> 0, wait |-> "none", sub |-> 0,
             gate |-> None, hash |-> None, bypass |-> FALSE]

\* A model instance: the row and, through select_related, its parent's caption.
Copy == [row : Row, text : Texts \cup {None}]
NoCopy == [row |-> BlankRow, text |-> None]

\* "gated" records that the submission went out on a gate verdict rather than
\* on gate_bypassed.
Submission == [text : Texts \cup {None}, state : {"pending", "published", "failed"},
               gated : BOOLEAN]

\* "due": listed by id only; "queued": listed as a snapshot by the retry
\* query; the others name the step of _publish_platform_post reached.
Stages == {"idle", "due", "queued", "claimed", "accepted", "recorded", "parked",
           "failed"}
Working == {"claimed", "accepted", "recorded", "parked", "failed"}
Holding == Working \cup {"queued"}

\* "posts" are the rows of the post, "left" those the request has yet to write,
\* "seen" the instances it holds of them.
Request == [op : {"none", "patch", "autosave", "compose", "compose_row", "move",
                  "transition", "console"},
            posts : SUBSET Posts, left : SUBSET Posts, post : Posts \cup {None},
            text : Texts \cup {None}, seen : [Posts -> Row], target : Statuses]
NoRequest == [op |-> "none", posts |-> {}, left |-> {}, post |-> None, text |-> None,
              seen |-> [p \in Posts |-> BlankRow], target |-> "draft"]

TypeOK ==
    /\ row \in [Posts -> Row]
    /\ text \in [Posts -> Texts]
    /\ due \subseteq Posts
    /\ remote \in [Posts -> Seq(Submission)]
    /\ lock \in Ticks \cup {None}
    /\ phase \in [Cycles -> {"off", "fresh", "retry"}]
    /\ at \in [Cycles -> [Posts -> Stages]]
    /\ copy \in [Cycles -> [Posts -> Copy]]
    /\ recon \in [Posts -> Nat]
    /\ req \in [Users -> Request]
    /\ requests \in Nat
    /\ crashes \in Nat
    /\ openings \in [Posts -> Nat]
    /\ raced \subseteq Posts

-----------------------------------------------------------------------------
(* Helpers of the engine.  A definition named Slip... is the one after it with a *)
(* plausible mistake; no specification uses it, it shows a property can fail.    *)

SlipClaimable(p) == row[p].status \in {"scheduled", "publishing"}

\* The rows a cycle may claim: the status filter of the SELECT FOR UPDATE and
\* of the conditional UPDATE.
Claimable(p) == row[p].status = "scheduled"

\* _gate_failure_reason answers None.
GateOk(r) ==
    \/ r.bypass
    \/ r.gate \in Cleared /\ r.hash = r.gate

\* The rows of S for which the gate service can be unreachable.
Unreachable(S) == IF "gate" \in Faults THEN SUBSET S ELSE {{}}

\* The status filter and effective_at filter of _get_due_platform_posts.
DueRows == {p \in due : row[p].status = "scheduled"}

\* The filter of _process_retries.
RetryRows == {p \in Posts : /\ row[p].status = "scheduled"
                            /\ row[p].retry \in 1..MaxRetries
                            /\ row[p].wait = "over"}

SlipAfterFailure(r) ==
    IF r.retry > MaxRetries
    THEN [r EXCEPT !.status = "failed"]
    ELSE [r EXCEPT !.status = "scheduled", !.retry = @ + 1, !.wait = "ahead"]

SlipFailureStatus(r) == [r EXCEPT !.status = "error"]

\* _schedule_retry on the instance r: what it saves.
AfterFailure(r) ==
    IF r.retry >= MaxRetries
    THEN [r EXCEPT !.status = "failed"]
    ELSE [r EXCEPT !.status = "scheduled", !.retry = @ + 1, !.wait = "ahead"]

\* Cycle c is done with row p.
Finish(c, p) ==
    /\ at' = [at EXCEPT ![c][p] = "idle"]
    /\ copy' = [copy EXCEPT ![c][p] = NoCopy]

Quiet(c) == \A p \in Posts : at[c][p] = "idle"

InFlight(p) == \E c \in Cycles : at[c][p] \in Holding

-----------------------------------------------------------------------------
(* Publish cycles *)

\* Start of poll_and_publish.  A tick first takes the lock or gives up.
BeginCycle(c) ==
    /\ phase[c] = "off"
    /\ \/ c \in Ticks /\ lock = None /\ lock' = c
       \/ c \in Consoles /\ lock' = lock
    /\ \E batch \in SUBSET DueRows :
        /\ \/ batch = DueRows /\ Cardinality(batch) <= BatchLimit
           \/ Cardinality(batch) = BatchLimit
        /\ at' = [at EXCEPT ![c] =
                     [p \in Posts |-> IF p \in batch THEN "due" ELSE "idle"]]
    /\ phase' = [phase EXCEPT ![c] = "fresh"]
    /\ UNCHANGED <<row, text, due, remote, copy, recon, crashes, peopleVars>>

\* The transaction of _publish_post_group: relock the group's listed rows that
\* are still scheduled, block those the gate refuses, claim the others.  The
\* claim is a queryset update: the instances keep the status they were read with.
ClaimGroup(c, G) ==
    /\ phase[c] = "fresh"
    /\ LET listed == {p \in G : at[c][p] = "due"}
           locked == {p \in listed : Claimable(p)}
       IN /\ listed # {}
          /\ \E lost \in Unreachable({p \in locked : ~row[p].bypass}) :
               LET claimed == {p \in locked \ lost : GateOk(row[p])}
               IN /\ row' = [p \in Posts |->
                        IF p \in claimed THEN [row[p] EXCEPT !.status = "publishing"]
                        ELSE IF p \in locked THEN [row[p] EXCEPT !.status = "failed"]
                        ELSE row[p]]
                  /\ at' = [at EXCEPT ![c] = [p \in Posts |->
                        IF p \in claimed THEN "claimed"
                        ELSE IF p \in listed THEN "idle" ELSE @[p]]]
                  /\ copy' = [copy EXCEPT ![c] = [p \in Posts |->
                        IF p \in claimed THEN [row |-> row[p], text |-> text[p]]
                        ELSE @[p]]]
    /\ UNCHANGED <<text, due, remote, lock, phase, recon, crashes, peopleVars>>

\* The fresh groups are done: _process_retries evaluates its query.
StartRetries(c) ==
    /\ phase[c] = "fresh"
    /\ Quiet(c)
    /\ phase' = [phase EXCEPT ![c] = "retry"]
    /\ at' = [at EXCEPT ![c] =
                 [p \in Posts |-> IF p \in RetryRows THEN "queued" ELSE "idle"]]
    /\ copy' = [copy EXCEPT ![c] =
                 [p \in Posts |-> IF p \in RetryRows
                                  THEN [row |-> row[p], text |-> text[p]]
                                  ELSE NoCopy]]
    /\ UNCHANGED <<row, text, due, remote, lock, recon, crashes, peopleVars>>

\* Retries run one after the other.
RetryTurn(c, p) ==
    /\ phase[c] = "retry"
    /\ at[c][p] = "queued"
    /\ \A q \in Posts : at[c][q] \in {"idle", "queued"}

\* The conditional update of _process_retries matches: the row is claimed and
\* only the status of the listed instance is refreshed.
ClaimRetry(c, p) ==
    /\ RetryTurn(c, p)
    /\ Claimable(p)
    /\ row' = [row EXCEPT ![p].status = "publishing"]
    /\ at' = [at EXCEPT ![c][p] = "claimed"]
    /\ copy' = [copy EXCEPT ![c][p].row.status = "publishing"]
    /\ UNCHANGED <<text, due, remote, lock, phase, recon, crashes, peopleVars>>

\* The conditional update matches no row: another cycle or a person was first.
SkipRetry(c, p) ==
    /\ RetryTurn(c, p)
    /\ ~Claimable(p)
    /\ Finish(c, p)
    /\ UNCHANGED <<row, text, due, remote, lock, phase, recon, crashes, peopleVars>>

\* _dispatch_to_provider refuses an instance its intake item or the gate blocks.
Refused(c, p) ==
    /\ at[c][p] = "claimed"
    /\ \/ p \in Sensitive
       \/ /\ p \notin Held
          /\ \/ ~GateOk(copy[c][p].row)
             \/ "gate" \in Faults /\ ~copy[c][p].row.bypass

\* _block saves the row as failed, for good.
Block(c, p) ==
    /\ Refused(c, p)
    /\ row' = [row EXCEPT ![p].status = "failed"]
    /\ Finish(c, p)
    /\ UNCHANGED <<text, due, remote, lock, phase, recon, crashes, peopleVars>>

\* Writing its PublishLog raises: the generic exception branch is next.
BlockUnlogged(c, p) ==
    /\ "log" \in Faults
    /\ Refused(c, p)
    /\ row' = [row EXCEPT ![p].status = "failed"]
    /\ at' = [at EXCEPT ![c][p] = "failed"]
    /\ copy' = [copy EXCEPT ![c][p].row.status = "failed"]
    /\ UNCHANGED <<text, due, remote, lock, phase, recon, crashes, peopleVars>>

\* The principal's approval is missing.  transition_to checks the instance's
\* own status; whether it raises, or saves and returns no result, the caller
\* ends in its generic exception branch.
HoldForPrincipal(c, p) ==
    /\ at[c][p] = "claimed"
    /\ p \in Held
    /\ IF CanTransition(copy[c][p].row.status, "pending_client")
       THEN /\ row' = [row EXCEPT ![p].status = "pending_client"]
            /\ copy' = [copy EXCEPT ![c][p].row.status = "pending_client"]
       ELSE UNCHANGED <<row, copy>>
    /\ at' = [at EXCEPT ![c][p] = "failed"]
    /\ UNCHANGED <<text, due, remote, lock, phase, recon, crashes, peopleVars>>

\* The gate passed: provider.publish_post may be called with the instance.
MayCall(c, p) ==
    /\ at[c][p] = "claimed"
    /\ p \notin Held
    /\ GateOk(copy[c][p].row)

Submit(c, p, state) ==
    remote' = [remote EXCEPT ![p] = Append(@,
                 [text |-> copy[c][p].text, state |-> state,
                  gated |-> ~copy[c][p].row.bypass])]

SlipProviderPublishes(c, p) ==
    /\ MayCall(c, p)
    /\ Submit(c, p, "published")
    /\ at' \in {at, [at EXCEPT ![c][p] = "accepted"]}
    /\ copy' = [copy EXCEPT ![c][p].row.sub = Len(remote[p]) + 1]
    /\ UNCHANGED <<row, text, due, lock, phase, recon, crashes, peopleVars>>

\* The platform publishes and the answer arrives.  For Blotato it carries the
\* platform's own id, or the submission id when that cannot be read.
ProviderPublishes(c, p) ==
    /\ MayCall(c, p)
    /\ Submit(c, p, "published")
    /\ at' = [at EXCEPT ![c][p] = "accepted"]
    /\ \E id \in {0} \cup {Len(remote[q]) + 1 : q \in {p} \cap Blotato} :
         copy' = [copy EXCEPT ![c][p].row.sub = id]
    /\ UNCHANGED <<row, text, due, lock, phase, recon, crashes, peopleVars>>

\* Blotato accepts the submission but does not settle before the poll deadline.
ProviderParks(c, p) ==
    /\ MayCall(c, p)
    /\ p \in Blotato
    /\ Submit(c, p, "pending")
    /\ at' = [at EXCEPT ![c][p] = "parked"]
    /\ copy' = [copy EXCEPT ![c][p].row.sub = Len(remote[p]) + 1]
    /\ UNCHANGED <<row, text, due, lock, phase, recon, crashes, peopleVars>>

\* Nothing is published: a platform error, an over-long caption, an expired
\* token, a link whose article is not out yet, or a submission Blotato fails.
ProviderRefuses(c, p) ==
    /\ MayCall(c, p)
    /\ \/ UNCHANGED remote
       \/ p \in Blotato /\ Submit(c, p, "failed")
    /\ at' = [at EXCEPT ![c][p] = "failed"]
    /\ UNCHANGED <<row, text, due, lock, phase, copy, recon, crashes, peopleVars>>

\* The platform took the post but the call raised: a timeout on the answer, or
\* for Blotato an error while polling the accepted submission.
AnswerLost(c, p) ==
    /\ "answer" \in Faults
    /\ MayCall(c, p)
    /\ \E state \in IF p \in Blotato THEN {"pending", "published"} ELSE {"published"} :
         Submit(c, p, state)
    /\ at' = [at EXCEPT ![c][p] = "failed"]
    /\ UNCHANGED <<row, text, due, lock, phase, copy, recon, crashes, peopleVars>>

\* The whole instance is saved as published.
RecordPublished(c, p) ==
    /\ at[c][p] = "accepted"
    /\ row' = [row EXCEPT ![p] = [copy[c][p].row EXCEPT !.status = "published"]]
    /\ at' = [at EXCEPT ![c][p] = "recorded"]
    /\ UNCHANGED <<text, due, remote, lock, phase, copy, recon, crashes, peopleVars>>

\* The PublishLog is written after it.
LogPublished(c, p) ==
    /\ at[c][p] = "recorded"
    /\ Finish(c, p)
    /\ UNCHANGED <<row, text, due, remote, lock, phase, recon, crashes, peopleVars>>

\* Writing it raises, and the generic exception branch schedules a retry of
\* what was published.
LogFails(c, p) ==
    /\ "log" \in Faults
    /\ at[c][p] = "recorded"
    /\ row' = [row EXCEPT ![p] = AfterFailure(copy[c][p].row)]
    /\ Finish(c, p)
    /\ UNCHANGED <<text, due, remote, lock, phase, recon, crashes, peopleVars>>

SlipParkedRetries(c, p) ==
    /\ at[c][p] = "parked"
    /\ row' = [row EXCEPT ![p] = AfterFailure(copy[c][p].row)]
    /\ Finish(c, p)
    /\ UNCHANGED <<text, due, remote, lock, phase, recon, crashes, peopleVars>>

SlipParkedForgets(c, p) ==
    /\ at[c][p] = "parked"
    /\ row' = [row EXCEPT ![p].status = "publishing"]
    /\ Finish(c, p)
    /\ UNCHANGED <<text, due, remote, lock, phase, recon, crashes, peopleVars>>

\* BlotatoStillPublishing: only the submission id and the status are saved.
RecordParked(c, p) ==
    /\ at[c][p] = "parked"
    /\ row' = [row EXCEPT ![p].status = "publishing",
                          ![p].sub = copy[c][p].row.sub]
    /\ Finish(c, p)
    /\ UNCHANGED <<text, due, remote, lock, phase, recon, crashes, peopleVars>>

\* _schedule_retry: the whole instance is saved for a retry, or as failed.
RecordFailure(c, p) ==
    /\ at[c][p] = "failed"
    /\ row' = [row EXCEPT ![p] = AfterFailure(copy[c][p].row)]
    /\ Finish(c, p)
    /\ UNCHANGED <<text, due, remote, lock, phase, recon, crashes, peopleVars>>

\* The PublishLog of the failure, written before it, raises out of the method:
\* the row keeps the status it was claimed with.
FailureUnlogged(c, p) ==
    /\ "log" \in Faults
    /\ at[c][p] = "failed"
    /\ Finish(c, p)
    /\ UNCHANGED <<row, text, due, remote, lock, phase, recon, crashes, peopleVars>>

\* End of poll_and_publish; a tick releases the lock it owns.
EndCycle(c) ==
    /\ phase[c] = "retry"
    /\ Quiet(c)
    /\ phase' = [phase EXCEPT ![c] = "off"]
    /\ lock' = IF lock = c THEN None ELSE lock
    /\ UNCHANGED <<row, text, due, remote, at, copy, recon, crashes, peopleVars>>

\* The process of the cycle dies: a hard time limit, a deploy, an OOM kill.
Crash(c) ==
    /\ "crash" \in Faults
    /\ crashes < MaxCrashes
    /\ phase[c] # "off"
    /\ crashes' = crashes + 1
    /\ phase' = [phase EXCEPT ![c] = "off"]
    /\ at' = [at EXCEPT ![c] = [p \in Posts |-> "idle"]]
    /\ copy' = [copy EXCEPT ![c] = [p \in Posts |-> NoCopy]]
    /\ UNCHANGED <<row, text, due, remote, lock, recon, peopleVars>>

SlipLockExpires(c) == FALSE

SlipLockExpiresEarly(c) ==
    /\ lock = c
    /\ lock' = None
    /\ UNCHANGED <<row, text, due, remote, phase, at, copy, recon, crashes, peopleVars>>

\* The lock of a dead tick reaches its time to live (module RedisLock shows
\* that the lock of a running tick does not).
LockExpires(c) ==
    /\ lock = c
    /\ phase[c] = "off"
    /\ lock' = None
    /\ UNCHANGED <<row, text, due, remote, phase, at, copy, recon, crashes, peopleVars>>

CycleStep(c) ==
    \/ \E G \in Groups : ClaimGroup(c, G)
    \/ StartRetries(c)
    \/ EndCycle(c)
    \/ \E p \in Posts :
        \/ ClaimRetry(c, p)        \/ SkipRetry(c, p)
        \/ Block(c, p)             \/ BlockUnlogged(c, p)
        \/ HoldForPrincipal(c, p)
        \/ ProviderPublishes(c, p) \/ ProviderParks(c, p)
        \/ ProviderRefuses(c, p)   \/ AnswerLost(c, p)
        \/ RecordPublished(c, p)   \/ LogPublished(c, p)
        \/ LogFails(c, p)          \/ RecordParked(c, p)
        \/ RecordFailure(c, p)     \/ FailureUnlogged(c, p)

-----------------------------------------------------------------------------
(* Time, the platforms and the Blotato reconciler *)

ScheduledTimeComes(p) ==
    /\ p \notin due
    /\ due' = due \cup {p}
    /\ UNCHANGED <<row, text, remote, engineVars, recon, crashes, peopleVars>>

BackoffElapses(p) ==
    /\ row[p].wait = "ahead"
    /\ row' = [row EXCEPT ![p].wait = "over"]
    /\ UNCHANGED <<text, due, remote, engineVars, recon, crashes, peopleVars>>

SubmissionSettles(p) ==
    /\ \E i \in DOMAIN remote[p] :
         /\ remote[p][i].state = "pending"
         /\ \E outcome \in {"published", "failed"} :
              remote' = [remote EXCEPT ![p][i].state = outcome]
    /\ UNCHANGED <<row, text, due, engineVars, recon, crashes, peopleVars>>

\* reconcile_blotato_posts lists the parked rows with their submission ids.
ReconcileList(p) ==
    /\ p \in Blotato
    /\ recon[p] = 0
    /\ row[p].status = "publishing"
    /\ row[p].sub # 0
    /\ recon' = [recon EXCEPT ![p] = row[p].sub]
    /\ UNCHANGED <<row, text, due, remote, engineVars, crashes, peopleVars>>

SlipReconcileEager(p) ==
    /\ recon[p] # 0
    /\ LET state == remote[p][recon[p]].state
       IN row' = [row EXCEPT ![p].status = IF state = "failed" THEN "failed" ELSE "published"]
    /\ recon' = [recon EXCEPT ![p] = 0]
    /\ UNCHANGED <<text, due, remote, engineVars, crashes, peopleVars>>

SlipReconcileHalf(p) ==
    /\ recon[p] # 0
    /\ LET state == remote[p][recon[p]].state
       IN row' = IF state = "published" THEN [row EXCEPT ![p].status = state] ELSE row
    /\ recon' = [recon EXCEPT ![p] = 0]
    /\ UNCHANGED <<text, due, remote, engineVars, crashes, peopleVars>>

\* It asks for the submission it listed and saves the status it is told,
\* whatever the row has become, and may swap the submission id for the
\* platform's own; a pending submission is left for the next sweep.
ReconcileSave(p) ==
    /\ recon[p] # 0
    /\ LET state == remote[p][recon[p]].state
       IN \/ state = "pending" /\ UNCHANGED row
          \/ state # "pending" /\ row' = [row EXCEPT ![p].status = state]
          \/ state = "published" /\ row' = [row EXCEPT ![p].status = state, ![p].sub = 0]
    /\ recon' = [recon EXCEPT ![p] = 0]
    /\ UNCHANGED <<text, due, remote, engineVars, crashes, peopleVars>>

SlipReconcileMisses(p) ==
    /\ "answer" \in Faults
    /\ recon[p] # 0
    /\ row' = [row EXCEPT ![p].status = "failed"]
    /\ recon' = [recon EXCEPT ![p] = 0]
    /\ UNCHANGED <<text, due, remote, engineVars, crashes, peopleVars>>

\* check_status raises: the sweep goes on without the row.
ReconcileMisses(p) ==
    /\ "answer" \in Faults
    /\ recon[p] # 0
    /\ recon' = [recon EXCEPT ![p] = 0]
    /\ UNCHANGED <<row, text, due, remote, engineVars, crashes, peopleVars>>

-----------------------------------------------------------------------------
(* Requests of people *)

Opens(u, op) ==
    /\ op \in Operations
    /\ req[u] = NoRequest
    /\ requests < MaxRequests
    /\ requests' = requests + 1

Closes(u) ==
    /\ req' = [req EXCEPT ![u] = NoRequest]
    /\ UNCHANGED requests

WriteText(G, t) == text' = [p \in Posts |-> IF p \in G THEN t ELSE text[p]]

SlipClearGates(G) == UNCHANGED row

ClearGates(G) ==
    row' = [p \in Posts |-> IF p \in G /\ row[p].gate # None
                            THEN [row[p] EXCEPT !.gate = None, !.hash = None]
                            ELSE row[p]]

\* API PATCH: the editable check precedes the transaction ...
PatchOpens(u, G, t) ==
    /\ Opens(u, "patch")
    /\ DerivePostStatus({row[p].status : p \in G}) \in EditableStatuses
    /\ req' = [req EXCEPT ![u] = [NoRequest EXCEPT !.op = "patch", !.posts = G, !.text = t]]
    /\ UNCHANGED <<row, text, due, remote, engineVars, recon, crashes>>

\* ... which writes the caption and clears the gates at once.
PatchCommits(u) ==
    /\ req[u].op = "patch"
    /\ WriteText(req[u].posts, req[u].text)
    /\ ClearGates(req[u].posts)
    /\ Closes(u)
    /\ UNCHANGED <<due, remote, engineVars, recon, crashes>>

\* Autosave: the caption is saved first ...
AutosaveText(u, G, t) ==
    /\ Opens(u, "autosave")
    /\ WriteText(G, t)
    /\ req' = [req EXCEPT ![u] = [NoRequest EXCEPT !.op = "autosave", !.posts = G]]
    /\ UNCHANGED <<row, due, remote, engineVars, recon, crashes>>

\* ... and the gates are cleared by a second statement.
AutosaveClears(u) ==
    /\ req[u].op = "autosave"
    /\ ClearGates(req[u].posts)
    /\ Closes(u)
    /\ UNCHANGED <<text, due, remote, engineVars, recon, crashes>>

\* save_post: the parent is saved, for save_draft (target "draft", no status
\* change) or to schedule or publish now (target "scheduled"); then
\* _sync_platform_posts reads each row ...
ComposeText(u, G, t, target) ==
    /\ Opens(u, "compose")
    /\ WriteText(G, t)
    /\ req' = [req EXCEPT ![u] = [NoRequest EXCEPT !.op = "compose", !.posts = G,
                                                   !.left = G, !.target = target]]
    /\ UNCHANGED <<row, due, remote, engineVars, recon, crashes>>

ComposeReads(u, p) ==
    /\ req[u].op = "compose"
    /\ p \in req[u].left
    /\ LET seen == [req[u].seen EXCEPT ![p] = row[p]]
       IN req' = [req EXCEPT ![u] = [@ EXCEPT !.op = "compose_row", !.post = p,
                                              !.seen = seen]]
    /\ UNCHANGED <<row, text, due, remote, engineVars, recon, crashes, requests>>

\* ... marks it as written by a person and saves the whole instance.
ComposeSaves(u) ==
    /\ req[u].op = "compose_row"
    /\ LET p == req[u].post
           left == req[u].left \ {p}
       IN /\ row' = [row EXCEPT ![p] = [req[u].seen[p] EXCEPT !.bypass = TRUE]]
          /\ req' = [req EXCEPT ![u] =
                       IF left = {} /\ req[u].target = "draft" THEN NoRequest
                       ELSE [@ EXCEPT !.op = "compose", !.left = left, !.post = None,
                                      !.seen = NoRequest.seen]]
    /\ UNCHANGED <<text, due, remote, engineVars, recon, crashes, requests>>

\* The new time is copied to every row, and _transition_post_children lists them ...
ComposeSchedules(u) ==
    /\ req[u].op = "compose"
    /\ req[u].left = {}
    /\ due' \in {due \cup req[u].posts, due \ req[u].posts}
    /\ LET seen == [p \in Posts |-> IF p \in req[u].posts THEN row[p] ELSE BlankRow]
       IN req' = [req EXCEPT ![u] = [@ EXCEPT !.op = "move", !.left = req[u].posts,
                                              !.seen = seen]]
    /\ UNCHANGED <<row, text, remote, engineVars, recon, crashes, requests>>

\* transition_to on the listed instance, or a hop through draft, is allowed.
Schedulable(status) ==
    \/ CanTransition(status, "scheduled")
    \/ CanTransition(status, "draft") /\ CanTransition("draft", "scheduled")

\* ... and saves the status of those whose listed status allows the move.
ComposeMoves(u, p) ==
    /\ req[u].op = "move"
    /\ p \in req[u].left
    /\ LET status == req[u].seen[p].status
           left == req[u].left \ {p}
       IN /\ row' = IF status # "scheduled" /\ Schedulable(status)
                    THEN [row EXCEPT ![p].status = "scheduled"] ELSE row
          /\ req' = [req EXCEPT ![u] = IF left = {} THEN NoRequest
                                       ELSE [@ EXCEPT !.left = left]]
    /\ UNCHANGED <<text, due, remote, engineVars, recon, crashes, requests>>

\* transition_platform_post: the instance is read and its transition checked ...
TransitionReads(u, p, target) ==
    /\ Opens(u, "transition")
    /\ CanTransition(row[p].status, target)
    /\ req' = [req EXCEPT ![u] = [NoRequest EXCEPT !.op = "transition", !.post = p,
                                                   !.target = target]]
    /\ UNCHANGED <<row, text, due, remote, engineVars, recon, crashes>>

\* ... and the new status is saved, whatever the row has become.
TransitionSaves(u) ==
    /\ req[u].op = "transition"
    /\ row' = [row EXCEPT ![req[u].post].status = req[u].target]
    /\ Closes(u)
    /\ UNCHANGED <<text, due, remote, engineVars, recon, crashes>>

\* publish_content_item: the caption passes the gate ...
ConsoleGates(u, G) ==
    /\ Opens(u, "console")
    /\ \E t \in Cleared :
        /\ \A p \in G : text[p] = t
        /\ req' = [req EXCEPT ![u] = [NoRequest EXCEPT !.op = "console", !.posts = G,
                                                       !.left = G, !.text = t]]
    /\ UNCHANGED <<row, text, due, remote, engineVars, recon, crashes>>

\* ... and every row of the post, one after the other, is stamped and set to
\* scheduled, now.  The synchronous cycle that follows is a BeginCycle of a console.
ConsoleStamps(u, p) ==
    /\ req[u].op = "console"
    /\ p \in req[u].left
    /\ LET left == req[u].left \ {p}
           t == req[u].text
       IN /\ row' = [row EXCEPT ![p] = [@ EXCEPT !.gate = t, !.hash = t,
                                                 !.status = "scheduled"]]
          /\ req' = [req EXCEPT ![u] = IF left = {} THEN NoRequest
                                       ELSE [@ EXCEPT !.left = left]]
    /\ due' = due \cup {p}
    /\ UNCHANGED <<text, remote, engineVars, recon, crashes, requests>>

\* The web process of a request dies between two of its statements.
RequestDies(u) ==
    /\ "crash" \in Faults
    /\ crashes < MaxCrashes
    /\ req[u] # NoRequest
    /\ crashes' = crashes + 1
    /\ Closes(u)
    /\ UNCHANGED <<row, text, due, remote, engineVars, recon>>

RequestStep(u) ==
    \/ \E G \in Groups, t \in Texts :
        \/ PatchOpens(u, G, t)
        \/ AutosaveText(u, G, t)
        \/ \E target \in {"draft", "scheduled"} : ComposeText(u, G, t, target)
    \/ \E G \in Groups : ConsoleGates(u, G)
    \/ \E p \in Posts, target \in Statuses : TransitionReads(u, p, target)
    \/ PatchCommits(u)
    \/ AutosaveClears(u)
    \/ \E p \in Posts : ComposeReads(u, p) \/ ComposeMoves(u, p) \/ ConsoleStamps(u, p)
    \/ ComposeSaves(u)
    \/ ComposeSchedules(u)
    \/ TransitionSaves(u)
    \/ RequestDies(u)

-----------------------------------------------------------------------------
(* The specification *)

\* Rows as they are when they are scheduled: by a person in the composer, over
\* the API without a gate, or by an agent with a gate verdict on some caption.
InitialRow(t) ==
    LET scheduled == [BlankRow EXCEPT !.status = "scheduled"]
    IN {r \in {[scheduled EXCEPT !.bypass = TRUE]} : "composer" \in Origins}
       \cup {r \in {scheduled} : "api" \in Origins}
       \cup {r \in {[scheduled EXCEPT !.gate = g, !.hash = t] : g \in Texts} :
                "agent" \in Origins}

Init ==
    /\ text \in [Posts -> Texts]
    /\ \A G \in Groups : \A p, q \in G : text[p] = text[q]
    /\ row \in [Posts -> UNION {InitialRow(t) : t \in Texts}]
    /\ \A p \in Posts : row[p] \in InitialRow(text[p])
    /\ due = {}
    /\ remote = [p \in Posts |-> <<>>]
    /\ lock = None
    /\ phase = [c \in Cycles |-> "off"]
    /\ at = [c \in Cycles |-> [p \in Posts |-> "idle"]]
    /\ copy = [c \in Cycles |-> [p \in Posts |-> NoCopy]]
    /\ recon = [p \in Posts |-> 0]
    /\ req = [u \in Users |-> NoRequest]
    /\ requests = 0
    /\ crashes = 0
    /\ openings = [p \in Posts |-> 1]
    /\ raced = {}

\* The caption of p is saved but its gate is not cleared, or not bypassed, yet.
HalfEdited(p) ==
    \E u \in Users : /\ req[u].op \in {"autosave", "compose", "compose_row"}
                     /\ p \in req[u].posts

\* A gate verdict on the caption of p is held by a request.
GateInHand(p) == \E u \in Users : req[u].op = "console" /\ p \in req[u].posts

History ==
    /\ openings' = [p \in Posts |->
         IF row[p].status # "scheduled" /\ row'[p].status = "scheduled"
         THEN openings[p] + 1 ELSE openings[p]]
    /\ raced' = raced
         \cup {p \in Posts :
                /\ text'[p] # text[p]
                /\ InFlight(p) \/ GateInHand(p)}
         \cup {p \in Posts : InFlight(p)' /\ HalfEdited(p)'}
         \cup {p \in Posts : crashes' # crashes /\ HalfEdited(p)}

Next ==
    /\ \/ \E c \in Cycles : BeginCycle(c) \/ CycleStep(c) \/ Crash(c) \/ LockExpires(c)
       \/ \E p \in Posts : \/ ScheduledTimeComes(p)
                           \/ BackoffElapses(p)
                           \/ SubmissionSettles(p)
                           \/ ReconcileList(p)
                           \/ ReconcileSave(p)
                           \/ ReconcileMisses(p)
       \/ \E u \in Users : RequestStep(u)
    /\ History

Spec == Init /\ [][Next]_vars

\* What the deployment runs forever: worker threads of a live cycle, the beat
\* entries of run_publish_cycle and reconcile_blotato_posts, and Redis expiry.
\* A sweep that keeps asking is answered in the end.  Nothing is assumed of
\* people, of the platforms, or of unlocked cycles.
Fairness ==
    /\ \A c \in Cycles : WF_vars(CycleStep(c) /\ History)
    /\ WF_vars((\E c \in Ticks : BeginCycle(c)) /\ History)
    /\ \A c \in Ticks : WF_vars(LockExpires(c) /\ History)
    /\ \A p \in Posts : /\ WF_vars(ReconcileList(p) /\ History)
                        /\ SF_vars(ReconcileSave(p) /\ History)

FairSpec == Spec /\ Fairness

-----------------------------------------------------------------------------
(* Safety *)

Live(p) == {i \in DOMAIN remote[p] : remote[p][i].state = "published"}

Claims(p) == {c \in Cycles : at[c][p] = "claimed"}

Budget(p) ==
    Len(remote[p]) + Cardinality(Claims(p))
        + (IF row[p].status = "scheduled" THEN 1 ELSE 0)

\* Submissions made, submissions a cycle is entitled to make, and the one a
\* cycle may still claim never exceed the number of times the row was
\* scheduled: the claims of _publish_post_group and _process_retries consume
\* "scheduled" exactly once, whoever else writes the row.
SubmissionBudget == \A p \in Posts : Budget(p) <= openings[p]

\* A platform is called at most once for each time a row enters "scheduled",
\* whatever cycles overlap, crash or race with edits of the row.
OneSubmissionPerScheduling == \A p \in Posts : Len(remote[p]) <= openings[p]

\* Two overlapping cycles never work on one row at the same time (nobody but
\* the engine writing it).
ExclusiveClaim ==
    \A p \in Posts : Cardinality({c \in Cycles : at[c][p] \in Working}) <= 1

\* Overlap and crashes never put a post on its platform twice, as long as every
\* answer of the platform arrives.
AtMostOneLive == \A p \in Posts : Cardinality(Live(p)) <= 1

\* The status derived for a post tells the truth about its platforms:
\* "published" only when each has it, "failed" only when none has.
AggregateHonest ==
    \A G \in Groups :
        LET status == DerivePostStatus({row[p].status : p \in G})
        IN /\ status = "published" => \A p \in G : Live(p) # {}
           /\ status = "failed" => \A p \in G : Live(p) = {}

\* Without a crash no row is left in "publishing" with nobody to move it on:
\* a worker holds it, or its submission id is there for the reconciler.
NoOrphanWithoutCrash ==
    crashes = 0 =>
        \A p \in Posts : row[p].status = "publishing" =>
            \/ \E c \in Cycles : at[c][p] \in Working
            \/ p \in Blotato /\ row[p].sub # 0

\* Under the publish-cycle lock a row is attempted at most 1 + MAX_RETRIES times.
AttemptsBounded ==
    \A p \in Posts : openings[p] <= MaxRetries + 1 /\ Len(remote[p]) <= MaxRetries + 1

\* A caption the gate did not clear reaches a platform on a gate verdict only
\* when it was edited while a cycle or a request held the row: an edit outside
\* that window always sends the row back to the gate.
UnclearedOnlyByRace ==
    \A p \in Posts : \A i \in DOMAIN remote[p] :
        remote[p][i].gated /\ remote[p][i].text \notin Cleared => p \in raced

\* engine.py says of the chokepoint that it makes it impossible to publish
\* unapproved content by construction.
UnclearedNeverLive ==
    \A p \in Posts : \A i \in DOMAIN remote[p] :
        remote[p][i].gated => remote[p][i].text \in Cleared

-----------------------------------------------------------------------------
(* Action properties *)

\* models.py says of "published" that it is terminal.  Only the cycle that works on
\* the row takes that back, and only where a PublishLog can be lost: at once, or on
\* the retry that follows, which the reconciler may meanwhile have settled.  No other
\* cycle does, no crash, and not the reconciler, however old the id it listed.
UndoneOnlyUnlogged ==
    [][\A p \in Posts :
         row[p].status = "published" /\ row'[p].status # "published" =>
             /\ "log" \in Faults
             /\ \E c \in Cycles : at[c][p] \in Working /\ at'[c][p] # at[c][p]]_vars

-----------------------------------------------------------------------------
(* What the engine promises, as specifications of their own *)

Ledger == INSTANCE SubmissionLedger
            WITH allowed <- openings,
                 sent <- [p \in Posts |-> [i \in DOMAIN remote[p] |-> remote[p][i].state]]

\* Whatever cycles overlap, crash or race with edits, the submissions of a row are
\* a ledger that only grows, by one for each scheduling, and whose entries settle
\* once.
ImplementsSubmissionLedger == Ledger!Spec

Outcome == INSTANCE PostOutcome
             WITH shown <- {p \in Posts : Live(p) # {}},
                  told <- [p \in Posts |-> IF row[p].status \in {"published", "failed"}
                                           THEN row[p].status ELSE "open"]

\* No retry, hold, parked submission, overlap or crash makes the engine call a row
\* failed and show it afterwards, or call it published and take that back.
ImplementsPostOutcome == Outcome!Spec

TickSection == INSTANCE ExclusiveSection
                 WITH Tasks <- Ticks, running <- {c \in Ticks : phase[c] # "off"}

\* The ticks use the lock as an exclusive section, which is what RedisLock implements.
TicksTakeTurns == TickSection!Spec

-----------------------------------------------------------------------------
(* Liveness *)

Settled(p) == row[p].status \in {"published", "failed"}

\* In "publishing" with no worker on it.  A Blotato row with a submission id is
\* parked for the reconciler; any other was orphaned by a crash, and nothing in
\* the code moves it again.
Unattended(p) ==
    /\ row[p].status = "publishing"
    /\ \A c \in Cycles : at[c][p] \notin Working
Parked(p) == Unattended(p) /\ p \in Blotato /\ row[p].sub # 0
Orphaned(p) == Unattended(p) /\ ~Parked(p)

\* The platform has not reported an outcome of the submission on the row.
Undecided(p) == row[p].sub # 0 /\ remote[p][row[p].sub].state = "pending"

\* A due row is published, failed or back with the principal in the end, unless
\* a crash orphans it or Blotato never decides.
DueSettles ==
    \A p \in Posts :
        p \in due /\ row[p].status = "scheduled"
            ~> \/ Settled(p) \/ Orphaned(p) \/ Undecided(p)
               \/ row[p].status = "pending_client"

\* What Blotato decided on a parked row is recorded by the reconciler.
ParkedSettles ==
    \A p \in Posts : Parked(p) /\ ~Undecided(p) ~> Settled(p)
===============================================================================
