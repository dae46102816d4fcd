----------------------------- MODULE ApiRequests -----------------------------
(***************************************************************************)
(* POST /posts of the agent API: the idempotency slot, the platform quota, *)
(* the creation of the post, its gate stamp, and the ways a request can    *)
(* end; the schedule and cancel routes; the hourly sweep of the slots.     *)
(*   src/apps/api/middleware.py       claim, finalize, release             *)
(*   src/apps/api/routers/posts.py    create, schedule, cancel             *)
(*   src/apps/api/limits.py           check_platform_quota                 *)
(*   src/apps/api/tasks.py            sweep_stale_idempotency_records      *)
(* All posts go to one social account; of the publishing engine only that  *)
(* it takes a due row is kept (PublishEngine has the rest).                *)
(***************************************************************************)
EXTENDS Integers, FiniteSets

CONSTANTS
    Requests,    \* web workers, each serving one call at a time
    Keys,        \* idempotency keys of one API key
    NoKey,       \* a call without idempotency key
    Bodies,      \* request bodies
    Scheduling,  \* the bodies with action "schedule": they carry a gate_id
    Limit,       \* resolve_platform_limit of the account
    Faults,      \* subset of {"crash", "error"}
    MaxFaults,   \* bound: faults in one behaviour
    MaxCalls,    \* bound: calls of POST /posts in one behaviour
    MaxMoves,    \* bound: calls of the schedule and cancel routes
    None

VARIABLES
    rec,      \* IdempotencyRecord of each key, or None
    row,      \* the PlatformPost rows of the API
    call,     \* what each web worker is doing
    calls,    \* calls of POST /posts so far
    moves,    \* calls of the schedule and cancel routes so far
    faults,   \* faults so far
    made,     \* history: posts created under each key
    spent,    \* history: how often a key was freed although its post existed
    replay    \* history: the last answer replayed to an agent

vars == <<rec, row, call, calls, moves, faults, made, spent, replay>>

-----------------------------------------------------------------------------
(* Types *)

Posts == 1..MaxCalls

\* "old": created_at is more than 24 hours back.
Record == [body : Bodies, status : {"pending", "done"}, post : Posts \cup {None},
           old : BOOLEAN]

ASSUME ApiAssumption ==
    /\ Requests # {} /\ IsFiniteSet(Requests)
    /\ NoKey \notin Keys /\ Scheduling \subseteq Bodies
    /\ Limit \in Nat /\ MaxFaults \in Nat /\ MaxCalls \in Nat /\ MaxMoves \in Nat
    /\ None \notin Keys \cup {NoKey} \cup Bodies \cup Posts \cup Record

\* "recent": updated_at is within 24 hours; "admitted": so is the moment the API
\* let the row in.  Both are kept for the rows that count, not for drafts.
\* "taken": publishing, published or failed.
Row == [status : {"none", "draft", "scheduled", "taken"},
        recent : BOOLEAN, admitted : BOOLEAN,
        key : Keys \cup {NoKey}, body : Bodies \cup {None}]
NoRow == [status |-> "none", recent |-> FALSE, admitted |-> FALSE,
          key |-> NoKey, body |-> None]

\* "lost": the INSERT raised IntegrityError; "claimed": the slot is taken, or
\* none is needed; "checked": the quota check has passed; "created": the post is
\* committed; "stamped": its gate is too; "schedule", "cancel": those routes
\* between their reads and their writes.
Stages == {"off", "lost", "claimed", "checked", "created", "stamped", "schedule", "cancel"}
Working == {"claimed", "checked", "created", "stamped"}
Call == [at : Stages, key : Keys \cup {NoKey}, body : Bodies \cup {None},
         post : Posts \cup {None}]
NoCall == [at |-> "off", key |-> NoKey, body |-> None, post |-> None]

TypeOK ==
    /\ rec \in [Keys -> Record \cup {None}]
    /\ row \in [Posts -> Row]
    /\ call \in [Requests -> Call]
    /\ calls \in Nat /\ moves \in Nat /\ faults \in Nat
    /\ made \in [Keys -> Nat] /\ spent \in [Keys -> Nat]
    /\ replay \in [key : Keys, body : Bodies, post : Posts \cup {None}] \cup {None}

-----------------------------------------------------------------------------
(* Helpers.  A definition named Slip... is the one after it with a plausible  *)
(* mistake; no specification uses it, it shows that a property can fail.      *)

Workers(k) == {r \in Requests : call[r].at \in Working /\ call[r].key = k}

\* QUOTA_CONSUMING_STATUSES.
Consuming == {"scheduled", "taken"}

SlipUsed == Cardinality({p \in Posts : row[p].status = "scheduled" /\ row[p].recent})

\* count_recent_creations.
Used == Cardinality({p \in Posts : row[p].status \in Consuming /\ row[p].recent})

WithinQuota == Used < Limit

Fault(kind) ==
    /\ kind \in Faults
    /\ faults < MaxFaults
    /\ faults' = faults + 1

Done(r) == call' = [call EXCEPT ![r] = NoCall]

\* release_idempotent_claim: delete the row of the key if it is pending.
Release(k) ==
    rec' = IF k \in Keys /\ rec[k] # None /\ rec[k].status = "pending"
           THEN [rec EXCEPT ![k] = None] ELSE rec

\* The slot of k is freed although a post was created in it.
Spend(k) ==
    spent' = IF k \in Keys /\ spent[k] < made[k] THEN [spent EXCEPT ![k] = @ + 1] ELSE spent

-----------------------------------------------------------------------------
(* POST /posts *)

\* A look-up that only finds finished records, before the slot is taken.
SlipClaim(r, k, b) ==
    /\ call[r].at = "off"
    /\ calls < MaxCalls /\ calls' = calls + 1
    /\ IF k \in Keys /\ rec[k] # None /\ rec[k].status = "done"
       THEN /\ call' = [call EXCEPT ![r] = [NoCall EXCEPT !.at = "lost", !.key = k, !.body = b]]
            /\ UNCHANGED rec
       ELSE /\ call' = [call EXCEPT ![r] = [NoCall EXCEPT !.at = "claimed", !.key = k, !.body = b]]
            /\ rec' = IF k \in Keys
                      THEN [rec EXCEPT ![k] = [body |-> b, status |-> "pending",
                                               post |-> None, old |-> FALSE]]
                      ELSE rec
    /\ UNCHANGED <<row, moves, faults, made, spent, replay>>

\* claim_idempotency_slot: the INSERT takes the slot or raises IntegrityError.
Claim(r, k, b) ==
    /\ call[r].at = "off"
    /\ calls < MaxCalls /\ calls' = calls + 1
    /\ IF k \in Keys /\ rec[k] # None
       THEN /\ call' = [call EXCEPT ![r] = [NoCall EXCEPT !.at = "lost", !.key = k, !.body = b]]
            /\ UNCHANGED rec
       ELSE /\ call' = [call EXCEPT ![r] = [NoCall EXCEPT !.at = "claimed", !.key = k, !.body = b]]
            /\ rec' = IF k \in Keys
                      THEN [rec EXCEPT ![k] = [body |-> b, status |-> "pending",
                                               post |-> None, old |-> FALSE]]
                      ELSE rec
    /\ UNCHANGED <<row, moves, faults, made, spent, replay>>

SlipRefetch(r) ==
    LET k == call[r].key
    IN /\ call[r].at = "lost"
       /\ replay' = IF rec[k] # None /\ rec[k].status = "done"
                    THEN [key |-> k, body |-> call[r].body, post |-> rec[k].post]
                    ELSE replay
       /\ Done(r)
       /\ UNCHANGED <<rec, row, calls, moves, faults, made, spent>>

\* The existing row is read in a statement of its own.  If it is gone by then
\* the call ends in DoesNotExist; another body is a 422, a pending slot a 409,
\* and a finished one is replayed.
Refetch(r) ==
    LET k == call[r].key
    IN /\ call[r].at = "lost"
       /\ replay' = IF /\ rec[k] # None /\ rec[k].status = "done"
                       /\ rec[k].body = call[r].body
                    THEN [key |-> k, body |-> call[r].body, post |-> rec[k].post]
                    ELSE replay
       /\ Done(r)
       /\ UNCHANGED <<rec, row, calls, moves, faults, made, spent>>

\* check_platform_quota for a body that schedules; a 429 releases the slot.
CheckQuota(r) ==
    /\ call[r].at = "claimed"
    /\ IF call[r].body \in Scheduling => WithinQuota
       THEN call' = [call EXCEPT ![r].at = "checked"] /\ UNCHANGED rec
       ELSE Release(call[r].key) /\ Done(r)
    /\ UNCHANGED <<row, calls, moves, faults, made, spent, replay>>

\* create_post commits the rows, in its own transaction and not yet gated.
CreatePost(r) ==
    /\ call[r].at = "checked"
    /\ \E p \in Posts :
        /\ row[p].status = "none" /\ \A q \in Posts : row[q].status = "none" => p <= q
        /\ LET scheduled == call[r].body \in Scheduling
           IN row' = [row EXCEPT ![p] =
                  [status |-> IF scheduled THEN "scheduled" ELSE "draft",
                   recent |-> scheduled, admitted |-> scheduled,
                   key |-> call[r].key, body |-> call[r].body]]
        /\ call' = [call EXCEPT ![r].at = "created", ![r].post = p]
    /\ made' = IF call[r].key \in Keys THEN [made EXCEPT ![call[r].key] = @ + 1] ELSE made
    /\ UNCHANGED <<rec, calls, moves, faults, spent, replay>>

\* gate_id and content_hash are saved on the row, whatever its status by now:
\* updated_at moves.
StampGate(r) ==
    /\ call[r].at = "created"
    /\ IF call[r].body \in Scheduling
       THEN row' = [row EXCEPT ![call[r].post].recent =
                       row[call[r].post].status \in Consuming]
       ELSE UNCHANGED row
    /\ call' = [call EXCEPT ![r].at = "stamped"]
    /\ UNCHANGED <<rec, calls, moves, faults, made, spent, replay>>

\* finalize_idempotent_response, and the answer 201.
Finalize(r) ==
    LET k == call[r].key
    IN /\ call[r].at = "stamped"
       /\ rec' = IF k \in Keys /\ rec[k] # None
                 THEN [rec EXCEPT ![k].status = "done", ![k].post = call[r].post]
                 ELSE rec
       /\ Done(r)
       /\ UNCHANGED <<row, calls, moves, faults, made, spent, replay>>

\* An exception after the claim: from create_post, which rolls back, or later.
\* The handler releases the slot.
Fails(r) ==
    /\ call[r].at \in {"checked", "created", "stamped"}
    /\ Fault("error")
    /\ Release(call[r].key)
    /\ Spend(call[r].key)
    /\ Done(r)
    /\ UNCHANGED <<row, calls, moves, made, replay>>

\* The web process dies: nobody releases the slot.
Crash(r) ==
    /\ call[r].at # "off"
    /\ Fault("crash")
    /\ Done(r)
    /\ UNCHANGED <<rec, row, calls, moves, made, spent, replay>>

-----------------------------------------------------------------------------
(* The schedule and cancel routes, and the engine *)

\* The route lists the draft and checks the quota.
ScheduleCheck(r, p) ==
    /\ call[r].at = "off"
    /\ moves < MaxMoves /\ moves' = moves + 1
    /\ row[p].status = "draft" /\ WithinQuota
    /\ call' = [call EXCEPT ![r] = [NoCall EXCEPT !.at = "schedule", !.post = p]]
    /\ UNCHANGED <<rec, row, calls, faults, made, spent, replay>>

\* The listed instance says draft: its transition passes, and it is saved.
ScheduleSave(r) ==
    LET p == call[r].post
    IN /\ call[r].at = "schedule"
       /\ row' = [row EXCEPT ![p] = [@ EXCEPT !.status = "scheduled",
                                              !.recent = TRUE, !.admitted = TRUE]]
       /\ Done(r)
       /\ UNCHANGED <<rec, calls, moves, faults, made, spent, replay>>

CancelList(r, p) ==
    /\ call[r].at = "off"
    /\ moves < MaxMoves /\ moves' = moves + 1
    /\ row[p].status = "scheduled"
    /\ call' = [call EXCEPT ![r] = [NoCall EXCEPT !.at = "cancel", !.post = p]]
    /\ UNCHANGED <<rec, row, calls, faults, made, spent, replay>>

\* The listed instance says scheduled: it is saved as a draft without a time.
CancelSave(r) ==
    LET p == call[r].post
    IN /\ call[r].at = "cancel"
       /\ row' = [row EXCEPT ![p] = [@ EXCEPT !.status = "draft",
                                              !.recent = FALSE, !.admitted = FALSE]]
       /\ Done(r)
       /\ UNCHANGED <<rec, calls, moves, faults, made, spent, replay>>

\* A publish cycle takes the row, whose time has come.
EngineTakes(p) ==
    /\ row[p].status = "scheduled"
    /\ row' = [row EXCEPT ![p].status = "taken", ![p].recent = TRUE]
    /\ UNCHANGED <<rec, call, calls, moves, faults, made, spent, replay>>

-----------------------------------------------------------------------------
(* The day passes *)

\* 24 hours since the API let the row in, and since its last save.
AdmissionAges(p) ==
    /\ row[p].admitted
    /\ row' = [row EXCEPT ![p].admitted = FALSE]
    /\ UNCHANGED <<rec, call, calls, moves, faults, made, spent, replay>>

UpdateAges(p) ==
    /\ row[p].recent /\ ~row[p].admitted
    /\ row' = [row EXCEPT ![p].recent = FALSE]
    /\ UNCHANGED <<rec, call, calls, moves, faults, made, spent, replay>>

\* A request ends, or its process dies, long before 24 hours.
RecordAges(k) ==
    /\ rec[k] # None /\ ~rec[k].old
    /\ Workers(k) = {}
    /\ rec' = [rec EXCEPT ![k].old = TRUE]
    /\ UNCHANGED <<row, call, calls, moves, faults, made, spent, replay>>

SlipSweep(k) ==
    /\ rec[k] # None /\ rec[k].old /\ rec[k].status = "done"
    /\ rec' = [rec EXCEPT ![k] = None]
    /\ Spend(k)
    /\ UNCHANGED <<row, call, calls, moves, faults, made, replay>>

\* sweep_stale_idempotency_records, pending or not.
Sweep(k) ==
    /\ rec[k] # None /\ rec[k].old
    /\ rec' = [rec EXCEPT ![k] = None]
    /\ Spend(k)
    /\ UNCHANGED <<row, call, calls, moves, faults, made, replay>>

-----------------------------------------------------------------------------

CreateStep(r) ==
    Refetch(r) \/ CheckQuota(r) \/ CreatePost(r) \/ StampGate(r) \/ Finalize(r)

Next ==
    \/ \E r \in Requests :
        \/ \E k \in Keys \cup {NoKey}, b \in Bodies : Claim(r, k, b)
        \/ CreateStep(r) \/ Fails(r) \/ Crash(r)
        \/ \E p \in Posts : ScheduleCheck(r, p) \/ CancelList(r, p)
        \/ ScheduleSave(r) \/ CancelSave(r)
    \/ \E p \in Posts :
        EngineTakes(p) \/ AdmissionAges(p) \/ UpdateAges(p)
    \/ \E k \in Keys : RecordAges(k) \/ Sweep(k)

Init ==
    /\ rec = [k \in Keys |-> None]
    /\ row = [p \in Posts |-> NoRow]
    /\ call = [r \in Requests |-> NoCall]
    /\ calls = 0 /\ moves = 0 /\ faults = 0
    /\ made = [k \in Keys |-> 0] /\ spent = [k \in Keys |-> 0]
    /\ replay = None

\* A request that runs goes on or dies; records grow old and the sweep runs.
Fairness ==
    /\ \A r \in Requests : WF_vars(CreateStep(r))
    /\ \A k \in Keys : WF_vars(RecordAges(k)) /\ WF_vars(Sweep(k))

Spec == Init /\ [][Next]_vars /\ Fairness

-----------------------------------------------------------------------------
(* Properties *)

\* Under one key one post is created, and another only after the slot was freed
\* although the post existed: by an exception after create_post, or by the sweep.
OnePostPerKey == \A k \in Keys : made[k] <= 1 + spent[k]

\* A replayed answer names a post that was created under this key for this body.
ReplayHonest ==
    replay # None =>
        /\ replay.post \in Posts
        /\ row[replay.post].key = replay.key /\ row[replay.post].body = replay.body

\* The rows the API let in during 24 hours exceed the platform's quota by at most
\* the requests that counted together: the check takes no lock.
QuotaOvershoot ==
    Cardinality({p \in Posts : row[p].admitted /\ row[p].status \in Consuming})
        <= Limit + Cardinality(Requests) - 1

Slot == INSTANCE IdempotencySlot
          WITH workers <- [k \in Keys |-> Workers(k)],
               outcome <- [k \in Keys |-> IF rec[k] = None THEN None ELSE rec[k].post]

\* The idempotency table implements its promise.
ImplementsIdempotencySlot == Slot!Spec

\* A slot whose owner died does not stay pending: agents that retry the key are
\* not answered 409 for ever.
SlotComesFree ==
    \A k \in Keys : (rec[k] # None /\ rec[k].status = "pending")
                        ~> (rec[k] = None \/ rec[k].status = "done")
=============================================================================
