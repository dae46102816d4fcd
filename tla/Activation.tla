----------------------------- MODULE Activation -----------------------------
(***************************************************************************)
(* The paid activation of one checkout session: the web request the user   *)
(* lands on, the worker that takes over when the service fails, and the    *)
(* hourly sweep that enqueues a stranded activation again.                 *)
(*   src/apps/intelligence/views.py   activate, _activate_two_phase,       *)
(*       _queue_pending_activation, _finalize_local_subscription, recover  *)
(*   src/apps/intelligence/tasks.py   the worker, its rescheduling, the    *)
(*       sweep                                                             *)
(* The intelligence service is modelled from how these files use it.       *)
(***************************************************************************)
EXTENDS Integers, FiniteSets

CONSTANTS
    Views,        \* web processes that serve the activate page
    Workers,      \* Celery workers
    MaxAttempts,  \* WORKER_MAX_ATTEMPTS
    Faults,       \* subset of {"reject", "down", "enqueue", "broker",
                  \*            "redeliver", "crash", "cleanup"}
    MaxFaults,    \* bound: faults in one behaviour
    MaxVisits,    \* bound: visits of the activate and recover pages
    MaxQueue      \* bound: the sweep adds no message above it

Actors == Views \cup Workers

ASSUME ActivationAssumption ==
    /\ Views \cap Workers = {} /\ IsFiniteSet(Actors)
    /\ MaxAttempts \in Nat \ {0}
    /\ MaxFaults \in Nat /\ MaxVisits \in Nat /\ MaxQueue \in Nat

VARIABLES
    pend,      \* the PendingActivation row
    stale,     \* it has not been saved for _PENDING_ACTIVATION_STALE_SECONDS
    queue,     \* messages of its task in the broker
    attempt,   \* the StudioCheckoutAttempt
    admin,     \* the user is owner or admin of the organization
    sub,       \* the IntelligenceSubscription of the organization
    remote,    \* the service: whether it committed, and the key it accepts
    job,       \* what each web process and worker is doing
    visits,    \* visits so far
    faults,    \* faults so far
    overlapped \* history: two actors held the answer of a commit at a time

rowVars == <<pend, stale>>
boundVars == <<visits, faults>>
vars == <<rowVars, queue, attempt, admin, sub, remote, job, boundVars, overlapped>>

-----------------------------------------------------------------------------
(* Types *)

Open == {"pending", "in_progress"}
Statuses == {"none", "failed", "unauthorized", "completed"} \cup Open

\* "ready": before the preflight; "allowed": before the commit; "committed":
\* the service has answered the commit; "finalized": the subscription is saved;
\* "deferred": the row is pending again, its message not yet sent.
Stages == {"off", "ready", "allowed", "committed", "finalized", "deferred"}

\* "attempts" of the worker's instance; the key of the commit's answer, 0 for
\* api_key_minted = False.
Job == [at : Stages, attempts : Nat, key : Nat]
NoJob == [at |-> "off", attempts |-> 0, key |-> 0]

TypeOK ==
    /\ pend \in [status : Statuses, attempts : Nat]
    /\ stale \in BOOLEAN
    /\ queue \in Nat
    /\ attempt \in {"open", "activated", "gone"}
    /\ admin \in BOOLEAN
    /\ sub \in [status : {"none", "active"}, key : Nat]
    /\ remote \in [committed : BOOLEAN, key : Nat]
    /\ job \in [Actors -> Job]
    /\ visits \in Nat /\ faults \in Nat
    /\ overlapped \in BOOLEAN

-----------------------------------------------------------------------------
(* Helpers.  A definition named Slip... is the one after it with a plausible  *)
(* mistake; no specification uses it, it shows that a property can fail.      *)

Fault(kind) ==
    /\ kind \in Faults
    /\ faults < MaxFaults
    /\ faults' = faults + 1

At(a, stage) == job' = [job EXCEPT ![a].at = stage]
End(a) == job' = [job EXCEPT ![a] = NoJob]

SetStatus(status) ==
    /\ pend' = [pend EXCEPT !.status = status]
    /\ stale' = FALSE

\* The activation ends for good: the worker says so in the row, whatever the row
\* has become; the web request shows a page.
GiveUp(a, status) ==
    /\ IF a \in Workers THEN SetStatus(status) ELSE UNCHANGED rowVars
    /\ End(a)

\* _reschedule_or_fail on the worker's instance, _queue_pending_activation.
Defer(a) ==
    IF a \in Workers /\ job[a].attempts >= MaxAttempts
    THEN GiveUp(a, "failed")
    ELSE /\ SetStatus("pending")
         /\ At(a, "deferred")

-----------------------------------------------------------------------------
(* The intelligence service *)

\* activate_commit: one account and one key, minted by the first call.
RemoteCommit ==
    remote' = IF remote.committed THEN remote
              ELSE [committed |-> TRUE, key |-> remote.key + 1]

\* rotate_key: every call has an idempotency key of its own.
RemoteRotate == remote' = [remote EXCEPT !.key = @ + 1]

\* A call that failed may still have been carried out.
MaybeApplied(call) == call \/ UNCHANGED remote

-----------------------------------------------------------------------------
(* The start: the page is opened, or a worker takes a message *)

\* activate, up to the preflight.
Visit(v) ==
    /\ job[v].at = "off"
    /\ visits < MaxVisits /\ visits' = visits + 1
    /\ attempt # "gone" /\ admin
    /\ At(v, "ready")
    /\ UNCHANGED <<rowVars, queue, attempt, admin, sub, remote, faults, overlapped>>

\* recover: the service still holds a paid session that was not committed; the
\* attempt is opened again, or written anew.
Recover(v) ==
    /\ job[v].at = "off"
    /\ visits < MaxVisits /\ visits' = visits + 1
    /\ admin /\ ~remote.committed
    /\ attempt' = "open"
    /\ At(v, "ready")
    /\ UNCHANGED <<rowVars, queue, admin, sub, remote, faults, overlapped>>

\* The claim under select_for_update: a row in progress is taken too.
Claim(w) ==
    /\ job[w].at = "off"
    /\ queue > 0 /\ queue' = queue - 1
    /\ IF pend.status \in Open
       THEN /\ pend' = [status |-> "in_progress", attempts |-> pend.attempts + 1]
            /\ stale' = FALSE
            /\ job' = [job EXCEPT ![w] = [at |-> "ready", attempts |-> pend.attempts + 1,
                                         key |-> 0]]
       ELSE UNCHANGED <<rowVars, job>>
    /\ UNCHANGED <<attempt, admin, sub, remote, boundVars, overlapped>>

-----------------------------------------------------------------------------
(* The two phases *)

\* activate_preflight answers; then the membership is read again.
Preflight(a) ==
    /\ job[a].at = "ready"
    /\ IF a \in Workers /\ attempt = "gone" THEN GiveUp(a, "failed")
       ELSE IF ~admin THEN GiveUp(a, "unauthorized")
       ELSE At(a, "allowed") /\ UNCHANGED rowVars
    /\ UNCHANGED <<queue, attempt, admin, sub, remote, boundVars, overlapped>>

\* activate_commit answers.
Commit(a) ==
    /\ job[a].at = "allowed"
    /\ RemoteCommit
    /\ job' = [job EXCEPT ![a].at = "committed",
                          ![a].key = IF remote.committed THEN 0 ELSE remote'.key]
    /\ overlapped' = (overlapped \/ \E b \in Actors : job[b].at = "committed")
    /\ UNCHANGED <<rowVars, queue, attempt, admin, sub, boundVars>>

\* ActivationRejected; for the worker also the mismatch of the organization.
Rejected(a) ==
    /\ job[a].at \in {"ready", "allowed"}
    /\ Fault("reject")
    /\ GiveUp(a, "failed")
    /\ UNCHANGED <<queue, attempt, admin, sub, remote, visits, overlapped>>

\* ServiceUnavailable: for all that is known, the commit may have happened.
Down(a) ==
    /\ job[a].at \in {"ready", "allowed"}
    /\ Fault("down")
    /\ IF job[a].at = "allowed" THEN MaybeApplied(RemoteCommit) ELSE UNCHANGED remote
    /\ Defer(a)
    /\ UNCHANGED <<queue, attempt, admin, sub, visits, overlapped>>

-----------------------------------------------------------------------------
(* _finalize_local_subscription, one transaction that locks the subscription *)

\* No key was minted for this answer, and there is none here.
KeyLost(a) == job[a].key = 0 /\ sub.key = 0

\* The key the subscription is saved with.
KeptKey(a) ==
    IF job[a].key # 0 THEN job[a].key ELSE IF sub.key = 0 THEN remote.key + 1 ELSE sub.key

SlipFinalize(a) ==
    /\ job[a].at = "committed" /\ attempt # "gone"
    /\ UNCHANGED remote
    /\ sub' = [status |-> "active", key |-> IF job[a].key # 0 THEN job[a].key ELSE sub.key]
    /\ attempt' = "activated"
    /\ IF a \in Workers THEN At(a, "finalized") ELSE End(a)
    /\ UNCHANGED <<rowVars, queue, admin, boundVars, overlapped>>

Finalize(a) ==
    /\ job[a].at = "committed" /\ attempt # "gone"
    /\ IF KeyLost(a) THEN RemoteRotate ELSE UNCHANGED remote
    /\ sub' = [status |-> "active", key |-> KeptKey(a)]
    /\ attempt' = "activated"
    /\ IF a \in Workers THEN At(a, "finalized") ELSE End(a)
    /\ UNCHANGED <<rowVars, queue, admin, boundVars, overlapped>>

\* rotate_key raises, carried out or not, and the transaction is rolled back.
RotateFails(a) ==
    /\ job[a].at = "committed" /\ attempt # "gone" /\ KeyLost(a)
    /\ Fault("down")
    /\ MaybeApplied(RemoteRotate)
    /\ Defer(a)
    /\ UNCHANGED <<queue, attempt, admin, sub, visits, overlapped>>

\* The attempt cannot be saved: rolled back too, after the rotation.
FinalizeFails(a) ==
    /\ job[a].at = "committed" /\ attempt = "gone"
    /\ IF KeyLost(a) THEN RemoteRotate ELSE UNCHANGED remote
    /\ IF a \in Workers THEN Defer(a) ELSE End(a) /\ UNCHANGED rowVars
    /\ UNCHANGED <<queue, attempt, admin, sub, boundVars, overlapped>>

\* The worker's last save.
Complete(w) ==
    /\ job[w].at = "finalized"
    /\ GiveUp(w, "completed")
    /\ UNCHANGED <<queue, attempt, admin, sub, remote, boundVars, overlapped>>

-----------------------------------------------------------------------------
(* Messages: sent, lost, delivered twice; the sweep *)

Enqueue(a) ==
    /\ job[a].at = "deferred"
    /\ queue' = queue + 1
    /\ End(a)
    /\ UNCHANGED <<rowVars, attempt, admin, sub, remote, boundVars, overlapped>>

\* delay or apply_async raises.
EnqueueFails(a) ==
    /\ job[a].at = "deferred"
    /\ Fault("enqueue")
    /\ End(a)
    /\ UNCHANGED <<rowVars, queue, attempt, admin, sub, remote, visits, overlapped>>

\* Redis restarts, or evicts the queue.
BrokerLoses ==
    /\ queue > 0 /\ queue' = 0
    /\ Fault("broker")
    /\ UNCHANGED <<rowVars, attempt, admin, sub, remote, job, visits, overlapped>>

\* A message held back for its countdown outlives the visibility timeout.
Redeliver ==
    /\ queue > 0 /\ queue' = queue + 1
    /\ Fault("redeliver")
    /\ UNCHANGED <<rowVars, attempt, admin, sub, remote, job, visits, overlapped>>

\* Two hours without a save: far longer than a worker may run.
GoStale ==
    /\ pend.status \in Open /\ ~stale
    /\ \A w \in Workers : job[w].at = "off"
    /\ stale' = TRUE
    /\ UNCHANGED <<pend, queue, attempt, admin, sub, remote, job, boundVars, overlapped>>

SlipSweep ==
    /\ pend.status = "pending" /\ stale
    /\ queue < MaxQueue /\ queue' = queue + 1
    /\ UNCHANGED <<rowVars, attempt, admin, sub, remote, job, boundVars, overlapped>>

\* sweep_stale_pending_activations.
Sweep ==
    /\ pend.status \in Open /\ stale
    /\ queue < MaxQueue /\ queue' = queue + 1
    /\ UNCHANGED <<rowVars, attempt, admin, sub, remote, job, boundVars, overlapped>>

-----------------------------------------------------------------------------
(* Crashes, operators, members *)

\* A killed worker's message returns to the queue (acks_late); a rotation may
\* have been carried out before its transaction was lost.
Crash(a) ==
    /\ job[a].at # "off"
    /\ Fault("crash")
    /\ queue' = IF a \in Workers THEN queue + 1 ELSE queue
    /\ IF job[a].at = "committed" /\ KeyLost(a)
       THEN MaybeApplied(RemoteRotate) ELSE UNCHANGED remote
    /\ End(a)
    /\ UNCHANGED <<rowVars, attempt, admin, sub, visits, overlapped>>

\* An operator deletes the attempt.
CleanUp ==
    /\ attempt # "gone"
    /\ Fault("cleanup")
    /\ attempt' = "gone"
    /\ UNCHANGED <<rowVars, queue, admin, sub, remote, job, visits, overlapped>>

\* The user is demoted, or promoted again.
ChangeRole ==
    /\ admin' = ~admin
    /\ UNCHANGED <<rowVars, queue, attempt, sub, remote, job, boundVars, overlapped>>

-----------------------------------------------------------------------------

Proceed(a) ==
    \/ Preflight(a) \/ Commit(a)
    \/ Finalize(a) \/ FinalizeFails(a)
    \/ Enqueue(a)

WorkerStep(w) == Claim(w) \/ Proceed(w) \/ Complete(w)

Failure(a) ==
    Rejected(a) \/ Down(a) \/ RotateFails(a) \/ EnqueueFails(a) \/ Crash(a)

Next ==
    \/ \E v \in Views : Visit(v) \/ Recover(v) \/ Proceed(v)
    \/ \E w \in Workers : WorkerStep(w)
    \/ \E a \in Actors : Failure(a)
    \/ BrokerLoses \/ Redeliver
    \/ GoStale \/ Sweep
    \/ CleanUp \/ ChangeRole

Init ==
    /\ pend = [status |-> "none", attempts |-> 0] /\ stale = FALSE
    /\ queue = 0
    /\ attempt = "open" /\ admin = TRUE
    /\ sub = [status |-> "none", key |-> 0]
    /\ remote = [committed |-> FALSE, key |-> 0]
    /\ job = [a \in Actors |-> NoJob]
    /\ visits = 0 /\ faults = 0
    /\ overlapped = FALSE

\* Web processes and workers go on, time passes, and beat runs the sweep.
Fairness ==
    /\ \A v \in Views : WF_vars(Proceed(v))
    /\ \A w \in Workers : WF_vars(WorkerStep(w))
    /\ WF_vars(GoStale) /\ WF_vars(Sweep)

Spec == Init /\ [][Next]_vars /\ Fairness

-----------------------------------------------------------------------------
(* Properties *)

\* A completed activation left an active subscription, an active subscription
\* has a key, and the service accepts that key, unless two activations held the
\* commit's answer at a time: then the one that minted the key may save it after
\* the other has had it replaced.
ActiveKeyLive ==
    /\ pend.status = "completed" => sub.status = "active"
    /\ sub.status = "active" => sub.key # 0 /\ (sub.key = remote.key \/ overlapped)

\* Whatever is lost, raised or killed, a paid activation does not stay pending:
\* the sweep finds it and a worker settles it.
PaidActivationSettles == pend.status \in Open ~> pend.status \notin Open
=============================================================================
