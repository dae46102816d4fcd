------------------------------- MODULE RedisLock -------------------------------
(***************************************************************************)
(* redis_lock, and the task invocations that use it under Celery's time    *)
(* limits.  The lock is a key with a time to live; the value is a token of *)
(* the invocation that set it, so an invocation stands for its own token.  *)
(*   src/jobs/locks.py, src/apps/publisher/tasks.py,                       *)
(*   src/config/settings/base.py (CELERY_TASK_TIME_LIMIT)                  *)
(***************************************************************************)
EXTENDS Naturals

CONSTANTS
    Tasks,      \* invocations of run_publish_cycle, over all time
    Bounded,    \* those whose worker enforces the hard time limit
    TTL,        \* ttl of redis_lock
    HardLimit,  \* CELERY_TASK_TIME_LIMIT
    Unset

ASSUME LockAssumption ==
    /\ Bounded \subseteq Tasks
    /\ Unset \notin Tasks
    /\ TTL \in Nat \ {0}
    /\ HardLimit \in Nat
    /\ HardLimit <= TTL

VARIABLES
    key,      \* the value of lock:<name>, or Unset
    ttl,      \* what is left of its time to live
    pc,       \* where each invocation stands
    elapsed   \* how long it has run, counted up to HardLimit

lockVars == <<key, ttl, pc, elapsed>>

LockTypeOK ==
    /\ key \in Tasks \cup {Unset}
    /\ ttl \in 0..TTL
    /\ pc \in [Tasks -> {"new", "running", "section", "releasing", "done"}]
    /\ elapsed \in [Tasks -> 0..HardLimit]

Alive(t) == pc[t] \in {"running", "section", "releasing"}

LockInit ==
    /\ key = Unset
    /\ ttl = 0
    /\ pc = [t \in Tasks |-> "new"]
    /\ elapsed = [t \in Tasks |-> 0]

\* A worker accepts the task: its limits count from here.
Start(t) ==
    /\ pc[t] = "new"
    /\ pc' = [pc EXCEPT ![t] = "running"]
    /\ UNCHANGED <<key, ttl, elapsed>>

\* A definition named Slip... is the one after it with a plausible mistake; no
\* specification uses it, it shows that a property can fail.
\* SET NX EX finds no key.  Some time has passed since the task started.
SetKey(t) ==
    /\ pc[t] = "running"
    /\ elapsed[t] > 0
    /\ key = Unset
    /\ key' = t
    /\ ttl' = TTL
    /\ UNCHANGED elapsed

Acquire(t) == SetKey(t) /\ pc' = [pc EXCEPT ![t] = "section"]

\* The key was set but the answer is lost: the call raises.
AcquireLost(t) == SetKey(t) /\ pc' = [pc EXCEPT ![t] = "done"]

\* LockNotAcquired, or an error before the key is set.
NotAcquired(t) ==
    /\ pc[t] = "running"
    /\ pc' = [pc EXCEPT ![t] = "done"]
    /\ UNCHANGED <<key, ttl, elapsed>>

\* The block ends, normally or by an exception.
LeaveBlock(t) ==
    /\ pc[t] = "section"
    /\ pc' = [pc EXCEPT ![t] = "releasing"]
    /\ UNCHANGED <<key, ttl, elapsed>>

SlipRelease(t) ==
    /\ pc[t] = "releasing"
    /\ key' = Unset
    /\ ttl' = 0
    /\ pc' = [pc EXCEPT ![t] = "done"]
    /\ UNCHANGED elapsed

\* The release script: delete the key if it still holds the caller's token.
Release(t) ==
    /\ pc[t] = "releasing"
    /\ IF key = t THEN key' = Unset /\ ttl' = 0
                  ELSE UNCHANGED <<key, ttl>>
    /\ pc' = [pc EXCEPT ![t] = "done"]
    /\ UNCHANGED elapsed

\* The script does not reach Redis.
ReleaseLost(t) ==
    /\ pc[t] = "releasing"
    /\ pc' = [pc EXCEPT ![t] = "done"]
    /\ UNCHANGED <<key, ttl, elapsed>>

\* The hard limit, a deploy or the OOM killer ends the process.
Kill(t) ==
    /\ Alive(t)
    /\ pc' = [pc EXCEPT ![t] = "done"]
    /\ UNCHANGED <<key, ttl, elapsed>>

SlipExpire == FALSE

\* Redis drops the key when its time to live is over.
Expire ==
    /\ key # Unset
    /\ ttl = 0
    /\ key' = Unset
    /\ UNCHANGED <<ttl, pc, elapsed>>

\* One unit of time.  It does not pass while an expired key is still to be
\* dropped or a task at its hard limit still to be killed.
Tick ==
    /\ key # Unset => ttl > 0
    /\ \A t \in Bounded : Alive(t) => elapsed[t] < HardLimit
    /\ ttl' = IF ttl > 0 THEN ttl - 1 ELSE 0
    /\ elapsed' = [t \in Tasks |->
         IF Alive(t) /\ elapsed[t] < HardLimit THEN elapsed[t] + 1 ELSE elapsed[t]]
    /\ UNCHANGED <<key, pc>>

TaskStep(t) ==
    \/ Start(t) \/ Acquire(t) \/ AcquireLost(t) \/ NotAcquired(t)
    \/ LeaveBlock(t) \/ Release(t) \/ ReleaseLost(t) \/ Kill(t)

LockNext == (\E t \in Tasks : TaskStep(t)) \/ Expire \/ Tick

LockSpec == LockInit /\ [][LockNext]_lockVars

\* Time passes: expired keys are dropped and overdue tasks are killed.
LockFairness ==
    /\ WF_lockVars(Tick)
    /\ WF_lockVars(Expire)
    /\ \A t \in Bounded : WF_lockVars(elapsed[t] = HardLimit /\ Kill(t))

LockFairSpec == LockSpec /\ LockFairness

-----------------------------------------------------------------------------
(* Properties *)

\* A bounded task between SET and release still owns the key, and its key
\* outlives it.
HolderOwnsKey ==
    \A t \in Bounded :
        pc[t] \in {"section", "releasing"} => key = t /\ ttl + elapsed[t] > TTL

\* Two invocations under the hard limit are never in the block together, however
\* long other holders overstay and whatever answers are lost.
MutualExclusion ==
    \A s, t \in Bounded : pc[s] = "section" /\ pc[t] = "section" => s = t

Section == INSTANCE ExclusiveSection
             WITH Tasks <- Bounded, running <- {t \in Bounded : pc[t] = "section"}

\* The lock implements its promise for the invocations under the hard limit.
ImplementsExclusiveSection == Section!Spec

\* Nobody keeps the lock for good: killed holders, lost answers and lost release
\* scripts only delay the next cycle.
LockComesFree == \A t \in Tasks : key = t ~> key # t
===============================================================================
