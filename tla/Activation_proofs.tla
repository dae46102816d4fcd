-------------------------- MODULE Activation_proofs --------------------------
(***************************************************************************)
(* For any number of web processes and workers, and any bounds: the types, *)
(* and that an active subscription holds the key the service accepts.      *)
(***************************************************************************)
EXTENDS Activation, TLAPS

RowTyped == pend \in [status : Statuses, attempts : Nat] /\ stale \in BOOLEAN
JobTyped == job \in [Actors -> Job]
RemoteTyped == remote \in [committed : BOOLEAN, key : Nat]
RestTyped ==
    /\ queue \in Nat
    /\ attempt \in {"open", "activated", "gone"}
    /\ admin \in BOOLEAN
    /\ sub \in [status : {"none", "active"}, key : Nat]
    /\ visits \in Nat /\ faults \in Nat
    /\ overlapped \in BOOLEAN

\* What the helpers of the actions do to the types.
LEMMA RowSaved ==
    ASSUME RowTyped, NEW status \in Statuses, SetStatus(status) PROVE RowTyped'
  BY DEF RowTyped, SetStatus

LEMMA JobMoved ==
    ASSUME JobTyped, NEW a \in Actors, NEW stage \in Stages, At(a, stage) \/ End(a)
    PROVE  JobTyped'
  BY DEF JobTyped, Job, NoJob, Stages, At, End

LEMMA Deferred ==
    ASSUME RowTyped, JobTyped, NEW a \in Actors, NEW status \in Statuses,
           GiveUp(a, status) \/ Defer(a)
    PROVE  RowTyped' /\ JobTyped'
<1>1. "failed" \in Statuses /\ "pending" \in Statuses /\ "deferred" \in Stages
  BY DEF Statuses, Open, Stages
<1>2. ASSUME NEW s \in Statuses, GiveUp(a, s) PROVE RowTyped' /\ JobTyped'
  <2>1. RowTyped'
    <3>1. CASE a \in Workers
      BY <1>2, <3>1, RowSaved DEF GiveUp
    <3>2. CASE a \notin Workers
      BY <1>2, <3>2 DEF GiveUp, RowTyped, rowVars
    <3> QED BY <3>1, <3>2
  <2>2. JobTyped'
    BY <1>1, <1>2, JobMoved DEF GiveUp
  <2> QED BY <2>1, <2>2
<1>3. ASSUME SetStatus("pending"), At(a, "deferred") PROVE RowTyped' /\ JobTyped'
  BY <1>1, <1>3, RowSaved, JobMoved
<1> QED BY <1>1, <1>2, <1>3 DEF Defer

LEMMA RemoteAnswers ==
    ASSUME RemoteTyped,
           \/ RemoteCommit \/ RemoteRotate \/ UNCHANGED remote
           \/ MaybeApplied(RemoteCommit) \/ MaybeApplied(RemoteRotate)
    PROVE  RemoteTyped'
<1>1. CASE RemoteCommit
  <2>1. CASE remote.committed
    BY <1>1, <2>1 DEF RemoteTyped, RemoteCommit
  <2>2. CASE ~remote.committed
    <3>1. remote' = [committed |-> TRUE, key |-> remote.key + 1] /\ remote.key \in Nat
      BY <1>1, <2>2 DEF RemoteTyped, RemoteCommit
    <3> QED BY <3>1 DEF RemoteTyped
  <2> QED BY <2>1, <2>2
<1>2. CASE RemoteRotate
  BY <1>2 DEF RemoteTyped, RemoteRotate
<1>3. CASE UNCHANGED remote
  BY <1>3 DEF RemoteTyped
<1> QED BY <1>1, <1>2, <1>3 DEF MaybeApplied

\* Rows, messages and the instances the actors hold stay within their types.
THEOREM TypeCorrect == Spec => []TypeOK
<1> USE ActivationAssumption
<1>0. TypeOK <=> RowTyped /\ JobTyped /\ RemoteTyped /\ RestTyped
  BY DEF TypeOK, RowTyped, JobTyped, RemoteTyped, RestTyped
<1>1. Init => TypeOK
  <2> SUFFICES ASSUME Init PROVE TypeOK
    OBVIOUS
  <2>1. RowTyped
    BY DEF Init, RowTyped, Statuses, Open
  <2>2. JobTyped
    BY DEF Init, JobTyped, Job, NoJob, Stages
  <2>3. RemoteTyped
    BY DEF Init, RemoteTyped
  <2>4. RestTyped
    BY DEF Init, RestTyped
  <2> QED BY <1>0, <2>1, <2>2, <2>3, <2>4
<1>2. TypeOK /\ [Next]_vars => TypeOK'
  <2> SUFFICES ASSUME TypeOK, [Next]_vars PROVE TypeOK'
    OBVIOUS
  <2>0. /\ RowTyped /\ JobTyped /\ RemoteTyped /\ RestTyped
        /\ TypeOK' <=> RowTyped' /\ JobTyped' /\ RemoteTyped' /\ RestTyped'
    BY <1>0 DEF TypeOK, RowTyped, JobTyped, RemoteTyped, RestTyped
  <2>s. /\ "failed" \in Statuses /\ "unauthorized" \in Statuses /\ "completed" \in Statuses
        /\ "ready" \in Stages /\ "allowed" \in Stages /\ "finalized" \in Stages
    BY DEF Statuses, Stages
  <2> USE <2>0, <2>s DEF Fault, rowVars, boundVars
  <2>1. ASSUME NEW a \in Actors, Proceed(a) PROVE TypeOK'
    <3>1. CASE Preflight(a)
      <4>1. RowTyped' /\ JobTyped'
        <5>1. ASSUME At(a, "allowed"), UNCHANGED rowVars PROVE RowTyped' /\ JobTyped'
          BY <5>1, JobMoved DEF RowTyped
        <5> QED BY <3>1, <5>1, Deferred DEF Preflight
      <4> QED BY <3>1, <4>1 DEF Preflight, RemoteTyped, RestTyped
    <3>2. CASE Commit(a)
      <4>1. RemoteTyped'
        BY <3>2, RemoteAnswers DEF Commit
      <4>2. JobTyped'
        BY <3>2, <4>1 DEF Commit, JobTyped, Job, RemoteTyped, Stages
      <4>3. overlapped' \in BOOLEAN
        BY <3>2 DEF Commit
      <4> QED BY <3>2, <4>1, <4>2, <4>3 DEF Commit, RowTyped, RestTyped
    <3>3. CASE Finalize(a)
      <4>1. KeptKey(a) \in Nat
        BY DEF KeptKey, JobTyped, Job, RestTyped, RemoteTyped
      <4>2. RemoteTyped' /\ JobTyped'
        BY <3>3, RemoteAnswers, JobMoved DEF Finalize
      <4>3. sub' \in [status : {"none", "active"}, key : Nat]
        BY <3>3, <4>1 DEF Finalize
      <4> QED BY <3>3, <4>2, <4>3 DEF Finalize, RowTyped, RestTyped
    <3>4. CASE FinalizeFails(a)
      <4>1. RemoteTyped' /\ JobTyped' /\ RowTyped'
        <5>1. ASSUME End(a), UNCHANGED rowVars PROVE RowTyped' /\ JobTyped'
          BY <5>1, JobMoved DEF RowTyped
        <5> QED BY <3>4, <5>1, RemoteAnswers, Deferred DEF FinalizeFails
      <4> QED BY <3>4, <4>1 DEF FinalizeFails, RestTyped
    <3>5. CASE Enqueue(a)
      BY <3>5, JobMoved DEF Enqueue, RowTyped, RemoteTyped, RestTyped
    <3> QED BY <2>1, <3>1, <3>2, <3>3, <3>4, <3>5 DEF Proceed
  <2>2. ASSUME NEW a \in Actors, Failure(a) PROVE TypeOK'
    <3>1. CASE Rejected(a)
      <4>1. RowTyped' /\ JobTyped'
        BY <3>1, Deferred DEF Rejected
      <4> QED BY <3>1, <4>1 DEF Rejected, RemoteTyped, RestTyped
    <3>2. CASE Down(a)
      <4>1. RowTyped' /\ JobTyped' /\ RemoteTyped'
        BY <3>2, Deferred, RemoteAnswers DEF Down
      <4> QED BY <3>2, <4>1 DEF Down, RestTyped
    <3>3. CASE RotateFails(a)
      <4>1. RowTyped' /\ JobTyped' /\ RemoteTyped'
        BY <3>3, Deferred, RemoteAnswers DEF RotateFails
      <4> QED BY <3>3, <4>1 DEF RotateFails, RestTyped
    <3>4. CASE EnqueueFails(a)
      BY <3>4, JobMoved DEF EnqueueFails, RowTyped, RemoteTyped, RestTyped
    <3>5. CASE Crash(a)
      <4>1. JobTyped' /\ RemoteTyped'
        BY <3>5, JobMoved, RemoteAnswers DEF Crash
      <4>2. queue' \in Nat
        BY <3>5 DEF Crash, RestTyped
      <4> QED BY <3>5, <4>1, <4>2 DEF Crash, RowTyped, RestTyped
    <3> QED BY <2>2, <3>1, <3>2, <3>3, <3>4, <3>5 DEF Failure
  <2>3. ASSUME NEW v \in Views, Visit(v) \/ Recover(v) PROVE TypeOK'
    BY <2>3, JobMoved DEF Visit, Recover, Actors, RowTyped, RemoteTyped, RestTyped
  <2>4. ASSUME NEW w \in Workers, Claim(w) PROVE TypeOK'
    <3>1. RowTyped'
      <4>1. CASE pend.status \in Open
        <5>1. /\ pend' = [status |-> "in_progress", attempts |-> pend.attempts + 1]
              /\ pend.attempts \in Nat /\ stale' = FALSE
          BY <2>4, <4>1 DEF Claim, RowTyped
        <5>2. "in_progress" \in Statuses
          BY DEF Statuses, Open
        <5>3. pend' \in [status : Statuses, attempts : Nat]
          BY <5>1, <5>2
        <5> QED BY <5>1, <5>3 DEF RowTyped
      <4>2. CASE pend.status \notin Open
        BY <2>4, <4>2 DEF Claim, RowTyped
      <4> QED BY <4>1, <4>2
    <3>2. JobTyped'
      BY <2>4 DEF Claim, RowTyped, JobTyped, Job, Stages, Actors
    <3> QED BY <2>4, <3>1, <3>2 DEF Claim, RemoteTyped, RestTyped
  <2>5. ASSUME NEW w \in Workers, Complete(w) PROVE TypeOK'
    <3>1. RowTyped' /\ JobTyped'
      BY <2>5, Deferred DEF Complete, Actors
    <3> QED BY <2>5, <3>1 DEF Complete, RemoteTyped, RestTyped
  <2>6. CASE BrokerLoses \/ Redeliver
    BY <2>6 DEF BrokerLoses, Redeliver, RowTyped, JobTyped, RemoteTyped, RestTyped
  <2>7. CASE GoStale \/ Sweep
    <3>1. RowTyped'
      BY <2>7 DEF GoStale, Sweep, RowTyped
    <3> QED BY <2>7, <3>1 DEF GoStale, Sweep, JobTyped, RemoteTyped, RestTyped
  <2>8. CASE CleanUp
    BY <2>8 DEF CleanUp, RowTyped, JobTyped, RemoteTyped, RestTyped
  <2>9. CASE ChangeRole
    <3>1. admin' \in BOOLEAN
      BY <2>9 DEF ChangeRole
    <3> QED BY <2>9, <3>1 DEF ChangeRole, RowTyped, JobTyped, RemoteTyped, RestTyped
  <2>10. CASE UNCHANGED vars
    BY <2>10 DEF vars, RowTyped, JobTyped, RemoteTyped, RestTyped
  <2> QED BY <2>1, <2>2, <2>3, <2>4, <2>5, <2>6, <2>7, <2>8, <2>9, <2>10
          DEF Next, WorkerStep, Actors
<1> QED BY <1>1, <1>2, PTL DEF Spec

-----------------------------------------------------------------------------
(* The key.  A held answer is of a commit that happened; the key in it is    *)
(* accepted as long as nobody else held an answer; the service replaces its   *)
(* key only while the subscription has none.                                  *)

Holding(a) == job[a].at = "committed"

AnswersReal == \A a \in Actors : Holding(a) => remote.committed

HeldKeyLive ==
    \A a \in Actors : Holding(a) /\ job[a].key # 0
                        => job[a].key = remote.key \/ overlapped

OverlapSeen ==
    \A a, b \in Actors : a # b /\ Holding(a) /\ Holding(b) => overlapped

SavedBeforeDone == \A a \in Actors : job[a].at = "finalized" => sub.status = "active"

KeyOfActive ==
    /\ sub.status = "active" <=> sub.key # 0
    /\ sub.status = "active" => remote.committed

KeyInv ==
    /\ TypeOK
    /\ AnswersReal /\ HeldKeyLive /\ OverlapSeen
    /\ SavedBeforeDone /\ KeyOfActive /\ ActiveKeyLive

\* A rotation while the subscription has no key harms no other holder.
LEMMA RotationSafe ==
    ASSUME KeyInv, TypeOK', NEW a \in Actors, Holding(a), sub.key = 0,
           RemoteRotate \/ UNCHANGED remote,
           \A b \in Actors \ {a} : job'[b] = job[b],
           job'[a].at \notin {"committed", "finalized"},
           UNCHANGED <<sub, overlapped>>,
           pend'.status = "completed" => pend.status = "completed"
    PROVE  KeyInv'
<1> USE DEF KeyInv, Holding, RemoteRotate
<1>1. remote'.committed = remote.committed
  BY DEF TypeOK
<1>2. AnswersReal'
  BY <1>1 DEF AnswersReal
<1>3. HeldKeyLive' /\ OverlapSeen'
  BY DEF HeldKeyLive, OverlapSeen
<1>4. SavedBeforeDone' /\ KeyOfActive'
  BY <1>1 DEF SavedBeforeDone, KeyOfActive
<1>5. ActiveKeyLive'
  BY DEF KeyOfActive, ActiveKeyLive
<1> QED BY <1>2, <1>3, <1>4, <1>5

\* What leaves service and subscription alone, and gives nobody an answer.
LEMMA Harmless ==
    ASSUME KeyInv, TypeOK', UNCHANGED <<sub, remote, overlapped>>,
           \A b \in Actors : job'[b] = job[b]
                               \/ job'[b].at \notin {"committed", "finalized"},
           pend'.status = "completed"
               => \/ pend.status = "completed"
                  \/ sub.status = "active"
    PROVE  KeyInv'
<1> USE DEF KeyInv, Holding
<1>1. AnswersReal' /\ HeldKeyLive' /\ OverlapSeen'
  BY DEF AnswersReal, HeldKeyLive, OverlapSeen
<1>2. SavedBeforeDone' /\ KeyOfActive' /\ ActiveKeyLive'
  BY DEF SavedBeforeDone, KeyOfActive, ActiveKeyLive
<1> QED BY <1>1, <1>2

\* activate_commit: before it nobody holds an answer and nothing is active.
LEMMA FirstCommitSafe ==
    ASSUME KeyInv, TypeOK', RemoteCommit \/ UNCHANGED remote,
           UNCHANGED <<sub, overlapped>>,
           \A b \in Actors : job'[b] = job[b]
                               \/ job'[b].at \notin {"committed", "finalized"},
           pend'.status = "completed" => pend.status = "completed"
    PROVE  KeyInv'
<1>1. CASE remote' = remote
  BY <1>1, Harmless
<1>2. CASE ~remote.committed /\ remote'.committed
  <2>1. \A a \in Actors : ~Holding(a)
    BY <1>2 DEF KeyInv, AnswersReal
  <2>2. sub.status # "active"
    BY <1>2 DEF KeyInv, KeyOfActive
  <2>3. AnswersReal' /\ HeldKeyLive' /\ OverlapSeen'
    BY <2>1 DEF AnswersReal, HeldKeyLive, OverlapSeen, Holding
  <2>4. SavedBeforeDone' /\ KeyOfActive' /\ ActiveKeyLive'
    BY <2>2 DEF KeyInv, SavedBeforeDone, KeyOfActive, ActiveKeyLive
  <2> QED BY <2>3, <2>4 DEF KeyInv
<1> QED BY <1>1, <1>2 DEF RemoteCommit, KeyInv, TypeOK

\* Who moves, moves alone.
LEMMA MovesAlone ==
    ASSUME TypeOK, NEW a \in Actors, NEW stage, At(a, stage) \/ End(a)
    PROVE  /\ \A b \in Actors \ {a} : job'[b] = job[b]
           /\ job'[a].at \in {stage, "off"}
  BY DEF TypeOK, Job, NoJob, At, End

LEMMA EndsAlone ==
    ASSUME TypeOK, NEW a \in Actors,
           GiveUp(a, "failed") \/ GiveUp(a, "unauthorized") \/ Defer(a)
    PROVE  /\ \A b \in Actors \ {a} : job'[b] = job[b]
           /\ job'[a].at \in {"deferred", "off"}
           /\ pend'.status = "completed" => pend.status = "completed"
<1>1. ASSUME NEW status, status # "completed", SetStatus(status)
      PROVE  pend'.status # "completed"
  BY <1>1 DEF TypeOK, SetStatus
<1>2. ASSUME NEW status, status # "completed", GiveUp(a, status)
      PROVE  /\ End(a)
             /\ pend'.status = "completed" => pend.status = "completed"
  BY <1>1, <1>2 DEF GiveUp, rowVars
<1>3. ASSUME SetStatus("pending"), At(a, "deferred")
      PROVE  pend'.status # "completed"
  BY <1>1, <1>3
<1> QED BY <1>2, <1>3, MovesAlone DEF Defer

LEMMA KeyStep == KeyInv /\ TypeOK' /\ [Next]_vars => KeyInv'
<1> USE ActivationAssumption
<1> SUFFICES ASSUME KeyInv, TypeOK', [Next]_vars PROVE KeyInv'
  OBVIOUS
<1>t. TypeOK
  BY DEF KeyInv
<1> USE DEF Fault, rowVars, boundVars
<1>1. ASSUME NEW a \in Actors, Preflight(a) PROVE KeyInv'
  <2>1. CASE GiveUp(a, "failed") \/ GiveUp(a, "unauthorized")
    BY <1>t, <1>1, <2>1, EndsAlone, Harmless DEF Preflight
  <2>2. CASE At(a, "allowed") /\ UNCHANGED rowVars
    BY <1>t, <1>1, <2>2, MovesAlone, Harmless DEF Preflight
  <2> QED BY <1>1, <2>1, <2>2 DEF Preflight
<1>2. ASSUME NEW a \in Actors, Commit(a) PROVE KeyInv'
  <2> USE <1>2, <1>t DEF Commit, RemoteCommit, TypeOK, Job
  <2>1. /\ job'[a].at = "committed"
        /\ job'[a].key = IF remote.committed THEN 0 ELSE remote'.key
        /\ \A b \in Actors \ {a} : job'[b] = job[b]
    OBVIOUS
  <2>2. AnswersReal' /\ OverlapSeen'
    BY <2>1 DEF KeyInv, AnswersReal, OverlapSeen, Holding
  <2>3. HeldKeyLive'
    <3> SUFFICES ASSUME NEW b \in Actors, Holding(b)', job'[b].key # 0
                 PROVE  job'[b].key = remote'.key \/ overlapped'
      BY DEF HeldKeyLive
    <3>1. CASE b = a
      BY <2>1, <3>1
    <3>2. CASE b # a
      BY <2>1, <3>2 DEF Holding
    <3> QED BY <3>1, <3>2
  <2>4. SavedBeforeDone' /\ KeyOfActive'
    BY <2>1 DEF KeyInv, SavedBeforeDone, KeyOfActive
  <2>5. ActiveKeyLive'
    BY DEF KeyInv, KeyOfActive, ActiveKeyLive
  <2> QED BY <2>2, <2>3, <2>4, <2>5 DEF KeyInv
<1>3. ASSUME NEW a \in Actors, Finalize(a) PROVE KeyInv'
  <2> USE <1>3, <1>t DEF Finalize, TypeOK, Job, KeyLost, KeptKey, RemoteRotate, At, End, NoJob
  <2>1. /\ Holding(a) /\ remote.committed /\ remote'.committed
        /\ job'[a].at # "committed"
        /\ \A b \in Actors \ {a} : job'[b] = job[b]
    BY DEF Holding, KeyInv, AnswersReal
  <2>2. sub'.status = "active" /\ sub'.key # 0
    OBVIOUS
  <2>3. sub'.key = remote'.key \/ overlapped'
    <3>1. CASE job[a].key # 0
      BY <2>1, <3>1 DEF KeyInv, HeldKeyLive
    <3>2. CASE job[a].key = 0 /\ sub.key = 0
      BY <3>2
    <3>3. CASE job[a].key = 0 /\ sub.key # 0
      BY <3>3 DEF KeyInv, KeyOfActive, ActiveKeyLive
    <3> QED BY <3>1, <3>2, <3>3
  <2>4. AnswersReal' /\ OverlapSeen'
    BY <2>1 DEF KeyInv, AnswersReal, OverlapSeen, Holding
  <2>5. HeldKeyLive'
    BY <2>1 DEF KeyInv, HeldKeyLive, OverlapSeen, Holding
  <2>6. SavedBeforeDone' /\ KeyOfActive' /\ ActiveKeyLive'
    BY <2>1, <2>2, <2>3 DEF SavedBeforeDone, KeyOfActive, ActiveKeyLive
  <2> QED BY <2>4, <2>5, <2>6 DEF KeyInv
<1>4. ASSUME NEW a \in Actors, FinalizeFails(a) PROVE KeyInv'
  <2>0. /\ \A b \in Actors \ {a} : job'[b] = job[b]
        /\ job'[a].at \in {"deferred", "off"}
        /\ pend'.status = "completed" => pend.status = "completed"
    BY <1>t, <1>4, EndsAlone, MovesAlone DEF FinalizeFails
  <2>1. CASE KeyLost(a)
    BY <2>0, <1>4, <2>1, RotationSafe DEF FinalizeFails, KeyLost, Holding
  <2>2. CASE ~KeyLost(a)
    BY <2>0, <1>4, <2>2, Harmless DEF FinalizeFails
  <2> QED BY <2>1, <2>2
<1>5. ASSUME NEW a \in Actors, Enqueue(a) PROVE KeyInv'
  BY <1>t, <1>5, MovesAlone, Harmless DEF Enqueue
<1>6. ASSUME NEW a \in Actors, Rejected(a) PROVE KeyInv'
  BY <1>t, <1>6, EndsAlone, Harmless DEF Rejected
<1>7. ASSUME NEW a \in Actors, Down(a) PROVE KeyInv'
  BY <1>t, <1>7, EndsAlone, FirstCommitSafe DEF Down, MaybeApplied
<1>8. ASSUME NEW a \in Actors, RotateFails(a) PROVE KeyInv'
  BY <1>t, <1>8, EndsAlone, RotationSafe DEF RotateFails, MaybeApplied, KeyLost, Holding
<1>9. ASSUME NEW a \in Actors, EnqueueFails(a) PROVE KeyInv'
  BY <1>t, <1>9, MovesAlone, Harmless DEF EnqueueFails
<1>10. ASSUME NEW a \in Actors, Crash(a) PROVE KeyInv'
  <2>1. CASE Holding(a) /\ KeyLost(a)
    BY <1>t, <1>10, <2>1, MovesAlone, RotationSafe DEF Crash, MaybeApplied, KeyLost, Holding
  <2>2. CASE ~(Holding(a) /\ KeyLost(a))
    BY <1>t, <1>10, <2>2, MovesAlone, Harmless DEF Crash, Holding
  <2> QED BY <2>1, <2>2
<1>11. ASSUME NEW v \in Views, Visit(v) \/ Recover(v) PROVE KeyInv'
  BY <1>t, <1>11, MovesAlone, Harmless DEF Visit, Recover, Actors
<1>12. ASSUME NEW w \in Workers, Claim(w) PROVE KeyInv'
  BY <1>t, <1>12, Harmless DEF Claim, TypeOK, Actors
<1>13. ASSUME NEW w \in Workers, Complete(w) PROVE KeyInv'
  <2>1. sub.status = "active"
    BY <1>13 DEF Complete, KeyInv, SavedBeforeDone, Actors
  <2>2. End(w)
    BY <1>13 DEF Complete, GiveUp
  <2> QED BY <1>t, <1>13, <2>1, <2>2, MovesAlone, Harmless DEF Complete, Actors
<1>14. CASE BrokerLoses \/ Redeliver
  BY <1>14, Harmless DEF BrokerLoses, Redeliver
<1>15. CASE GoStale \/ Sweep
  BY <1>15, Harmless DEF GoStale, Sweep
<1>16. CASE CleanUp \/ ChangeRole
  BY <1>16, Harmless DEF CleanUp, ChangeRole
<1>17. CASE UNCHANGED vars
  BY <1>17, Harmless DEF vars
<1> QED BY <1>1, <1>2, <1>3, <1>4, <1>5, <1>6, <1>7, <1>8, <1>9, <1>10, <1>11,
           <1>12, <1>13, <1>14, <1>15, <1>16, <1>17
        DEF Next, WorkerStep, Proceed, Failure, Actors

\* Whatever fails or is delivered twice, an active subscription has a key, and
\* unless two activations overlapped after the commit, the service accepts it.
THEOREM KeyLive == Spec => []ActiveKeyLive
<1>1. Init => KeyInv
  <2> SUFFICES ASSUME Init PROVE KeyInv
    OBVIOUS
  <2>1. TypeOK
    BY ActivationAssumption
       DEF Init, TypeOK, Statuses, Open, Job, NoJob, Stages
  <2> QED BY <2>1 DEF Init, KeyInv, AnswersReal, HeldKeyLive, OverlapSeen, Holding,
                      SavedBeforeDone, KeyOfActive, ActiveKeyLive, NoJob
<1>2. KeyInv => ActiveKeyLive
  BY DEF KeyInv
<1> QED BY <1>1, <1>2, KeyStep, TypeCorrect, PTL DEF Spec
=============================================================================
