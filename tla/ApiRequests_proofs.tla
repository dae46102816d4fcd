-------------------------- MODULE ApiRequests_proofs --------------------------
(***************************************************************************)
(* For any number of web workers, keys and calls: the types, one post per  *)
(* key, honest replays, the bound on the quota's overshoot, and that the   *)
(* handlers implement the abstract slot.                                   *)
(***************************************************************************)
EXTENDS ApiRequests, FiniteSetTheorems, TLAPS

RecTyped == rec \in [Keys -> Record \cup {None}]
RowTyped == row \in [Posts -> Row]
CallTyped == call \in [Requests -> Call]
TallyTyped ==
    /\ calls \in Nat /\ moves \in Nat /\ faults \in Nat
    /\ made \in [Keys -> Nat] /\ spent \in [Keys -> Nat]
ReplayTyped ==
    replay \in [key : Keys, body : Bodies, post : Posts \cup {None}] \cup {None}

\* What a worker holds at each stage.
CallSound ==
    \A r \in Requests :
        /\ call[r].at # "off" /\ call[r].at \notin {"schedule", "cancel"}
             => call[r].body \in Bodies
        /\ call[r].at = "lost" => call[r].key \in Keys
        /\ call[r].at \in {"created", "stamped", "schedule", "cancel"}
             => call[r].post \in Posts

TypeInv == TypeOK /\ CallSound

LEMMA TypeParts ==
    /\ TypeOK <=> RecTyped /\ RowTyped /\ CallTyped /\ TallyTyped /\ ReplayTyped
    /\ TypeOK' <=> RecTyped' /\ RowTyped' /\ CallTyped' /\ TallyTyped' /\ ReplayTyped'
  BY DEF TypeOK, RecTyped, RowTyped, CallTyped, TallyTyped, ReplayTyped

\* None is no record and no replayed answer: records have fields of their own.
LEMMA CallMoves ==
    ASSUME CallTyped, CallSound, NEW r \in Requests, NEW c \in Call,
           call' = [call EXCEPT ![r] = c],
           c.at # "off" /\ c.at \notin {"schedule", "cancel"} => c.body \in Bodies,
           c.at = "lost" => c.key \in Keys,
           c.at \in {"created", "stamped", "schedule", "cancel"} => c.post \in Posts
    PROVE  CallTyped' /\ CallSound'
<1>1. CallTyped'
  BY DEF CallTyped
<1>2. call'[r] = c /\ \A s \in Requests \ {r} : call'[s] = call[s]
  BY DEF CallTyped
<1>3. CallSound'
  BY <1>2 DEF CallSound
<1> QED BY <1>1, <1>3

LEMMA CallDone ==
    ASSUME CallTyped, CallSound, NEW r \in Requests, Done(r)
    PROVE  CallTyped' /\ CallSound'
<1>1. NoCall \in Call /\ NoCall.at = "off"
  BY DEF NoCall, Call, Stages
<1> QED BY <1>1, CallMoves DEF Done

LEMMA SlotReleased ==
    ASSUME RecTyped, NEW k, Release(k) PROVE RecTyped'
  BY DEF RecTyped, Release

LEMMA SlotSpent ==
    ASSUME made \in [Keys -> Nat], spent \in [Keys -> Nat], NEW k, Spend(k)
    PROVE  spent' \in [Keys -> Nat]
  BY DEF Spend

LEMMA TypeStep == TypeInv /\ [Next]_vars => TypeInv'
<1> SUFFICES ASSUME TypeInv, [Next]_vars PROVE TypeInv'
  OBVIOUS
<1> USE TypeParts DEF TypeInv, Fault
<1>1. ASSUME NEW r \in Requests, NEW k \in Keys \cup {NoKey}, NEW b \in Bodies,
             Claim(r, k, b)
      PROVE  TypeInv'
  <2> DEFINE c(at) == [NoCall EXCEPT !.at = at, !.key = k, !.body = b]
  <2>1. \A at \in Stages : c(at) \in Call /\ c(at).at = at /\ c(at).key = k /\ c(at).body = b
    BY DEF NoCall, Call
  <2>2. CallTyped' /\ CallSound'
    <3>1. \E at \in {"lost", "claimed"} : /\ call' = [call EXCEPT ![r] = c(at)]
                                          /\ at = "lost" => k \in Keys
      BY <1>1 DEF Claim
    <3> HIDE DEF c
    <3>2. PICK at \in {"lost", "claimed"} : /\ call' = [call EXCEPT ![r] = c(at)]
                                            /\ at = "lost" => k \in Keys
      BY <3>1
    <3>3. at \in Stages /\ c(at) \in Call /\ c(at).at = at /\ c(at).key = k /\ c(at).body = b
      BY <2>1 DEF Stages
    <3> QED BY <3>2, <3>3, CallMoves
  <2>3. RecTyped'
    <3>1. [body |-> b, status |-> "pending", post |-> None, old |-> FALSE] \in Record
      BY DEF Record
    <3> QED BY <1>1, <3>1 DEF Claim, RecTyped
  <2> QED BY <1>1, <2>2, <2>3 DEF Claim, RowTyped, TallyTyped, ReplayTyped
<1>2. ASSUME NEW r \in Requests, Refetch(r) PROVE TypeInv'
  <2>1. ReplayTyped'
    <3>1. call[r].key \in Keys /\ call[r].body \in Bodies
      BY <1>2 DEF Refetch, CallSound
    <3>2. CASE replay' = replay
      BY <3>2 DEF ReplayTyped
    <3>3. CASE rec[call[r].key] # None
               /\ replay' = [key |-> call[r].key, body |-> call[r].body,
                             post |-> rec[call[r].key].post]
      <4>1. rec[call[r].key].post \in Posts \cup {None}
        BY <3>1, <3>3 DEF RecTyped, Record
      <4> QED BY <3>1, <3>3, <4>1 DEF ReplayTyped
    <3> QED BY <1>2, <3>2, <3>3 DEF Refetch
  <2> QED BY <1>2, <2>1, CallDone DEF Refetch, RecTyped, RowTyped, TallyTyped
<1>3. ASSUME NEW r \in Requests, CheckQuota(r) PROVE TypeInv'
  <2>1. CASE call' = [call EXCEPT ![r].at = "checked"] /\ UNCHANGED rec
    <3>1. [call[r] EXCEPT !.at = "checked"] \in Call
          /\ call[r].body \in Bodies
      BY <1>3 DEF CallTyped, Call, Stages, CheckQuota, CallSound
    <3>2. call' = [call EXCEPT ![r] = [call[r] EXCEPT !.at = "checked"]]
      BY <2>1
    <3>3. CallTyped' /\ CallSound'
      BY <3>1, <3>2, CallMoves DEF CallTyped, Call
    <3> QED BY <1>3, <2>1, <3>3 DEF CheckQuota, RecTyped, RowTyped, TallyTyped, ReplayTyped
  <2>2. CASE Release(call[r].key) /\ Done(r)
    BY <1>3, <2>2, SlotReleased, CallDone DEF CheckQuota, RowTyped, TallyTyped, ReplayTyped
  <2> QED BY <1>3, <2>1, <2>2 DEF CheckQuota
<1>4. ASSUME NEW r \in Requests, CreatePost(r) PROVE TypeInv'
  <2>1. PICK p \in Posts :
          /\ row' = [row EXCEPT ![p] =
               [status |-> IF call[r].body \in Scheduling THEN "scheduled" ELSE "draft",
                recent |-> call[r].body \in Scheduling,
                admitted |-> call[r].body \in Scheduling,
                key |-> call[r].key, body |-> call[r].body]]
          /\ call' = [call EXCEPT ![r].at = "created", ![r].post = p]
    BY <1>4 DEF CreatePost
  <2>2. call[r].key \in Keys \cup {NoKey} /\ call[r].body \in Bodies
    BY <1>4 DEF CallTyped, Call, CallSound, CreatePost
  <2>3. RowTyped'
    <3>1. [status |-> IF call[r].body \in Scheduling THEN "scheduled" ELSE "draft",
           recent |-> call[r].body \in Scheduling,
           admitted |-> call[r].body \in Scheduling,
           key |-> call[r].key, body |-> call[r].body] \in Row
      BY <2>2 DEF Row
    <3> QED BY <2>1, <3>1 DEF RowTyped
  <2>4. CallTyped' /\ CallSound'
    <3> DEFINE c == [call[r] EXCEPT !.at = "created", !.post = p]
    <3>1. c \in Call /\ c.at = "created" /\ c.body = call[r].body /\ c.post = p
      BY DEF CallTyped, Call, Stages
    <3>2. call' = [call EXCEPT ![r] = c]
      BY <2>1 DEF CallTyped
    <3> HIDE DEF c
    <3> QED BY <2>2, <3>1, <3>2, CallMoves
  <2>5. made' \in [Keys -> Nat]
    BY <1>4 DEF CreatePost, TallyTyped
  <2> QED BY <1>4, <2>3, <2>4, <2>5 DEF CreatePost, RecTyped, TallyTyped, ReplayTyped
<1>5. ASSUME NEW r \in Requests, StampGate(r) PROVE TypeInv'
  <2>1. call[r].post \in Posts /\ call[r].body \in Bodies
    BY <1>5 DEF StampGate, CallSound
  <2>2. RowTyped'
    <3>1. CASE row' = row
      BY <3>1 DEF RowTyped
    <3>2. ASSUME NEW v \in BOOLEAN, row' = [row EXCEPT ![call[r].post].recent = v]
          PROVE  RowTyped'
      BY <2>1, <3>2 DEF RowTyped, Row
    <3>3. \/ row' = row
          \/ row' = [row EXCEPT ![call[r].post].recent =
                                   row[call[r].post].status \in Consuming]
      BY <1>5 DEF StampGate
    <3>4. (row[call[r].post].status \in Consuming) \in BOOLEAN
      OBVIOUS
    <3> QED BY <3>1, <3>2, <3>3, <3>4
  <2>3. CallTyped' /\ CallSound'
    <3> DEFINE c == [call[r] EXCEPT !.at = "stamped"]
    <3>1. c \in Call /\ c.at = "stamped" /\ c.body = call[r].body /\ c.post = call[r].post
      BY DEF CallTyped, Call, Stages
    <3>2. call' = [call EXCEPT ![r] = c]
      BY <1>5 DEF StampGate
    <3> HIDE DEF c
    <3> QED BY <2>1, <3>1, <3>2, CallMoves
  <2> QED BY <1>5, <2>2, <2>3 DEF StampGate, RecTyped, TallyTyped, ReplayTyped
<1>6. ASSUME NEW r \in Requests, Finalize(r) PROVE TypeInv'
  <2>1. RecTyped'
    <3>1. call[r].post \in Posts \cup {None}
      BY DEF CallTyped, Call
    <3> QED BY <1>6, <3>1 DEF Finalize, RecTyped, Record
  <2> QED BY <1>6, <2>1, CallDone DEF Finalize, RowTyped, TallyTyped, ReplayTyped
<1>7. ASSUME NEW r \in Requests, Fails(r) \/ Crash(r) PROVE TypeInv'
  <2>1. RecTyped' /\ CallTyped' /\ CallSound'
    BY <1>7, SlotReleased, CallDone DEF Fails, Crash, RecTyped
  <2>2. spent' \in [Keys -> Nat]
    BY <1>7, SlotSpent DEF Fails, Crash, TallyTyped
  <2> QED BY <1>7, <2>1, <2>2 DEF Fails, Crash, RowTyped, TallyTyped, ReplayTyped
<1>8. ASSUME NEW r \in Requests, NEW p \in Posts, ScheduleCheck(r, p) \/ CancelList(r, p)
      PROVE  TypeInv'
  <2>1. CallTyped' /\ CallSound'
    <3> DEFINE c(at) == [NoCall EXCEPT !.at = at, !.post = p]
    <3>1. \A at \in Stages : c(at) \in Call /\ c(at).at = at /\ c(at).post = p
      BY DEF NoCall, Call
    <3>2. \E at \in {"schedule", "cancel"} : call' = [call EXCEPT ![r] = c(at)]
      BY <1>8 DEF ScheduleCheck, CancelList
    <3> HIDE DEF c
    <3>3. PICK at \in {"schedule", "cancel"} : call' = [call EXCEPT ![r] = c(at)]
      BY <3>2
    <3> QED BY <3>1, <3>3, CallMoves DEF Stages
  <2> QED BY <1>8, <2>1 DEF ScheduleCheck, CancelList, RecTyped, RowTyped, TallyTyped,
                            ReplayTyped
<1>9. ASSUME NEW r \in Requests, ScheduleSave(r) \/ CancelSave(r) PROVE TypeInv'
  <2>1. call[r].post \in Posts
    BY <1>9 DEF ScheduleSave, CancelSave, CallSound
  <2>2. \E st \in {"scheduled", "draft"}, v \in BOOLEAN :
          row' = [row EXCEPT ![call[r].post] =
                     [row[call[r].post] EXCEPT !.status = st, !.recent = v, !.admitted = v]]
    BY <1>9 DEF ScheduleSave, CancelSave
  <2>3. PICK st \in {"scheduled", "draft"}, v \in BOOLEAN :
          row' = [row EXCEPT ![call[r].post] =
                     [row[call[r].post] EXCEPT !.status = st, !.recent = v, !.admitted = v]]
    BY <2>2
  <2>4. RowTyped'
    BY <2>1, <2>3 DEF RowTyped, Row
  <2> QED BY <1>9, <2>4, CallDone DEF ScheduleSave, CancelSave, RecTyped, TallyTyped,
                                      ReplayTyped
<1>10. ASSUME NEW p \in Posts, EngineTakes(p) \/ AdmissionAges(p) \/ UpdateAges(p)
       PROVE  TypeInv'
  <2>1. RowTyped'
    <3>1. CASE row' = [row EXCEPT ![p].status = "taken", ![p].recent = TRUE]
      BY <3>1 DEF RowTyped, Row
    <3>2. CASE row' = [row EXCEPT ![p].admitted = FALSE]
      BY <3>2 DEF RowTyped, Row
    <3>3. CASE row' = [row EXCEPT ![p].recent = FALSE]
      BY <3>3 DEF RowTyped, Row
    <3> QED BY <1>10, <3>1, <3>2, <3>3 DEF EngineTakes, AdmissionAges, UpdateAges
  <2> QED BY <1>10, <2>1 DEF EngineTakes, AdmissionAges, UpdateAges, RecTyped, CallTyped,
                             TallyTyped, ReplayTyped, CallSound
<1>11. ASSUME NEW k \in Keys, RecordAges(k) \/ Sweep(k) PROVE TypeInv'
  <2>1. RecTyped'
    BY <1>11 DEF RecordAges, Sweep, RecTyped, Record
  <2>2. spent' \in [Keys -> Nat]
    BY <1>11, SlotSpent DEF RecordAges, Sweep, TallyTyped
  <2> QED BY <1>11, <2>1, <2>2 DEF RecordAges, Sweep, RowTyped, CallTyped, TallyTyped,
                                   ReplayTyped, CallSound
<1>12. CASE UNCHANGED vars
  BY <1>12 DEF vars, RecTyped, RowTyped, CallTyped, TallyTyped, ReplayTyped, CallSound
<1> QED BY <1>1, <1>2, <1>3, <1>4, <1>5, <1>6, <1>7, <1>8, <1>9, <1>10, <1>11, <1>12
        DEF Next, CreateStep

LEMMA TypeInit == Init => TypeInv
<1> SUFFICES ASSUME Init PROVE TypeInv
  OBVIOUS
<1>1. RecTyped
  BY DEF Init, RecTyped
<1>2. RowTyped
  BY DEF Init, RowTyped, Row, NoRow
<1>3. CallTyped /\ CallSound
  BY DEF Init, CallTyped, CallSound, Call, NoCall, Stages
<1>4. TallyTyped
  BY DEF Init, TallyTyped
<1>5. ReplayTyped
  BY DEF Init, ReplayTyped
<1> QED BY <1>1, <1>2, <1>3, <1>4, <1>5, TypeParts DEF TypeInv

LEMMA Typed == Spec => []TypeInv
  BY TypeInit, TypeStep, PTL DEF Spec

\* Records, rows and calls stay within their types.
THEOREM TypeCorrect == Spec => []TypeOK
<1>1. TypeInv => TypeOK
  BY DEF TypeInv
<1> QED BY <1>1, Typed, PTL

-----------------------------------------------------------------------------
(* The slot of a key.  Every step of the program leaves every slot as it is,  *)
(* or does one of five things to one slot.                                    *)

Kept(k) == Workers(k)' = Workers(k) /\ rec'[k] = rec[k]

Entered(k, r) ==
    /\ rec[k] = None /\ rec'[k] # None
    /\ rec'[k].status = "pending" /\ rec'[k].post = None /\ ~rec'[k].old
    /\ Workers(k)' = Workers(k) \cup {r}

Completed(k, r) ==
    /\ r \in Workers(k) /\ Workers(k)' = Workers(k) \ {r}
    /\ rec[k] # None /\ rec'[k] # None
    /\ rec'[k].status = "done" /\ rec'[k].post \in Posts /\ rec'[k].body = rec[k].body

Left(k, r) ==
    /\ r \in Workers(k) /\ Workers(k)' = Workers(k) \ {r}
    /\ rec'[k] = rec[k] \/ (rec[k].status = "pending" /\ rec'[k] = None)

Aged(k) ==
    /\ Workers(k) = {} /\ Workers(k)' = {}
    /\ rec[k] # None /\ rec'[k] # None
    /\ rec'[k].status = rec[k].status /\ rec'[k].post = rec[k].post
    /\ rec'[k].body = rec[k].body

Swept(k) ==
    /\ rec[k] # None /\ rec[k].old /\ rec'[k] = None
    /\ Workers(k)' = Workers(k)

SlotMoves(k) ==
    \/ \E r \in Requests : Entered(k, r) \/ Completed(k, r) \/ Left(k, r)
    \/ Aged(k) \/ Swept(k)

OneSlotMoves ==
    \/ \A k \in Keys : Kept(k)
    \/ \E k \in Keys : SlotMoves(k) /\ \A j \in Keys \ {k} : Kept(j)

LEMMA WorkerChanges ==
    ASSUME CallTyped, NEW r \in Requests, NEW c, call' = [call EXCEPT ![r] = c],
           NEW k \in Keys
    PROVE  Workers(k)' = IF c.at \in Working /\ c.key = k
                         THEN Workers(k) \cup {r} ELSE Workers(k) \ {r}
<1>1. call'[r] = c /\ \A s \in Requests \ {r} : call'[s] = call[s]
  BY DEF CallTyped
<1> QED BY <1>1 DEF Workers

LEMMA WorkerLeaves ==
    ASSUME CallTyped, NEW r \in Requests, Done(r), NEW k \in Keys
    PROVE  Workers(k)' = Workers(k) \ {r}
<1>1. NoCall.at \notin Working
  BY DEF NoCall, Working
<1> QED BY <1>1, WorkerChanges DEF Done

LEMMA WorkerProceeds ==
    ASSUME CallTyped, NEW r \in Requests, call[r].at \in Working, NEW c,
           call' = [call EXCEPT ![r] = c], c.at \in Working, c.key = call[r].key,
           NEW k \in Keys
    PROVE  Workers(k)' = Workers(k)
<1>1. CASE c.key = k
  <2>1. r \in Workers(k)
    BY <1>1 DEF Workers
  <2>2. Workers(k)' = Workers(k) \cup {r}
    BY <1>1, WorkerChanges
  <2> QED BY <2>1, <2>2
<1>2. CASE c.key # k
  <2>1. r \notin Workers(k)
    BY <1>2 DEF Workers
  <2>2. Workers(k)' = Workers(k) \ {r}
    BY <1>2, WorkerChanges
  <2> QED BY <2>1, <2>2
<1> QED BY <1>1, <1>2

LEMMA WorkersUntouched == UNCHANGED call => \A k \in Keys : Workers(k)' = Workers(k)
  BY DEF Workers

LEMMA SlotStep == TypeInv /\ TypeInv' /\ [Next]_vars => OneSlotMoves
<1>0. NoKey \notin Keys /\ None \notin Record
  BY ApiAssumption
<1> SUFFICES ASSUME TypeInv, TypeInv', [Next]_vars PROVE OneSlotMoves
  OBVIOUS
<1> USE TypeParts DEF TypeInv
<1>1. ASSUME NEW r \in Requests, NEW k \in Keys \cup {NoKey}, NEW b \in Bodies,
             Claim(r, k, b)
      PROVE  OneSlotMoves
  <2> DEFINE c(at) == [NoCall EXCEPT !.at = at, !.key = k, !.body = b]
  <2>1. \A at \in Stages : c(at).at = at /\ c(at).key = k
    BY DEF NoCall
  <2>2. call[r].at = "off"
    BY <1>1 DEF Claim
  <2>3. \A j \in Keys : r \notin Workers(j)
    BY <2>2 DEF Workers, Working
  <2>4. CASE call' = [call EXCEPT ![r] = c("lost")] /\ UNCHANGED rec
    <3>1. ASSUME NEW j \in Keys PROVE Workers(j)' = Workers(j) \ {r}
      <4>1. c("lost").at \notin Working
        BY <2>1 DEF Working, Stages
      <4> HIDE DEF c
      <4> QED BY <2>4, <4>1, WorkerChanges
    <3> QED BY <2>3, <2>4, <3>1 DEF OneSlotMoves, Kept
  <2>5. CASE /\ ~(k \in Keys /\ rec[k] # None)
             /\ call' = [call EXCEPT ![r] = c("claimed")]
    <3>1. c("claimed").at \in Working /\ c("claimed").key = k
      BY <2>1 DEF Working, Stages
    <3> HIDE DEF c
    <3>2. ASSUME NEW j \in Keys, j # k PROVE Kept(j)
      <4>1. Workers(j)' = Workers(j) \ {r}
        BY <2>5, <3>1, <3>2, WorkerChanges
      <4>2. rec'[j] = rec[j]
        BY <1>1, <2>5, <3>2 DEF Claim, RecTyped
      <4> QED BY <2>3, <4>1, <4>2 DEF Kept
    <3>3. CASE k \in Keys
      <4>1. Workers(k)' = Workers(k) \cup {r}
        BY <2>5, <3>1, <3>3, WorkerChanges
      <4>2. rec[k] = None /\ rec'[k] = [body |-> b, status |-> "pending",
                                        post |-> None, old |-> FALSE]
        BY <1>1, <2>5, <3>3 DEF Claim, RecTyped
      <4>3. rec'[k] # None
        <5>1. [body |-> b, status |-> "pending", post |-> None, old |-> FALSE] \in Record
          BY DEF Record
        <5> QED BY <1>0, <4>2, <5>1
      <4> QED BY <3>2, <3>3, <4>1, <4>2, <4>3 DEF OneSlotMoves, SlotMoves, Entered
    <3>4. CASE k \notin Keys
      BY <3>2, <3>4 DEF OneSlotMoves
    <3> QED BY <3>3, <3>4
  <2> QED BY <1>1, <2>4, <2>5 DEF Claim
<1>2. ASSUME NEW r \in Requests, Refetch(r) PROVE OneSlotMoves
  <2>1. \A j \in Keys : r \notin Workers(j)
    BY <1>2 DEF Refetch, Workers, Working
  <2>2. \A j \in Keys : Workers(j)' = Workers(j)
    <3> TAKE j \in Keys
    <3>1. Workers(j)' = Workers(j) \ {r}
      BY <1>2, WorkerLeaves DEF Refetch
    <3> QED BY <2>1, <3>1
  <2> QED BY <1>2, <2>2 DEF Refetch, OneSlotMoves, Kept
<1>3. ASSUME NEW r \in Requests, call[r].at \in Working, Done(r),
             Release(call[r].key) \/ UNCHANGED rec
      PROVE  OneSlotMoves
  <2> DEFINE k == call[r].key
  <2>1. ASSUME NEW j \in Keys, j # k PROVE Kept(j)
    <3>1. r \notin Workers(j)
      BY <2>1 DEF Workers
    <3>2. rec'[j] = rec[j]
      BY <1>3, <2>1 DEF Release, RecTyped
    <3> QED BY <1>3, <3>1, <3>2, WorkerLeaves DEF Kept
  <2>2. CASE k \in Keys
    <3>1. r \in Workers(k)
      BY <1>3, <2>2 DEF Workers
    <3>2. rec'[k] = rec[k] \/ (rec[k].status = "pending" /\ rec'[k] = None)
      <4>1. CASE rec' = rec
        BY <4>1
      <4>2. CASE rec[k].status = "pending" /\ rec' = [rec EXCEPT ![k] = None]
        BY <2>2, <4>2 DEF RecTyped
      <4> QED BY <1>3, <4>1, <4>2 DEF Release
    <3>3. PICK j \in Keys : j = k
      BY <2>2
    <3>4. Left(j, r)
      BY <1>3, <3>1, <3>2, <3>3, WorkerLeaves DEF Left
    <3> QED BY <2>1, <3>3, <3>4 DEF OneSlotMoves, SlotMoves
  <2>3. CASE k \notin Keys
    BY <2>1, <2>3 DEF OneSlotMoves
  <2> QED BY <2>2, <2>3
<1>4. ASSUME NEW r \in Requests, CheckQuota(r) PROVE OneSlotMoves
  <2>1. CASE call' = [call EXCEPT ![r].at = "checked"] /\ UNCHANGED rec
    <3> DEFINE c == [call[r] EXCEPT !.at = "checked"]
    <3>1. c.at \in Working /\ c.key = call[r].key /\ call' = [call EXCEPT ![r] = c]
      BY <2>1 DEF CallTyped, Call, Working
    <3> HIDE DEF c
    <3> QED BY <1>4, <2>1, <3>1, WorkerProceeds DEF CheckQuota, OneSlotMoves, Kept, Working
  <2>2. CASE Release(call[r].key) /\ Done(r)
    BY <1>3, <1>4, <2>2 DEF CheckQuota, Working
  <2> QED BY <1>4, <2>1, <2>2 DEF CheckQuota
<1>5. ASSUME NEW r \in Requests, CreatePost(r) \/ StampGate(r) PROVE OneSlotMoves
  <2>1. /\ call[r].at \in Working /\ UNCHANGED rec
        /\ \E at \in {"created", "stamped"}, p \in Posts \cup {None} :
              call' = [call EXCEPT ![r] = [call[r] EXCEPT !.at = at, !.post = p]]
    <3>1. CASE CreatePost(r)
      <4>1. PICK p \in Posts : call' = [call EXCEPT ![r].at = "created", ![r].post = p]
        BY <3>1 DEF CreatePost
      <4>2. call' = [call EXCEPT ![r] = [call[r] EXCEPT !.at = "created", !.post = p]]
        BY <4>1 DEF CallTyped
      <4> QED BY <3>1, <4>2 DEF CreatePost, Working
    <3>2. CASE StampGate(r)
      <4>1. [call[r] EXCEPT !.at = "stamped"]
               = [call[r] EXCEPT !.at = "stamped", !.post = call[r].post]
        BY DEF CallTyped, Call
      <4>2. call[r].post \in Posts \cup {None}
        BY DEF CallTyped, Call
      <4>3. call' = [call EXCEPT ![r] = [call[r] EXCEPT !.at = "stamped", !.post = call[r].post]]
        BY <3>2, <4>1 DEF StampGate
      <4> QED BY <3>2, <4>2, <4>3 DEF StampGate, Working
    <3> QED BY <1>5, <3>1, <3>2
  <2>2. PICK at \in {"created", "stamped"}, p \in Posts \cup {None} :
              call' = [call EXCEPT ![r] = [call[r] EXCEPT !.at = at, !.post = p]]
    BY <2>1
  <2> DEFINE c == [call[r] EXCEPT !.at = at, !.post = p]
  <2>3. c.at \in Working /\ c.key = call[r].key
    BY DEF CallTyped, Call, Working
  <2> HIDE DEF c
  <2>4. call' = [call EXCEPT ![r] = c]
    BY <2>2 DEF c
  <2> QED BY <2>1, <2>3, <2>4, WorkerProceeds DEF OneSlotMoves, Kept
<1>6. ASSUME NEW r \in Requests, Finalize(r) PROVE OneSlotMoves
  <2> DEFINE k == call[r].key
  <2>0. call[r].at \in Working /\ Done(r) /\ call[r].post \in Posts
    BY <1>6 DEF Finalize, Working, CallSound
  <2>1. CASE k \in Keys /\ rec[k] # None
    <3>1. PICK j \in Keys : j = k
      BY <2>1
    <3>2. r \in Workers(j) /\ Workers(j)' = Workers(j) \ {r}
      BY <2>0, <3>1, WorkerLeaves DEF Workers
    <3>3. rec' = [rec EXCEPT ![j].status = "done", ![j].post = call[r].post]
      BY <1>6, <2>1, <3>1 DEF Finalize
    <3>4. /\ rec'[j].status = "done" /\ rec'[j].post = call[r].post
          /\ rec'[j].body = rec[j].body /\ rec'[j] \in Record
      <4>1. rec'[j] = [rec[j] EXCEPT !.status = "done", !.post = call[r].post]
            /\ rec[j] \in Record
        BY <2>1, <3>1, <3>3 DEF RecTyped
      <4>2. call[r].post \in Posts \cup {None}
        BY <2>0
      <4> QED BY <4>1, <4>2 DEF Record
    <3>5. rec'[j] # None
      BY <1>0, <3>4
    <3>6. ASSUME NEW i \in Keys \ {j} PROVE Kept(i)
      BY <2>0, <3>1, <3>3, WorkerLeaves DEF Kept, Workers, RecTyped
    <3> QED BY <2>0, <2>1, <3>1, <3>2, <3>4, <3>5, <3>6 DEF OneSlotMoves, SlotMoves, Completed
  <2>2. CASE ~(k \in Keys /\ rec[k] # None)
    BY <1>3, <1>6, <2>0, <2>2 DEF Finalize
  <2> QED BY <2>1, <2>2
<1>7. ASSUME NEW r \in Requests, Fails(r) PROVE OneSlotMoves
  BY <1>3, <1>7 DEF Fails, Working
<1>8. ASSUME NEW r \in Requests, Crash(r) PROVE OneSlotMoves
  <2>1. CASE call[r].at \in Working
    BY <1>3, <1>8, <2>1 DEF Crash
  <2>2. CASE call[r].at \notin Working
    <3>1. \A j \in Keys : r \notin Workers(j)
      BY <2>2 DEF Workers
    <3> QED BY <1>8, <3>1, WorkerLeaves DEF Crash, OneSlotMoves, Kept
  <2> QED BY <2>1, <2>2
<1>9. ASSUME NEW r \in Requests, NEW p \in Posts, ScheduleCheck(r, p) \/ CancelList(r, p)
      PROVE  OneSlotMoves
  <2>1. \E at \in {"schedule", "cancel"} :
           call' = [call EXCEPT ![r] = [NoCall EXCEPT !.at = at, !.post = p]]
    BY <1>9 DEF ScheduleCheck, CancelList
  <2>2. PICK at \in {"schedule", "cancel"} :
           call' = [call EXCEPT ![r] = [NoCall EXCEPT !.at = at, !.post = p]]
    BY <2>1
  <2> DEFINE c == [NoCall EXCEPT !.at = at, !.post = p]
  <2>3. c.at \notin Working
    BY DEF NoCall, Working
  <2>4. call' = [call EXCEPT ![r] = c]
    BY <2>2
  <2> HIDE DEF c
  <2>5. \A j \in Keys : r \notin Workers(j)
    BY <1>9 DEF ScheduleCheck, CancelList, Workers, Working
  <2>6. \A j \in Keys : Workers(j)' = Workers(j)
    <3> TAKE j \in Keys
    <3>1. Workers(j)' = Workers(j) \ {r}
      BY <2>3, <2>4, WorkerChanges
    <3> QED BY <2>5, <3>1
  <2> QED BY <1>9, <2>6 DEF ScheduleCheck, CancelList, OneSlotMoves, Kept
<1>10. ASSUME NEW r \in Requests, ScheduleSave(r) \/ CancelSave(r) PROVE OneSlotMoves
  <2>1. \A j \in Keys : r \notin Workers(j)
    BY <1>10 DEF ScheduleSave, CancelSave, Workers, Working
  <2>2. \A j \in Keys : Workers(j)' = Workers(j)
    <3> TAKE j \in Keys
    <3>1. Workers(j)' = Workers(j) \ {r}
      BY <1>10, WorkerLeaves DEF ScheduleSave, CancelSave
    <3> QED BY <2>1, <3>1
  <2> QED BY <1>10, <2>2 DEF ScheduleSave, CancelSave, OneSlotMoves, Kept
<1>11. ASSUME NEW p \in Posts, EngineTakes(p) \/ AdmissionAges(p) \/ UpdateAges(p)
       PROVE  OneSlotMoves
  BY <1>11, WorkersUntouched
     DEF EngineTakes, AdmissionAges, UpdateAges, OneSlotMoves, Kept
<1>12. ASSUME NEW k \in Keys, RecordAges(k) PROVE OneSlotMoves
  <2>1. /\ rec'[k] = [rec[k] EXCEPT !.old = TRUE] /\ rec[k] \in Record
        /\ \A j \in Keys \ {k} : rec'[j] = rec[j]
    BY <1>12 DEF RecordAges, RecTyped
  <2>2. rec'[k].status = rec[k].status /\ rec'[k].post = rec[k].post
        /\ rec'[k].body = rec[k].body
    BY <2>1 DEF Record
  <2>3. rec'[k] # None
    <3>1. rec'[k] \in Record
      BY <2>1 DEF Record
    <3> QED BY <1>0, <3>1
  <2>4. Aged(k)
    BY <1>12, <2>2, <2>3, WorkersUntouched DEF RecordAges, Aged
  <2> QED BY <1>12, <2>1, <2>4, WorkersUntouched
          DEF RecordAges, OneSlotMoves, SlotMoves, Kept
<1>13. ASSUME NEW k \in Keys, Sweep(k) PROVE OneSlotMoves
  BY <1>13, WorkersUntouched DEF Sweep, RecTyped, OneSlotMoves, SlotMoves, Swept, Kept
<1>14. CASE UNCHANGED vars
  BY <1>14, WorkersUntouched DEF vars, OneSlotMoves, Kept
<1> QED BY <1>1, <1>2, <1>4, <1>5, <1>6, <1>7, <1>8, <1>9, <1>10, <1>11, <1>12, <1>13, <1>14
        DEF Next, CreateStep

\* One worker at a time holds the slot, and holds it pending and fresh.
SlotInv ==
    \A k \in Keys :
        /\ \A r, s \in Workers(k) : r = s
        /\ Workers(k) # {} => rec[k] # None /\ rec[k].status = "pending" /\ ~rec[k].old
        /\ rec[k] # None /\ rec[k].status = "pending" => rec[k].post = None

LEMMA SlotInit == Init => SlotInv
  BY DEF Init, SlotInv, Workers, NoCall, Working

LEMMA SlotInvStep == SlotInv /\ OneSlotMoves => SlotInv'
<1> SUFFICES ASSUME SlotInv, OneSlotMoves PROVE SlotInv'
  OBVIOUS
<1>1. ASSUME NEW k \in Keys, SlotMoves(k) \/ Kept(k)
      PROVE  /\ \A r, s \in Workers(k)' : r = s
             /\ Workers(k)' # {} => rec'[k] # None /\ rec'[k].status = "pending" /\ ~rec'[k].old
             /\ rec'[k] # None /\ rec'[k].status = "pending" => rec'[k].post = None
  <2>0. /\ \A r, s \in Workers(k) : r = s
        /\ Workers(k) # {} => rec[k] # None /\ rec[k].status = "pending" /\ ~rec[k].old
        /\ rec[k] # None /\ rec[k].status = "pending" => rec[k].post = None
    BY DEF SlotInv
  <2>1. ASSUME NEW r \in Requests, Entered(k, r) \/ Completed(k, r) \/ Left(k, r)
        PROVE  /\ \A q, s \in Workers(k)' : q = s
               /\ Workers(k)' # {}
                    => rec'[k] # None /\ rec'[k].status = "pending" /\ ~rec'[k].old
               /\ rec'[k] # None /\ rec'[k].status = "pending" => rec'[k].post = None
    <3>1. CASE Entered(k, r)
      <4>1. Workers(k) = {} /\ Workers(k)' = {r}
        BY <2>0, <3>1 DEF Entered
      <4> QED BY <3>1, <4>1 DEF Entered
    <3>2. CASE Completed(k, r) \/ Left(k, r)
      <4>1. Workers(k)' = {}
        BY <2>0, <3>2 DEF Completed, Left
      <4> QED BY <2>0, <3>2, <4>1 DEF Completed, Left
    <3> QED BY <2>1, <3>1, <3>2
  <2>2. CASE Aged(k)
    BY <2>0, <2>2 DEF Aged
  <2>3. CASE Swept(k)
    <3>1. Workers(k)' = {}
      BY <2>0, <2>3 DEF Swept
    <3> QED BY <2>3, <3>1 DEF Swept
  <2>4. CASE Kept(k)
    BY <2>0, <2>4 DEF Kept
  <2> QED BY <1>1, <2>1, <2>2, <2>3, <2>4 DEF SlotMoves
<1>2. \A k \in Keys : SlotMoves(k) \/ Kept(k)
  BY DEF OneSlotMoves
<1> QED BY <1>1, <1>2 DEF SlotInv

LEMMA SlotHeldOnce == Spec => [](TypeInv /\ SlotInv)
<1>1. TypeInv /\ SlotInv /\ [Next]_vars => TypeInv' /\ SlotInv'
  BY TypeStep, SlotStep, SlotInvStep
<1> QED BY <1>1, TypeInit, SlotInit, PTL DEF Spec

-----------------------------------------------------------------------------
(* The refinement *)

LEMMA SlotInitial == Init => Slot!Init
<1> SUFFICES ASSUME Init PROVE Slot!Init
  OBVIOUS
<1>1. \A k \in Keys : Workers(k) = {} /\ rec[k] = None
  BY DEF Init, Workers, NoCall, Working
<1> QED BY <1>1 DEF Slot!Init

LEMMA SlotImplemented ==
    SlotInv /\ OneSlotMoves
        => [Slot!Next]_<<[k \in Keys |-> Workers(k)],
                         [k \in Keys |-> IF rec[k] = None THEN None ELSE rec[k].post]>>
<1> DEFINE W == [k \in Keys |-> Workers(k)]
           O == [k \in Keys |-> IF rec[k] = None THEN None ELSE rec[k].post]
<1> SUFFICES ASSUME SlotInv, OneSlotMoves PROVE Slot!Next \/ (W' = W /\ O' = O)
  OBVIOUS
<1>0. /\ \A k \in Keys : W[k] = Workers(k) /\ W'[k] = Workers(k)'
      /\ \A k \in Keys : O[k] = IF rec[k] = None THEN None ELSE rec[k].post
      /\ \A k \in Keys : O'[k] = IF rec'[k] = None THEN None ELSE rec'[k].post
      /\ W = [k \in Keys |-> W[k]] /\ W' = [k \in Keys |-> W'[k]]
      /\ O = [k \in Keys |-> O[k]] /\ O' = [k \in Keys |-> O'[k]]
  OBVIOUS
<1>d. /\ \A k \in Keys : Slot!Forget(k) <=> /\ W[k] = {} /\ O' = [O EXCEPT ![k] = None]
                                            /\ W' = W
      /\ \A k \in Keys, r \in Requests :
           Slot!Enter(k, r) <=> /\ W[k] = {} /\ O[k] = None
                                /\ W' = [W EXCEPT ![k] = {r}] /\ O' = O
      /\ \A k \in Keys, r \in Requests :
           Slot!Leave(k, r) <=> /\ W[k] = {r} /\ W' = [W EXCEPT ![k] = {}] /\ O' = O
      /\ \A k \in Keys, r \in Requests, p \in Posts :
           Slot!Complete(k, r, p) <=> /\ W[k] = {r} /\ W' = [W EXCEPT ![k] = {}]
                                      /\ O' = [O EXCEPT ![k] = p]
  BY DEF Slot!Forget, Slot!Enter, Slot!Leave, Slot!Complete
<1> HIDE DEF W, O
<1>k. \A k \in Keys : Kept(k) => W'[k] = W[k] /\ O'[k] = O[k]
  BY <1>0 DEF Kept
<1>1. CASE \A k \in Keys : Kept(k)
  BY <1>0, <1>1, <1>k
<1>2. ASSUME NEW k \in Keys, SlotMoves(k), \A j \in Keys \ {k} : Kept(j)
      PROVE  Slot!Next \/ (W' = W /\ O' = O)
  <2>0. /\ \A r, s \in W[k] : r = s
        /\ W[k] # {} => rec[k] # None /\ rec[k].status = "pending" /\ ~rec[k].old
        /\ rec[k] # None /\ rec[k].status = "pending" => rec[k].post = None
    BY <1>0 DEF SlotInv
  <2>u. ASSUME NEW x, NEW y, W'[k] = x, O'[k] = y
        PROVE  W' = [W EXCEPT ![k] = x] /\ O' = [O EXCEPT ![k] = y]
    BY <1>0, <1>2, <1>k, <2>u
  <2>s. /\ W'[k] = W[k] => W' = W
        /\ O'[k] = O[k] => O' = O
    BY <1>0, <1>2, <1>k
  <2>1. ASSUME NEW r \in Requests, Entered(k, r) PROVE Slot!Next
    <3>1. W[k] = {} /\ O[k] = None /\ W'[k] = {r} /\ O'[k] = O[k]
      BY <1>0, <2>0, <2>1 DEF Entered
    <3>2. Slot!Enter(k, r)
      BY <1>d, <2>s, <2>u, <3>1
    <3> QED BY <3>2 DEF Slot!Next
  <2>2. ASSUME NEW r \in Requests, Completed(k, r) PROVE Slot!Next
    <3>1. W[k] = {r} /\ W'[k] = {} /\ O'[k] = rec'[k].post /\ rec'[k].post \in Posts
      BY <1>0, <2>0, <2>2 DEF Completed
    <3>2. PICK p \in Posts : p = rec'[k].post
      BY <3>1
    <3>3. Slot!Complete(k, r, p)
      BY <1>d, <2>u, <3>1, <3>2
    <3> QED BY <3>2, <3>3 DEF Slot!Next
  <2>3. ASSUME NEW r \in Requests, Left(k, r) PROVE Slot!Next
    <3>1. W[k] = {r} /\ W'[k] = {}
      BY <1>0, <2>0, <2>3 DEF Left
    <3>2. O'[k] = O[k]
      BY <1>0, <2>0, <2>3, <3>1 DEF Left
    <3>3. Slot!Leave(k, r)
      BY <1>d, <2>s, <2>u, <3>1, <3>2
    <3> QED BY <3>3 DEF Slot!Next
  <2>4. CASE Aged(k)
    <3>1. W'[k] = W[k] /\ O'[k] = O[k]
      <4>1. W'[k] = Workers(k)' /\ W[k] = Workers(k)
        BY <1>0
      <4>2. O'[k] = rec'[k].post /\ O[k] = rec[k].post
        BY <1>0, <2>4 DEF Aged
      <4> QED BY <2>4, <4>1, <4>2 DEF Aged
    <3> QED BY <2>s, <3>1
  <2>5. CASE Swept(k)
    <3>1. W[k] = {} /\ W'[k] = W[k] /\ O'[k] = None
      BY <1>0, <2>0, <2>5 DEF Swept
    <3>2. Slot!Forget(k)
      BY <1>d, <2>s, <2>u, <3>1
    <3> QED BY <3>2 DEF Slot!Next
  <2> QED BY <1>2, <2>1, <2>2, <2>3, <2>4, <2>5 DEF SlotMoves
<1> QED BY <1>1, <1>2 DEF OneSlotMoves

\* The handlers, the sweep and the ways a request can die keep the promise of
\* the table: one worker per key, and none under a key that has an outcome.
THEOREM SlotRefined == Spec => ImplementsIdempotencySlot
<1>1. TypeInv /\ TypeInv' /\ SlotInv /\ [Next]_vars
        => [Slot!Next]_<<[k \in Keys |-> Workers(k)],
                         [k \in Keys |-> IF rec[k] = None THEN None ELSE rec[k].post]>>
  BY SlotStep, SlotImplemented
<1> QED BY <1>1, SlotInitial, SlotHeldOnce, PTL DEF Spec, Slot!Spec, ImplementsIdempotencySlot

-----------------------------------------------------------------------------
(* One post per key: while a worker has not created its post, every post of   *)
(* the key is paid for by a freed slot.                                       *)

MadeOf(k) ==
    /\ made[k] <= 1 + spent[k]
    /\ rec[k] = None => made[k] <= spent[k]
    /\ \A r \in Workers(k) :
         call[r].at \in {"claimed", "checked"} => made[k] <= spent[k]

MadeInv == \A k \in Keys : MadeOf(k)

\* Freeing the slot pays for its post.
LEMMA SpendPays ==
    ASSUME TallyTyped, NEW k \in Keys, MadeOf(k), NEW j, Spend(j)
    PROVE  /\ spent'[k] \in Nat /\ spent'[k] >= spent[k]
           /\ j = k => made[k] <= spent'[k]
<1>1. made[k] \in Nat /\ spent[k] \in Nat /\ made[k] <= 1 + spent[k]
  BY DEF TallyTyped, MadeOf
<1>2. CASE j \in Keys /\ spent[j] < made[j]
  <2>1. spent' = [spent EXCEPT ![j] = @ + 1]
    BY <1>2 DEF Spend
  <2> QED BY <1>1, <1>2, <2>1 DEF TallyTyped
<1>3. CASE ~(j \in Keys /\ spent[j] < made[j])
  BY <1>1, <1>3 DEF Spend
<1> QED BY <1>2, <1>3

\* A step that creates no post and lets no worker start without a free slot.
LEMMA MadeKept ==
    ASSUME TypeInv, MadeInv, OneSlotMoves, UNCHANGED made,
           \A k \in Keys : /\ spent'[k] \in Nat /\ spent'[k] >= spent[k]
                           /\ rec[k] # None /\ rec'[k] = None => made[k] <= spent'[k],
           \A k \in Keys : \A r \in Workers(k) : r \in Workers(k)' =>
               (call'[r].at \in {"claimed", "checked"}
                   => call[r].at \in {"claimed", "checked"})
    PROVE  MadeInv'
<1> SUFFICES ASSUME NEW k \in Keys PROVE MadeOf(k)'
  BY DEF MadeInv
<1>0. MadeOf(k) /\ made[k] \in Nat /\ spent[k] \in Nat /\ spent'[k] \in Nat
      /\ spent'[k] >= spent[k]
  BY TypeParts DEF MadeInv, TypeInv, TallyTyped
<1>1. rec'[k] = None => made[k] <= spent'[k]
  BY <1>0 DEF MadeOf
<1>2. ASSUME NEW r \in Workers(k)', call'[r].at \in {"claimed", "checked"}
      PROVE  made[k] <= spent'[k]
  <2>1. CASE r \in Workers(k)
    BY <1>0, <1>2, <2>1 DEF MadeOf
  <2>2. CASE r \notin Workers(k)
    <3>1. rec[k] = None
      BY <1>2, <2>2 DEF OneSlotMoves, SlotMoves, Kept, Entered, Completed, Left, Aged, Swept
    <3> QED BY <1>0, <3>1 DEF MadeOf
  <2> QED BY <2>1, <2>2
<1> QED BY <1>0, <1>1, <1>2 DEF MadeOf

LEMMA MadeStep == TypeInv /\ TypeInv' /\ SlotInv /\ MadeInv /\ [Next]_vars => MadeInv'
<1> SUFFICES ASSUME TypeInv, TypeInv', SlotInv, MadeInv, [Next]_vars PROVE MadeInv'
  OBVIOUS
<1>0. OneSlotMoves /\ TallyTyped /\ RecTyped /\ CallTyped
  BY SlotStep, TypeParts DEF TypeInv
<1>n. \A k \in Keys : made[k] \in Nat /\ spent[k] \in Nat
  BY <1>0 DEF TallyTyped
\* Steps that leave made and spent alone and free no slot with a post.
<1>u. ASSUME UNCHANGED <<made, spent>>,
             \A k \in Keys : rec[k] # None /\ rec'[k] = None => made[k] <= spent[k],
             \A k \in Keys : \A r \in Workers(k) : r \in Workers(k)' =>
               (call'[r].at \in {"claimed", "checked"}
                   => call[r].at \in {"claimed", "checked"})
      PROVE  MadeInv'
  BY <1>0, <1>n, <1>u, MadeKept
<1>c. ASSUME UNCHANGED call, NEW k \in Keys, NEW r \in Workers(k), r \in Workers(k)',
             call'[r].at \in {"claimed", "checked"}
      PROVE  call[r].at \in {"claimed", "checked"}
  BY <1>c
<1>d. ASSUME NEW r \in Requests, NEW c, call' = [call EXCEPT ![r] = c],
             c.at \in {"claimed", "checked"} => call[r].at \notin Working
                                                \/ call[r].at \in {"claimed", "checked"},
             NEW k \in Keys, NEW s \in Workers(k), s \in Workers(k)',
             call'[s].at \in {"claimed", "checked"}
      PROVE  call[s].at \in {"claimed", "checked"}
  <2>1. s \in Requests /\ call[s].at \in Working
    BY <1>d DEF Workers
  <2>2. CASE s = r
    BY <1>0, <1>d, <2>1, <2>2 DEF CallTyped
  <2>3. CASE s # r
    BY <1>0, <1>d, <2>1, <2>3 DEF CallTyped
  <2> QED BY <2>2, <2>3
<1>e. ASSUME NEW r \in Requests, Done(r),
             NEW k \in Keys, NEW s \in Workers(k), s \in Workers(k)',
             call'[s].at \in {"claimed", "checked"}
      PROVE  call[s].at \in {"claimed", "checked"}
  <2>1. call' = [call EXCEPT ![r] = NoCall] /\ NoCall.at = "off"
    BY <1>e DEF Done, NoCall
  <2> QED BY <1>d, <1>e, <2>1
<1>1. ASSUME NEW r \in Requests, NEW k \in Keys \cup {NoKey}, NEW b \in Bodies,
             Claim(r, k, b)
      PROVE  MadeInv'
  <2>1. \A j \in Keys : rec[j] # None => rec'[j] = rec[j]
    BY <1>0, <1>1 DEF Claim, RecTyped
  <2>2. \E c : call' = [call EXCEPT ![r] = c]
    BY <1>1 DEF Claim
  <2>3. PICK c : call' = [call EXCEPT ![r] = c]
    BY <2>2
  <2>4. call[r].at \notin Working
    BY <1>1 DEF Claim, Working
  <2>5. \A j \in Keys : \A s \in Workers(j) : s \in Workers(j)' =>
          (call'[s].at \in {"claimed", "checked"} => call[s].at \in {"claimed", "checked"})
    BY <1>d, <2>3, <2>4
  <2> QED BY <1>1, <1>u, <2>1, <2>5 DEF Claim
<1>2. ASSUME NEW r \in Requests, Refetch(r) PROVE MadeInv'
  BY <1>2, <1>u, <1>e DEF Refetch
<1>3. ASSUME NEW r \in Requests, CheckQuota(r) PROVE MadeInv'
  <2>1. CASE call' = [call EXCEPT ![r].at = "checked"] /\ UNCHANGED rec
    <3>1. call' = [call EXCEPT ![r] = [call[r] EXCEPT !.at = "checked"]]
          /\ call[r].at = "claimed"
      BY <1>3, <2>1 DEF CheckQuota
    <3>2. \A j \in Keys : \A s \in Workers(j) : s \in Workers(j)' =>
            (call'[s].at \in {"claimed", "checked"} => call[s].at \in {"claimed", "checked"})
      BY <1>d, <3>1
    <3> QED BY <1>3, <1>u, <2>1, <3>2 DEF CheckQuota
  <2>2. CASE Release(call[r].key) /\ Done(r)
    <3>1. ASSUME NEW j \in Keys, rec[j] # None, rec'[j] = None PROVE made[j] <= spent[j]
      <4>1. j = call[r].key
        BY <1>0, <2>2, <3>1 DEF Release, RecTyped
      <4>2. r \in Workers(j)
        BY <1>3, <4>1 DEF CheckQuota, Workers, Working
      <4> QED BY <1>3, <4>2 DEF CheckQuota, MadeInv, MadeOf
    <3> QED BY <1>3, <1>u, <1>e, <2>2, <3>1 DEF CheckQuota
  <2> QED BY <1>3, <2>1, <2>2 DEF CheckQuota
<1>4. ASSUME NEW r \in Requests, CreatePost(r) PROVE MadeInv'
  <2>0. PICK p \in Posts : call' = [call EXCEPT ![r].at = "created", ![r].post = p]
    BY <1>4 DEF CreatePost
  <2>1. /\ call'[r].at = "created" /\ call'[r].key = call[r].key
        /\ \A s \in Requests \ {r} : call'[s] = call[s]
        /\ call[r].at = "checked" /\ UNCHANGED <<rec, spent>>
    BY <1>0, <1>4, <2>0 DEF CreatePost, CallTyped, Call
  <2>2. \A k \in Keys : Workers(k)' = Workers(k)
    BY <2>1 DEF Workers, Working
  <2> SUFFICES ASSUME NEW k \in Keys PROVE MadeOf(k)'
    BY DEF MadeInv
  <2>3. CASE k = call[r].key
    <3>1. r \in Workers(k)
      BY <2>1, <2>3 DEF Workers, Working
    <3>2. made[k] <= spent[k] /\ made'[k] = made[k] + 1
      BY <1>0, <1>4, <2>1, <2>3, <3>1 DEF CreatePost, TallyTyped, MadeInv, MadeOf
    <3>3. rec[k] # None /\ \A s \in Workers(k) : s = r
      BY <3>1 DEF SlotInv
    <3> QED BY <1>n, <2>1, <2>2, <3>2, <3>3 DEF MadeOf
  <2>4. CASE k # call[r].key
    <3>1. made'[k] = made[k] /\ r \notin Workers(k)
      BY <1>0, <1>4, <2>4 DEF CreatePost, TallyTyped, Workers
    <3>2. \A s \in Workers(k) : call'[s] = call[s]
      BY <2>1, <3>1 DEF Workers
    <3> QED BY <2>1, <2>2, <3>1, <3>2 DEF MadeInv, MadeOf
  <2> QED BY <2>3, <2>4
<1>5. ASSUME NEW r \in Requests, StampGate(r) PROVE MadeInv'
  <2>1. call' = [call EXCEPT ![r] = [call[r] EXCEPT !.at = "stamped"]]
        /\ [call[r] EXCEPT !.at = "stamped"].at = "stamped"
    BY <1>0, <1>5 DEF StampGate, CallTyped, Call
  <2>2. \A j \in Keys : \A s \in Workers(j) : s \in Workers(j)' =>
          (call'[s].at \in {"claimed", "checked"} => call[s].at \in {"claimed", "checked"})
    BY <1>d, <2>1
  <2> QED BY <1>5, <1>u, <2>2 DEF StampGate
<1>6. ASSUME NEW r \in Requests, Finalize(r) PROVE MadeInv'
  <2>1. \A j \in Keys : rec[j] # None => rec'[j] # None
    <3> TAKE j \in Keys
    <3> HAVE rec[j] # None
    <3>1. CASE rec'[j] = rec[j]
      BY <3>1
    <3>2. CASE rec'[j] # rec[j]
      <4>1. rec' = [rec EXCEPT ![j].status = "done", ![j].post = call[r].post]
        BY <1>0, <1>6, <3>2 DEF Finalize, RecTyped
      <4>2. rec'[j].status = "done" /\ rec'[j] \in Record
        <5>1. rec'[j] = [rec[j] EXCEPT !.status = "done", !.post = call[r].post]
              /\ rec[j] \in Record /\ call[r].post \in Posts \cup {None}
          BY <1>0, <4>1 DEF RecTyped, CallTyped, Call
        <5> QED BY <5>1 DEF Record
      <4> QED BY <4>2, ApiAssumption
    <3> QED BY <3>1, <3>2
  <2> QED BY <1>6, <1>u, <1>e, <2>1 DEF Finalize
<1>7. ASSUME NEW r \in Requests, Fails(r) PROVE MadeInv'
  <2>1. ASSUME NEW k \in Keys
        PROVE  /\ spent'[k] \in Nat /\ spent'[k] >= spent[k]
               /\ rec[k] # None /\ rec'[k] = None => made[k] <= spent'[k]
    <3>1. rec[k] # None /\ rec'[k] = None => k = call[r].key
      BY <1>0, <1>7 DEF Fails, Release, RecTyped
    <3> QED BY <1>0, <1>7, <3>1, SpendPays DEF Fails, MadeInv
  <2> QED BY <1>0, <1>7, <1>e, <2>1, MadeKept DEF Fails
<1>8. ASSUME NEW r \in Requests, Crash(r) PROVE MadeInv'
  BY <1>8, <1>u, <1>e DEF Crash
<1>9. ASSUME NEW r \in Requests, NEW p \in Posts, ScheduleCheck(r, p) \/ CancelList(r, p)
      PROVE  MadeInv'
  <2>1. \E c : call' = [call EXCEPT ![r] = c]
    BY <1>9 DEF ScheduleCheck, CancelList
  <2>2. PICK c : call' = [call EXCEPT ![r] = c]
    BY <2>1
  <2>3. call[r].at \notin Working
    BY <1>9 DEF ScheduleCheck, CancelList, Working
  <2>4. \A j \in Keys : \A s \in Workers(j) : s \in Workers(j)' =>
          (call'[s].at \in {"claimed", "checked"} => call[s].at \in {"claimed", "checked"})
    BY <1>d, <2>2, <2>3
  <2> QED BY <1>9, <1>u, <2>4 DEF ScheduleCheck, CancelList
<1>10. ASSUME NEW r \in Requests, ScheduleSave(r) \/ CancelSave(r) PROVE MadeInv'
  BY <1>10, <1>u, <1>e DEF ScheduleSave, CancelSave
<1>11. ASSUME NEW p \in Posts, EngineTakes(p) \/ AdmissionAges(p) \/ UpdateAges(p)
       PROVE  MadeInv'
  BY <1>11, <1>u, <1>c DEF EngineTakes, AdmissionAges, UpdateAges
<1>12. ASSUME NEW k \in Keys, RecordAges(k) PROVE MadeInv'
  <2>1. ASSUME NEW j \in Keys, rec[j] # None PROVE rec'[j] # None
    <3>1. CASE j = k
      <4>1. rec'[j] = [rec[j] EXCEPT !.old = TRUE] /\ rec[j] \in Record
        BY <1>0, <1>12, <2>1, <3>1 DEF RecordAges, RecTyped
      <4>2. rec'[j] \in Record
        BY <4>1 DEF Record
      <4> QED BY <4>2, ApiAssumption
    <3>2. CASE j # k
      BY <1>0, <1>12, <2>1, <3>2 DEF RecordAges, RecTyped
    <3> QED BY <3>1, <3>2
  <2> QED BY <1>12, <1>u, <1>c, <2>1 DEF RecordAges
<1>13. ASSUME NEW k \in Keys, Sweep(k) PROVE MadeInv'
  <2>1. ASSUME NEW j \in Keys
        PROVE  /\ spent'[j] \in Nat /\ spent'[j] >= spent[j]
               /\ rec[j] # None /\ rec'[j] = None => made[j] <= spent'[j]
    <3>1. rec[j] # None /\ rec'[j] = None => j = k
      BY <1>0, <1>13 DEF Sweep, RecTyped
    <3> QED BY <1>0, <1>13, <3>1, SpendPays DEF Sweep, MadeInv
  <2> QED BY <1>0, <1>13, <1>c, <2>1, MadeKept DEF Sweep
<1>14. CASE UNCHANGED vars
  BY <1>14, <1>u, <1>c DEF vars
<1> QED BY <1>1, <1>2, <1>3, <1>4, <1>5, <1>6, <1>7, <1>8, <1>9, <1>10, <1>11, <1>12,
           <1>13, <1>14
        DEF Next, CreateStep

\* However calls, errors, crashes and the sweep interleave, a key yields a second
\* post only after its slot was freed with the first one made.
THEOREM OnePost == Spec => []OnePostPerKey
<1>1. Init => MadeInv
  <2> SUFFICES ASSUME Init, NEW k \in Keys PROVE MadeOf(k)
    BY DEF MadeInv
  <2>1. made[k] = 0 /\ spent[k] = 0
    BY DEF Init
  <2> QED BY <2>1 DEF MadeOf
<1>2. MadeInv => OnePostPerKey
  BY DEF MadeInv, MadeOf, OnePostPerKey
<1> QED BY <1>1, <1>2, MadeStep, SlotHeldOnce, PTL DEF Spec

-----------------------------------------------------------------------------
(* Replays: what a record names is a row of its key and body.                *)

\* Row p was made under key k for body b.
Named(k, p, b) ==
    /\ p \in Posts /\ row[p].status # "none"
    /\ row[p].key = k /\ row[p].body = b

\* ... after the step.
NamedNext(k, p, b) ==
    /\ p \in Posts /\ row'[p].status # "none"
    /\ row'[p].key = k /\ row'[p].body = b

CreatedNamed ==
    \A r \in Requests : call[r].at \in {"created", "stamped"}
        => Named(call[r].key, call[r].post, call[r].body)

BodyMatches ==
    \A r \in Requests : call[r].at \in Working /\ call[r].key \in Keys
        => rec[call[r].key].body = call[r].body

RecordNamed ==
    \A k \in Keys : rec[k] # None /\ rec[k].status = "done"
        => Named(k, rec[k].post, rec[k].body)

ReplayNamed ==
    replay # None => Named(replay.key, replay.post, replay.body)

NameInv == CreatedNamed /\ BodyMatches /\ RecordNamed /\ ReplayNamed

\* A row keeps its key and body, and is never deleted.
LEMMA NamedKept ==
    ASSUME TypeInv, [Next]_vars, NEW k, NEW p, NEW b, Named(k, p, b)
    PROVE  NamedNext(k, p, b)
<1>0. p \in Posts /\ row \in [Posts -> Row] /\ row[p].status # "none"
  BY TypeParts DEF TypeInv, RowTyped, Named
<1> SUFFICES row'[p].status # "none" /\ row'[p].key = row[p].key /\ row'[p].body = row[p].body
  BY DEF Named, NamedNext
<1>1. CASE UNCHANGED row
  BY <1>0, <1>1
<1>2. ASSUME NEW r \in Requests, CreatePost(r)
      PROVE  row'[p].status # "none" /\ row'[p].key = row[p].key /\ row'[p].body = row[p].body
  <2>1. PICK q \in Posts : \E v : row[q].status = "none" /\ row' = [row EXCEPT ![q] = v]
    BY <1>2 DEF CreatePost
  <2> QED BY <1>0, <2>1
<1>3. ASSUME NEW r \in Requests, StampGate(r)
      PROVE  row'[p].status # "none" /\ row'[p].key = row[p].key /\ row'[p].body = row[p].body
  <2>1. CASE row' = row
    BY <1>0, <2>1
  <2>2. ASSUME NEW q, NEW v, row' = [row EXCEPT ![q].recent = v]
        PROVE  row'[p].status # "none" /\ row'[p].key = row[p].key
               /\ row'[p].body = row[p].body
    BY <1>0, <2>2 DEF Row
  <2> QED BY <1>3, <2>1, <2>2 DEF StampGate
<1>4. ASSUME NEW r \in Requests, ScheduleSave(r) \/ CancelSave(r)
      PROVE  row'[p].status # "none" /\ row'[p].key = row[p].key /\ row'[p].body = row[p].body
  <2>1. ASSUME NEW q, NEW st \in {"scheduled", "draft"}, NEW v,
               row' = [row EXCEPT ![q] =
                          [row[q] EXCEPT !.status = st, !.recent = v, !.admitted = v]]
        PROVE  row'[p].status # "none" /\ row'[p].key = row[p].key
               /\ row'[p].body = row[p].body
    <3>1. CASE p = q
      <4>1. row'[p] = [row[p] EXCEPT !.status = st, !.recent = v, !.admitted = v]
        BY <1>0, <2>1, <3>1
      <4> QED BY <1>0, <4>1 DEF Row
    <3>2. CASE p # q
      BY <1>0, <2>1, <3>2
    <3> QED BY <3>1, <3>2
  <2> QED BY <1>4, <2>1 DEF ScheduleSave, CancelSave
<1>5. ASSUME NEW q \in Posts, EngineTakes(q) \/ AdmissionAges(q) \/ UpdateAges(q)
      PROVE  row'[p].status # "none" /\ row'[p].key = row[p].key /\ row'[p].body = row[p].body
  BY <1>0, <1>5 DEF EngineTakes, AdmissionAges, UpdateAges, Row
<1> QED BY <1>1, <1>2, <1>3, <1>4, <1>5
        DEF Next, CreateStep, Claim, Refetch, CheckQuota, Finalize, Fails, Crash,
            ScheduleCheck, CancelList, RecordAges, Sweep, vars

\* Every step but a replay leaves what was replayed; no step but Finalize names a
\* row in a record.
LEMMA NameStep == TypeInv /\ TypeInv' /\ SlotInv /\ NameInv /\ [Next]_vars => NameInv'
<1> SUFFICES ASSUME TypeInv, TypeInv', SlotInv, NameInv, [Next]_vars PROVE NameInv'
  OBVIOUS
<1>0. RecTyped /\ CallTyped /\ None \notin Record /\ NoKey \notin Keys
  BY TypeParts, ApiAssumption DEF TypeInv
<1>n. \A k, p, b : Named(k, p, b) => NamedNext(k, p, b)
  BY NamedKept
<1>o. ASSUME NEW r \in Requests, call[r].at \in Working, call[r].key \in Keys
      PROVE  /\ r \in Workers(call[r].key)
             /\ rec[call[r].key] # None /\ rec[call[r].key].status = "pending"
             /\ \A s \in Workers(call[r].key) : s = r
  <2>1. r \in Workers(call[r].key)
    BY <1>o DEF Workers
  <2> QED BY <1>o, <2>1 DEF SlotInv
\* The step of one worker that leaves the records of others' keys alone.
<1>k. ASSUME UNCHANGED replay, NEW r \in Requests, NEW c, call' = [call EXCEPT ![r] = c],
             c.at \in {"created", "stamped"} => NamedNext(c.key, c.post, c.body),
             c.at \in Working /\ c.key \in Keys => rec'[c.key].body = c.body,
             \A k \in Keys : rec'[k] = rec[k] \/ rec'[k] = None \/ rec'[k].status = "pending"
                             \/ NamedNext(k, rec'[k].post, rec'[k].body),
             \A s \in Requests \ {r} : call[s].at \in Working /\ call[s].key \in Keys
                 => rec'[call[s].key] = rec[call[s].key]
      PROVE  NameInv'
  <2>1. call'[r] = c /\ \A s \in Requests \ {r} : call'[s] = call[s]
    BY <1>0, <1>k DEF CallTyped
  <2>2. CreatedNamed'
    BY <1>k, <1>n, <2>1 DEF NameInv, CreatedNamed, Named, NamedNext
  <2>3. BodyMatches'
    BY <1>k, <2>1 DEF NameInv, BodyMatches
  <2>4. RecordNamed'
    BY <1>k, <1>n DEF NameInv, RecordNamed, Named, NamedNext
  <2>5. ReplayNamed'
    BY <1>k, <1>n DEF NameInv, ReplayNamed, Named, NamedNext
  <2> QED BY <2>2, <2>3, <2>4, <2>5 DEF NameInv
\* A worker leaves its slot as it is or empties it.
<1>l. ASSUME UNCHANGED replay, NEW r \in Requests, Done(r),
             rec' = rec \/ (call[r].at \in Working /\ Release(call[r].key))
      PROVE  NameInv'
  <2>1. call' = [call EXCEPT ![r] = NoCall] /\ NoCall.at = "off"
    BY <1>l DEF Done, NoCall
  <2>2. \A k \in Keys : rec'[k] = rec[k] \/ rec'[k] = None
    BY <1>0, <1>l DEF Release, RecTyped
  <2>3. ASSUME NEW s \in Requests \ {r}, call[s].at \in Working, call[s].key \in Keys
        PROVE  rec'[call[s].key] = rec[call[s].key]
    <3>1. call[r].at \in Working => call[r].key # call[s].key
      BY <1>o, <2>3 DEF Workers
    <3> QED BY <1>0, <1>l, <2>3, <3>1 DEF Release, RecTyped
  <2> QED BY <1>k, <1>l, <2>1, <2>2, <2>3 DEF Working
\* What changes neither a call nor a record.
<1>s. ASSUME UNCHANGED <<call, replay>>,
             \A k \in Keys : \/ rec'[k] = rec[k]
                             \/ /\ Workers(k) = {}
                                /\ rec'[k] = None
                                   \/ (/\ rec[k] # None /\ rec'[k].status = rec[k].status
                                       /\ rec'[k].post = rec[k].post
                                       /\ rec'[k].body = rec[k].body)
      PROVE  NameInv'
  <2>1. CreatedNamed'
    BY <1>n, <1>s DEF NameInv, CreatedNamed, Named, NamedNext
  <2>2. BodyMatches'
    <3> SUFFICES ASSUME NEW r \in Requests, call[r].at \in Working, call[r].key \in Keys
                 PROVE  rec'[call[r].key].body = call[r].body
      BY <1>s DEF BodyMatches
    <3>1. Workers(call[r].key) # {}
      BY <1>o
    <3> QED BY <1>s, <3>1 DEF NameInv, BodyMatches
  <2>3. RecordNamed'
    BY <1>n, <1>s DEF NameInv, RecordNamed, Named, NamedNext
  <2>4. ReplayNamed'
    BY <1>n, <1>s DEF NameInv, ReplayNamed, Named, NamedNext
  <2> QED BY <2>1, <2>2, <2>3, <2>4 DEF NameInv
<1>1. ASSUME NEW r \in Requests, NEW k \in Keys \cup {NoKey}, NEW b \in Bodies,
             Claim(r, k, b)
      PROVE  NameInv'
  <2> DEFINE c(at) == [NoCall EXCEPT !.at = at, !.key = k, !.body = b]
  <2>1. \A at \in Stages : c(at).at = at /\ c(at).key = k /\ c(at).body = b
    BY DEF NoCall
  <2>2. UNCHANGED replay
    BY <1>1 DEF Claim
  <2>3. CASE call' = [call EXCEPT ![r] = c("lost")] /\ UNCHANGED rec
    <3>1. c("lost").at \notin Working
      BY <2>1 DEF Working, Stages
    <3> HIDE DEF c
    <3> QED BY <1>k, <2>2, <2>3, <3>1 DEF Working
  <2>4. CASE /\ ~(k \in Keys /\ rec[k] # None)
             /\ call' = [call EXCEPT ![r] = c("claimed")]
    <3>1. c("claimed").at = "claimed" /\ c("claimed").key = k /\ c("claimed").body = b
      BY <2>1 DEF Stages
    <3> HIDE DEF c
    <3>2. \A j \in Keys : j # k => rec'[j] = rec[j]
      BY <1>0, <1>1, <2>4 DEF Claim, RecTyped
    <3>3. k \in Keys => rec'[k].status = "pending" /\ rec'[k].body = b
      BY <1>0, <1>1, <2>4 DEF Claim, RecTyped
    <3>4. ASSUME NEW s \in Requests \ {r}, call[s].at \in Working, call[s].key \in Keys
          PROVE  rec'[call[s].key] = rec[call[s].key]
      <4>1. call[s].key # k
        BY <1>o, <2>4, <3>4
      <4> QED BY <3>2, <3>4, <4>1
    <3>5. \A j \in Keys : rec'[j] = rec[j] \/ rec'[j].status = "pending"
      BY <3>2, <3>3
    <3> QED BY <1>k, <2>2, <2>4, <3>1, <3>3, <3>4, <3>5
  <2> QED BY <1>1, <2>3, <2>4 DEF Claim
<1>2. ASSUME NEW r \in Requests, Refetch(r) PROVE NameInv'
  <2> DEFINE k == call[r].key
  <2>1. call' = [call EXCEPT ![r] = NoCall] /\ NoCall.at = "off" /\ k \in Keys
        /\ UNCHANGED rec
    BY <1>2 DEF Refetch, Done, NoCall, TypeInv, CallSound
  <2>2. \A s \in Requests \ {r} : call'[s] = call[s]
    BY <2>1
  <2>3. call'[r].at = "off"
    BY <1>0, <2>1 DEF CallTyped
  <2>4. CreatedNamed' /\ BodyMatches' /\ RecordNamed'
    BY <1>n, <2>1, <2>2, <2>3 DEF NameInv, CreatedNamed, BodyMatches, RecordNamed, Working, Named,
       NamedNext
  <2>5. ReplayNamed'
    <3>1. CASE replay' = replay
      BY <1>n, <3>1 DEF NameInv, ReplayNamed, Named, NamedNext
    <3>2. CASE /\ rec[k] # None /\ rec[k].status = "done" /\ rec[k].body = call[r].body
               /\ replay' = [key |-> k, body |-> call[r].body, post |-> rec[k].post]
      <4>1. Named(k, rec[k].post, rec[k].body)
        BY <2>1, <3>2 DEF NameInv, RecordNamed, Named, NamedNext
      <4>2. PICK j, q, d : j = k /\ q = rec[k].post /\ d = call[r].body
        OBVIOUS
      <4>3. NamedNext(j, q, d)
        BY <1>n, <3>2, <4>1, <4>2
      <4>4. replay'.key = j /\ replay'.post = q /\ replay'.body = d
        BY <3>2, <4>2
      <4> QED BY <4>3, <4>4 DEF ReplayNamed, Named, NamedNext
    <3> QED BY <1>2, <3>1, <3>2 DEF Refetch
  <2> QED BY <2>4, <2>5 DEF NameInv
<1>3. ASSUME NEW r \in Requests, CheckQuota(r) PROVE NameInv'
  <2>1. CASE call' = [call EXCEPT ![r].at = "checked"] /\ UNCHANGED rec
    <3> DEFINE c == [call[r] EXCEPT !.at = "checked"]
    <3>1. c.at = "checked" /\ c.key = call[r].key /\ c.body = call[r].body
          /\ call' = [call EXCEPT ![r] = c] /\ call[r].at \in Working
      BY <1>0, <1>3, <2>1 DEF CheckQuota, CallTyped, Call, Working
    <3>2. c.key \in Keys => rec'[c.key].body = c.body
      BY <2>1, <3>1 DEF NameInv, BodyMatches
    <3> HIDE DEF c
    <3> QED BY <1>3, <1>k, <2>1, <3>1, <3>2 DEF CheckQuota
  <2>2. CASE Release(call[r].key) /\ Done(r)
    BY <1>3, <1>l, <2>2 DEF CheckQuota, Working
  <2> QED BY <1>3, <2>1, <2>2 DEF CheckQuota
<1>4. ASSUME NEW r \in Requests, CreatePost(r) PROVE NameInv'
  <2>1. PICK p \in Posts :
          /\ row' = [row EXCEPT ![p] =
               [status |-> IF call[r].body \in Scheduling THEN "scheduled" ELSE "draft",
                recent |-> call[r].body \in Scheduling,
                admitted |-> call[r].body \in Scheduling,
                key |-> call[r].key, body |-> call[r].body]]
          /\ call' = [call EXCEPT ![r].at = "created", ![r].post = p]
    BY <1>4 DEF CreatePost
  <2> DEFINE c == [call[r] EXCEPT !.at = "created", !.post = p]
  <2>2. c.at = "created" /\ c.key = call[r].key /\ c.body = call[r].body /\ c.post = p
        /\ call' = [call EXCEPT ![r] = c] /\ call[r].at \in Working
    <3>1. c.at = "created" /\ c.key = call[r].key /\ c.body = call[r].body /\ c.post = p
      BY <1>0 DEF CallTyped, Call
    <3>2. call' = [call EXCEPT ![r] = c]
      BY <2>1
    <3> QED BY <1>4, <3>1, <3>2 DEF CreatePost, Working
  <2> HIDE DEF c
  <2>3. PICK k, b : k = call[r].key /\ b = call[r].body
    OBVIOUS
  <2>4. NamedNext(k, p, b)
    <3>1. row'[p].status \in {"scheduled", "draft"} /\ row'[p].key = k /\ row'[p].body = b
      BY <2>1, <2>3, TypeParts DEF TypeInv, RowTyped
    <3> QED BY <3>1 DEF Named, NamedNext
  <2>5. NamedNext(c.key, c.post, c.body)
    BY <2>2, <2>3, <2>4 DEF Named, NamedNext
  <2>6. c.key \in Keys => rec'[c.key].body = c.body
    BY <1>4, <2>2 DEF CreatePost, NameInv, BodyMatches
  <2>7. UNCHANGED <<rec, replay>>
    BY <1>4 DEF CreatePost
  <2> QED BY <1>k, <2>2, <2>5, <2>6, <2>7
<1>5. ASSUME NEW r \in Requests, StampGate(r) PROVE NameInv'
  <2> DEFINE c == [call[r] EXCEPT !.at = "stamped"]
  <2>1. /\ c.at = "stamped" /\ c.key = call[r].key /\ c.body = call[r].body
        /\ c.post = call[r].post
        /\ call' = [call EXCEPT ![r] = c] /\ call[r].at = "created"
    BY <1>0, <1>5 DEF StampGate, CallTyped, Call
  <2> HIDE DEF c
  <2>2. PICK k, p, b : k = call[r].key /\ p = call[r].post /\ b = call[r].body
    OBVIOUS
  <2>3. NamedNext(k, p, b)
    BY <1>n, <2>1, <2>2 DEF NameInv, CreatedNamed, Named, NamedNext
  <2>4. c.key = k /\ c.post = p /\ c.body = b
    BY <2>1, <2>2
  <2>5. NamedNext(c.key, c.post, c.body)
    BY <2>3, <2>4 DEF Named, NamedNext
  <2>6. c.key \in Keys => rec'[c.key].body = c.body
    BY <1>5, <2>1 DEF StampGate, NameInv, BodyMatches, Working
  <2> QED BY <1>5, <1>k, <2>1, <2>5, <2>6 DEF StampGate
<1>6. ASSUME NEW r \in Requests, Finalize(r) PROVE NameInv'
  <2>0. call[r].at = "stamped" /\ call[r].at \in Working /\ Done(r) /\ UNCHANGED replay
    BY <1>6 DEF Finalize, Working
  <2>1. CASE rec' = rec
    BY <1>l, <2>0, <2>1
  <2>2. CASE /\ call[r].key \in Keys /\ rec[call[r].key] # None
             /\ rec' = [rec EXCEPT ![call[r].key].status = "done",
                                   ![call[r].key].post = call[r].post]
    <3>1. PICK k, p, b : k = call[r].key /\ p = call[r].post /\ b = call[r].body
      OBVIOUS
    <3>2. NamedNext(k, p, b)
      BY <1>n, <2>0, <3>1 DEF NameInv, CreatedNamed, Named, NamedNext
    <3>3. /\ rec'[k] = [rec[k] EXCEPT !.status = "done", !.post = p]
          /\ rec[k] \in Record /\ rec[k].body = b
          /\ \A j \in Keys : j # k => rec'[j] = rec[j]
      BY <1>0, <2>0, <2>2, <3>1 DEF RecTyped, NameInv, BodyMatches
    <3>4. rec'[k].post = p /\ rec'[k].body = b
      BY <3>3 DEF Record
    <3>5. \A j \in Keys : rec'[j] = rec[j] \/ NamedNext(j, rec'[j].post, rec'[j].body)
      BY <3>2, <3>3, <3>4 DEF Named, NamedNext
    <3>6. call' = [call EXCEPT ![r] = NoCall] /\ NoCall.at = "off"
      BY <2>0 DEF Done, NoCall
    <3>7. ASSUME NEW s \in Requests \ {r}, call[s].at \in Working, call[s].key \in Keys
          PROVE  rec'[call[s].key] = rec[call[s].key]
      <4>1. call[s].key # k
        BY <1>o, <2>0, <2>2, <3>1, <3>7 DEF Workers
      <4> QED BY <3>3, <3>7, <4>1
    <3> QED BY <1>k, <2>0, <3>5, <3>6, <3>7 DEF Working
  <2> QED BY <1>6, <2>1, <2>2 DEF Finalize
<1>7. ASSUME NEW r \in Requests, Fails(r) PROVE NameInv'
  BY <1>7, <1>l DEF Fails, Working
<1>8. ASSUME NEW r \in Requests, Crash(r) PROVE NameInv'
  BY <1>8, <1>l DEF Crash
<1>9. ASSUME NEW r \in Requests, NEW p \in Posts, ScheduleCheck(r, p) \/ CancelList(r, p)
      PROVE  NameInv'
  <2>1. \E at \in {"schedule", "cancel"} :
           call' = [call EXCEPT ![r] = [NoCall EXCEPT !.at = at, !.post = p]]
    BY <1>9 DEF ScheduleCheck, CancelList
  <2>2. PICK at \in {"schedule", "cancel"} :
           call' = [call EXCEPT ![r] = [NoCall EXCEPT !.at = at, !.post = p]]
    BY <2>1
  <2> DEFINE c == [NoCall EXCEPT !.at = at, !.post = p]
  <2>3. c.at \notin Working /\ c.at \notin {"created", "stamped"}
    BY DEF NoCall, Working
  <2>4. call' = [call EXCEPT ![r] = c]
    BY <2>2
  <2> HIDE DEF c
  <2>5. UNCHANGED <<rec, replay>>
    BY <1>9 DEF ScheduleCheck, CancelList
  <2> QED BY <1>k, <2>3, <2>4, <2>5
<1>10. ASSUME NEW r \in Requests, ScheduleSave(r) \/ CancelSave(r) PROVE NameInv'
  BY <1>10, <1>l DEF ScheduleSave, CancelSave
<1>11. ASSUME NEW p \in Posts, EngineTakes(p) \/ AdmissionAges(p) \/ UpdateAges(p)
       PROVE  NameInv'
  BY <1>11, <1>s DEF EngineTakes, AdmissionAges, UpdateAges
<1>12. ASSUME NEW k \in Keys, RecordAges(k) PROVE NameInv'
  <2>1. ASSUME NEW j \in Keys
        PROVE  \/ rec'[j] = rec[j]
               \/ /\ Workers(j) = {} /\ rec[j] # None
                  /\ rec'[j].status = rec[j].status /\ rec'[j].post = rec[j].post
                  /\ rec'[j].body = rec[j].body
    <3>1. CASE j = k
      <4>1. rec'[j] = [rec[j] EXCEPT !.old = TRUE] /\ rec[j] \in Record /\ rec[j] # None
            /\ Workers(j) = {}
        BY <1>0, <1>12, <3>1 DEF RecordAges, RecTyped
      <4> QED BY <4>1 DEF Record
    <3>2. CASE j # k
      BY <1>0, <1>12, <3>2 DEF RecordAges, RecTyped
    <3> QED BY <3>1, <3>2
  <2> QED BY <1>12, <1>s, <2>1 DEF RecordAges
<1>13. ASSUME NEW k \in Keys, Sweep(k) PROVE NameInv'
  <2>1. Workers(k) = {}
    BY <1>13 DEF Sweep, SlotInv
  <2>2. \A j \in Keys : rec'[j] = rec[j] \/ (Workers(j) = {} /\ rec'[j] = None)
    BY <1>0, <1>13, <2>1 DEF Sweep, RecTyped
  <2> QED BY <1>13, <1>s, <2>2 DEF Sweep
<1>14. CASE UNCHANGED vars
  BY <1>14, <1>s DEF vars
<1> QED BY <1>1, <1>2, <1>3, <1>4, <1>5, <1>6, <1>7, <1>8, <1>9, <1>10, <1>11, <1>12,
           <1>13, <1>14
        DEF Next, CreateStep

\* Whatever lies between a call and its repetition, the answer replayed to an
\* agent names a post made under its key for its body.
THEOREM HonestReplay == Spec => []ReplayHonest
<1>1. Init => NameInv
  <2> SUFFICES ASSUME Init PROVE NameInv
    OBVIOUS
  <2>1. CreatedNamed /\ BodyMatches
    BY DEF Init, CreatedNamed, BodyMatches, NoCall, Working
  <2>2. RecordNamed /\ ReplayNamed
    BY DEF Init, RecordNamed, ReplayNamed
  <2> QED BY <2>1, <2>2 DEF NameInv
<1>2. NameInv => ReplayHonest
  BY DEF NameInv, ReplayNamed, Named, ReplayHonest
<1> QED BY <1>1, <1>2, NameStep, SlotHeldOnce, PTL DEF Spec

-----------------------------------------------------------------------------
(* The quota.  The rows let in within the day, and the calls whose check has  *)
(* passed and whose row is not saved yet, stay within the limit and the       *)
(* workers: at a check the rows are below the limit.                          *)

Admitted == {p \in Posts : row[p].admitted /\ row[p].status \in Consuming}
Counted == {p \in Posts : row[p].status \in Consuming /\ row[p].recent}
Passed ==
    {r \in Requests : \/ call[r].at = "checked" /\ call[r].body \in Scheduling
                      \/ call[r].at = "schedule"}

AdmittedRecent ==
    \A p \in Posts : row[p].admitted /\ row[p].status \in Consuming => row[p].recent

QuotaInv ==
    /\ AdmittedRecent
    /\ Cardinality(Admitted) + Cardinality(Passed) <= Limit + Cardinality(Requests) - 1

LEMMA QuotaSets ==
    /\ IsFiniteSet(Admitted) /\ IsFiniteSet(Admitted') /\ IsFiniteSet(Counted)
    /\ IsFiniteSet(Passed) /\ IsFiniteSet(Passed')
    /\ Cardinality(Admitted) \in Nat /\ Cardinality(Admitted') \in Nat
    /\ Cardinality(Passed) \in Nat /\ Cardinality(Passed') \in Nat
    /\ Cardinality(Passed') <= Cardinality(Requests)
    /\ Cardinality(Requests) \in Nat /\ Cardinality(Requests) > 0
    /\ Limit \in Nat
<1>1. IsFiniteSet(Posts)
  BY FS_Interval, ApiAssumption DEF Posts
<1>2. /\ Admitted \in SUBSET Posts /\ Admitted' \in SUBSET Posts /\ Counted \in SUBSET Posts
      /\ Passed \in SUBSET Requests /\ Passed' \in SUBSET Requests
  BY DEF Admitted, Counted, Passed
<1>3. IsFiniteSet(Requests) /\ Requests # {} /\ Limit \in Nat
  BY ApiAssumption
<1>4. /\ IsFiniteSet(Admitted) /\ IsFiniteSet(Admitted') /\ IsFiniteSet(Counted)
      /\ IsFiniteSet(Passed) /\ IsFiniteSet(Passed')
      /\ Cardinality(Passed') <= Cardinality(Requests)
  BY <1>1, <1>2, <1>3, FS_Subset
<1>5. Cardinality(Requests) \in Nat /\ Cardinality(Requests) # 0
  BY <1>3, FS_CardinalityType, FS_EmptySet
<1> QED BY <1>3, <1>4, <1>5, FS_CardinalityType

\* No row enters and no check passes.
LEMMA QuotaKept ==
    ASSUME QuotaInv, AdmittedRecent', Admitted' \subseteq Admitted, Passed' \subseteq Passed
    PROVE  QuotaInv'
<1>1. Cardinality(Admitted') <= Cardinality(Admitted)
      /\ Cardinality(Passed') <= Cardinality(Passed)
  BY QuotaSets, FS_Subset
<1> QED BY <1>1, QuotaSets DEF QuotaInv

\* A call that had passed lets its row in.
LEMMA QuotaUsed ==
    ASSUME QuotaInv, AdmittedRecent', NEW p, Admitted' \subseteq Admitted \cup {p},
           NEW r \in Passed, Passed' \subseteq Passed \ {r}
    PROVE  QuotaInv'
<1>1. /\ IsFiniteSet(Admitted \cup {p})
      /\ Cardinality(Admitted \cup {p}) <= Cardinality(Admitted) + 1
      /\ IsFiniteSet(Passed \ {r}) /\ Cardinality(Passed \ {r}) = Cardinality(Passed) - 1
  <2>1. IsFiniteSet(Admitted) /\ IsFiniteSet(Passed)
        /\ Cardinality(Admitted) \in Nat /\ Cardinality(Passed) \in Nat
    BY QuotaSets
  <2>2. /\ IsFiniteSet(Admitted \cup {p})
        /\ Cardinality(Admitted \cup {p})
             \in {Cardinality(Admitted), Cardinality(Admitted) + 1}
    BY <2>1, FS_AddElement
  <2>3. IsFiniteSet(Passed \ {r}) /\ Cardinality(Passed \ {r}) = Cardinality(Passed) - 1
    BY <2>1, FS_RemoveElement
  <2> QED BY <2>1, <2>2, <2>3
<1>2. Cardinality(Admitted') <= Cardinality(Admitted \cup {p})
      /\ Cardinality(Passed') <= Cardinality(Passed \ {r})
  BY <1>1, FS_Subset
<1>3. Cardinality(Admitted \cup {p}) \in Nat /\ Cardinality(Passed \ {r}) \in Nat
  BY <1>1, FS_CardinalityType
<1> QED BY <1>1, <1>2, <1>3, QuotaSets DEF QuotaInv

\* At a check that passes, whoever else has passed, the rows are below the limit.
LEMMA QuotaChecked ==
    ASSUME QuotaInv, WithinQuota, UNCHANGED row PROVE QuotaInv'
<1>1. Admitted \subseteq Counted
  BY DEF QuotaInv, AdmittedRecent, Admitted, Counted
<1>2. Cardinality(Admitted) <= Cardinality(Counted)
  BY <1>1, QuotaSets, FS_Subset
<1>3. Cardinality(Counted) < Limit /\ Cardinality(Counted) \in Nat
  BY QuotaSets, FS_CardinalityType DEF WithinQuota, Used, Counted
<1>4. Admitted' = Admitted /\ AdmittedRecent'
  BY DEF QuotaInv, AdmittedRecent, Admitted
<1> QED BY <1>2, <1>3, <1>4, QuotaSets DEF QuotaInv

LEMMA QuotaStep == TypeInv /\ TypeInv' /\ QuotaInv /\ [Next]_vars => QuotaInv'
<1> SUFFICES ASSUME TypeInv, TypeInv', QuotaInv, [Next]_vars PROVE QuotaInv'
  OBVIOUS
<1>0. /\ row \in [Posts -> Row] /\ row' \in [Posts -> Row] /\ call \in [Requests -> Call]
      /\ AdmittedRecent
  BY TypeParts DEF TypeInv, RowTyped, CallTyped, QuotaInv
<1>r. UNCHANGED row => Admitted' = Admitted /\ AdmittedRecent'
  BY <1>0 DEF Admitted, AdmittedRecent
<1>d. ASSUME NEW r \in Requests, Done(r) PROVE Passed' = Passed \ {r}
  <2>1. call'[r].at = "off" /\ \A s \in Requests \ {r} : call'[s] = call[s]
    BY <1>0, <1>d DEF Done, NoCall
  <2> QED BY <2>1 DEF Passed
<1>m. ASSUME NEW r \in Requests, NEW c, call' = [call EXCEPT ![r] = c],
             c.at \notin {"checked", "schedule"}
      PROVE  Passed' = Passed \ {r}
  <2>1. call'[r] = c /\ \A s \in Requests \ {r} : call'[s] = call[s]
    BY <1>0, <1>m
  <2> QED BY <1>m, <2>1 DEF Passed
<1>c. UNCHANGED call => Passed' = Passed
  BY DEF Passed
<1>1. ASSUME NEW r \in Requests, NEW k \in Keys \cup {NoKey}, NEW b \in Bodies,
             Claim(r, k, b)
      PROVE  QuotaInv'
  <2>1. \E at \in {"lost", "claimed"} :
          call' = [call EXCEPT ![r] = [NoCall EXCEPT !.at = at, !.key = k, !.body = b]]
    BY <1>1 DEF Claim
  <2>2. PICK at \in {"lost", "claimed"} :
          call' = [call EXCEPT ![r] = [NoCall EXCEPT !.at = at, !.key = k, !.body = b]]
    BY <2>1
  <2>3. [NoCall EXCEPT !.at = at, !.key = k, !.body = b].at = at
    BY DEF NoCall
  <2>4. Passed' = Passed \ {r}
    BY <1>m, <2>2, <2>3
  <2> QED BY <1>1, <1>r, <2>4, QuotaKept DEF Claim
<1>2. ASSUME NEW r \in Requests, Refetch(r) \/ Finalize(r) \/ Fails(r) \/ Crash(r)
      PROVE  QuotaInv'
  <2>1. UNCHANGED row /\ Done(r)
    BY <1>2 DEF Refetch, Finalize, Fails, Crash
  <2>2. Passed' = Passed \ {r}
    BY <1>d, <2>1
  <2> QED BY <1>r, <2>1, <2>2, QuotaKept
<1>3. ASSUME NEW r \in Requests, CheckQuota(r) PROVE QuotaInv'
  <2>1. CASE Done(r)
    <3>1. Passed' = Passed \ {r}
      BY <1>d, <2>1
    <3> QED BY <1>3, <1>r, <3>1, QuotaKept DEF CheckQuota
  <2>2. CASE call[r].body \in Scheduling /\ WithinQuota
    BY <1>3, <2>2, QuotaChecked DEF CheckQuota
  <2>3. CASE call[r].body \notin Scheduling /\ call' = [call EXCEPT ![r].at = "checked"]
    <3>1. /\ call'[r].body = call[r].body /\ call'[r].at = "checked"
          /\ \A s \in Requests \ {r} : call'[s] = call[s]
      BY <1>0, <2>3 DEF Call
    <3>2. Passed' \subseteq Passed
      BY <2>3, <3>1 DEF Passed
    <3> QED BY <1>3, <1>r, <3>2, QuotaKept DEF CheckQuota
  <2> QED BY <1>3, <2>1, <2>2, <2>3 DEF CheckQuota
<1>4. ASSUME NEW r \in Requests, CreatePost(r) PROVE QuotaInv'
  <2>1. PICK p \in Posts :
          /\ row' = [row EXCEPT ![p] =
               [status |-> IF call[r].body \in Scheduling THEN "scheduled" ELSE "draft",
                recent |-> call[r].body \in Scheduling,
                admitted |-> call[r].body \in Scheduling,
                key |-> call[r].key, body |-> call[r].body]]
          /\ call' = [call EXCEPT ![r].at = "created", ![r].post = p]
    BY <1>4 DEF CreatePost
  <2>2. /\ row'[p].status = IF call[r].body \in Scheduling THEN "scheduled" ELSE "draft"
        /\ row'[p].recent <=> call[r].body \in Scheduling
        /\ row'[p].admitted <=> call[r].body \in Scheduling
        /\ \A q \in Posts \ {p} : row'[q] = row[q]
    BY <1>0, <2>1
  <2>3. AdmittedRecent'
    BY <1>0, <2>2 DEF AdmittedRecent
  <2>4. Passed' = Passed \ {r}
    <3>1. [call[r] EXCEPT !.at = "created", !.post = p].at = "created"
      BY <1>0 DEF Call
    <3>2. call' = [call EXCEPT ![r] = [call[r] EXCEPT !.at = "created", !.post = p]]
      BY <2>1
    <3> QED BY <1>m, <3>1, <3>2
  <2>5. CASE call[r].body \in Scheduling
    <3>1. r \in Passed
      BY <1>4, <2>5 DEF CreatePost, Passed
    <3>2. Admitted' \subseteq Admitted \cup {p}
      BY <2>2 DEF Admitted
    <3> QED BY <2>3, <2>4, <3>1, <3>2, QuotaUsed
  <2>6. CASE call[r].body \notin Scheduling
    <3>1. Admitted' \subseteq Admitted
      BY <2>2, <2>6 DEF Admitted, Consuming
    <3> QED BY <2>3, <2>4, <3>1, QuotaKept
  <2> QED BY <2>5, <2>6
<1>5. ASSUME NEW r \in Requests, StampGate(r) PROVE QuotaInv'
  <2>1. Passed' = Passed \ {r}
    <3>1. [call[r] EXCEPT !.at = "stamped"].at = "stamped"
      BY <1>0 DEF Call
    <3>2. call' = [call EXCEPT ![r] = [call[r] EXCEPT !.at = "stamped"]]
      BY <1>5 DEF StampGate
    <3> QED BY <1>m, <3>1, <3>2
  <2>2. CASE row' = row
    BY <1>r, <2>1, <2>2, QuotaKept
  <2>3. CASE row' = [row EXCEPT ![call[r].post].recent =
                                   row[call[r].post].status \in Consuming]
    <3> DEFINE p == call[r].post
    <3>1. p \in Posts
      BY <1>5 DEF StampGate, TypeInv, CallSound
    <3>2. /\ row'[p].status = row[p].status /\ row'[p].admitted = row[p].admitted
          /\ row'[p].recent <=> row[p].status \in Consuming
          /\ \A q \in Posts : q # p => row'[q] = row[q]
      BY <1>0, <2>3, <3>1 DEF Row
    <3> HIDE DEF p
    <3>3. AdmittedRecent' /\ Admitted' \subseteq Admitted
      <4>1. PICK o \in Posts : o = p
        BY <3>1
      <4>2. /\ row'[o].status = row[o].status /\ row'[o].admitted = row[o].admitted
            /\ row'[o].recent <=> row[o].status \in Consuming
            /\ \A q \in Posts : q # o => row'[q] = row[q]
        BY <3>2, <4>1
      <4> QED BY <1>0, <4>2 DEF AdmittedRecent, Admitted
    <3> QED BY <2>1, <3>3, QuotaKept
  <2> QED BY <1>5, <2>2, <2>3 DEF StampGate
<1>6. ASSUME NEW r \in Requests, NEW p \in Posts, ScheduleCheck(r, p) PROVE QuotaInv'
  BY <1>6, QuotaChecked DEF ScheduleCheck
<1>7. ASSUME NEW r \in Requests, NEW p \in Posts, CancelList(r, p) PROVE QuotaInv'
  <2>1. [NoCall EXCEPT !.at = "cancel", !.post = p].at = "cancel"
    BY DEF NoCall
  <2>2. Passed' = Passed \ {r}
    BY <1>7, <1>m, <2>1 DEF CancelList
  <2> QED BY <1>7, <1>r, <2>2, QuotaKept DEF CancelList
<1>8. ASSUME NEW r \in Requests, ScheduleSave(r) \/ CancelSave(r) PROVE QuotaInv'
  <2>1. PICK p \in Posts : p = call[r].post
    BY <1>8 DEF ScheduleSave, CancelSave, TypeInv, CallSound
  <2>2. Passed' = Passed \ {r}
    BY <1>8, <1>d DEF ScheduleSave, CancelSave
  <2>3. /\ row'[p].admitted = row'[p].recent
        /\ \A q \in Posts \ {p} : row'[q] = row[q]
    <3>1. ASSUME NEW st, NEW v \in BOOLEAN,
                 row' = [row EXCEPT ![p] =
                           [row[p] EXCEPT !.status = st, !.recent = v, !.admitted = v]]
          PROVE  /\ row'[p].admitted = row'[p].recent
                 /\ \A q \in Posts \ {p} : row'[q] = row[q]
      BY <1>0, <3>1 DEF Row
    <3>2. CASE ScheduleSave(r)
      BY <2>1, <3>1, <3>2 DEF ScheduleSave
    <3>3. CASE CancelSave(r)
      BY <2>1, <3>1, <3>3 DEF CancelSave
    <3> QED BY <1>8, <3>2, <3>3
  <2>4. AdmittedRecent'
    BY <1>0, <2>3 DEF AdmittedRecent
  <2>5. Admitted' \subseteq Admitted \cup {p}
    BY <2>3 DEF Admitted
  <2>6. CASE ScheduleSave(r)
    <3>1. r \in Passed
      BY <2>6 DEF ScheduleSave, Passed
    <3> QED BY <2>2, <2>4, <2>5, <3>1, QuotaUsed
  <2>7. CASE CancelSave(r)
    <3>1. row'[p].status = "draft"
      BY <1>0, <2>1, <2>7 DEF CancelSave, Row
    <3>2. Admitted' \subseteq Admitted
      BY <2>3, <3>1 DEF Admitted, Consuming
    <3> QED BY <2>2, <2>4, <3>2, QuotaKept
  <2> QED BY <1>8, <2>6, <2>7
<1>9. ASSUME NEW p \in Posts, EngineTakes(p) \/ AdmissionAges(p) \/ UpdateAges(p)
      PROVE  QuotaInv'
  <2>1. UNCHANGED call /\ \A q \in Posts \ {p} : row'[q] = row[q]
    BY <1>0, <1>9 DEF EngineTakes, AdmissionAges, UpdateAges
  <2>2. CASE EngineTakes(p)
    <3>1. /\ row'[p].recent /\ row'[p].admitted = row[p].admitted
          /\ row[p].status \in Consuming
      BY <1>0, <2>2 DEF EngineTakes, Row, Consuming
    <3>2. AdmittedRecent' /\ Admitted' \subseteq Admitted
      BY <1>0, <2>1, <3>1 DEF AdmittedRecent, Admitted
    <3> QED BY <1>c, <2>1, <3>2, QuotaKept
  <2>3. CASE AdmissionAges(p) \/ UpdateAges(p)
    <3>1. ~row'[p].admitted
      BY <1>0, <2>3 DEF AdmissionAges, UpdateAges, Row
    <3>2. AdmittedRecent' /\ Admitted' \subseteq Admitted
      BY <1>0, <2>1, <3>1 DEF AdmittedRecent, Admitted
    <3> QED BY <1>c, <2>1, <3>2, QuotaKept
  <2> QED BY <1>9, <2>2, <2>3
<1>10. ASSUME NEW k \in Keys, RecordAges(k) \/ Sweep(k) PROVE QuotaInv'
  BY <1>10, <1>r, <1>c, QuotaKept DEF RecordAges, Sweep
<1>11. CASE UNCHANGED vars
  BY <1>11, <1>r, <1>c, QuotaKept DEF vars
<1> QED BY <1>1, <1>2, <1>3, <1>4, <1>5, <1>6, <1>7, <1>8, <1>9, <1>10, <1>11
        DEF Next, CreateStep

\* The count takes no lock, yet the day's quota is exceeded by no more than the
\* calls that can have counted together.
THEOREM BoundedOvershoot == Spec => []QuotaOvershoot
<1>1. Init => QuotaInv
  <2> SUFFICES ASSUME Init PROVE QuotaInv
    OBVIOUS
  <2>1. Admitted = {} /\ Passed = {} /\ AdmittedRecent
    BY DEF Init, Admitted, Passed, AdmittedRecent, NoRow, NoCall
  <2> QED BY <2>1, FS_EmptySet, QuotaSets DEF QuotaInv
<1>2. QuotaInv => QuotaOvershoot
  BY QuotaSets DEF QuotaInv, QuotaOvershoot, Admitted
<1> QED BY <1>1, <1>2, QuotaStep, Typed, PTL DEF Spec
=============================================================================
