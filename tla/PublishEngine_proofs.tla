------------------------- MODULE PublishEngine_proofs -------------------------
(***************************************************************************)
(* Theorems about the publish cycle and the lock it runs under, for any    *)
(* rows, cycles, users, captions, requests, crashes and lock invocations.  *)
(*   1. whoever overlaps: types, and the submission budget of a row        *)
(*   2. overlapping cycles, while nobody moves a row by hand: exclusion,   *)
(*      one live post, no orphan, honest statuses, bounded attempts;       *)
(*      whoever moves rows: the gate is passed only by a race              *)
(*   3. the Redis lock: the holder owns the key, mutual exclusion, and the *)
(*      exclusive section that the lock implements and the ticks rely on   *)
(***************************************************************************)
EXTENDS PublishEngine, RedisLock, FiniteSetTheorems, SequenceTheorems, TLAPS

\* TypeOK without the history variables; a PATCH in progress carries a caption.
Typed ==
    /\ row \in [Posts -> Row]
    /\ text \in [Posts -> Texts]
    /\ due \subseteq Posts
    /\ remote \in [Posts -> Seq(Submission)]
    /\ lock \in Ticks \cup {None}
    /\ phase \in [Cycles -> {"off", "fresh", "retry"}]
    /\ at \in [Cycles -> [Posts -> Stages]]
    /\ copy \in [Cycles -> [Posts -> Copy]]
    /\ recon \in [Posts -> Nat]
    /\ req \in [Users -> Request]
    /\ requests \in Nat
    /\ crashes \in Nat
    /\ \A u \in Users : req[u].op = "patch" => req[u].text \in Texts

\* Every submission id that is stored, copied or listed anywhere names a
\* submission the platform accepted.
IdsKnown ==
    \A p \in Posts :
        /\ row[p].sub <= Len(remote[p])
        /\ recon[p] <= Len(remote[p])
        /\ \A c \in Cycles : copy[c][p].row.sub <= Len(remote[p])
        /\ \A u \in Users : req[u].seen[p].sub <= Len(remote[p])

-----------------------------------------------------------------------------
(* Records *)

LEMMA BlankRowTyped == BlankRow \in Row /\ BlankRow.sub = 0
BY DEF BlankRow, Row, Statuses

LEMMA NoCopyTyped == NoCopy \in Copy /\ NoCopy.row.sub = 0
BY BlankRowTyped DEF NoCopy, Copy

LEMMA NoRequestTyped == NoRequest \in Request /\ \A p \in Posts : NoRequest.seen[p].sub = 0
BY BlankRowTyped DEF NoRequest, Request, Statuses

\* What the engine and the requests save is a row with the submission id it had.
LEMMA SavedRowTyped ==
    ASSUME NEW r \in Row
    PROVE  /\ \A s \in Statuses : /\ [r EXCEPT !.status = s] \in Row
                                  /\ [r EXCEPT !.status = s].sub = r.sub
           /\ AfterFailure(r) \in Row /\ AfterFailure(r).sub = r.sub
           /\ [r EXCEPT !.bypass = TRUE] \in Row /\ [r EXCEPT !.bypass = TRUE].sub = r.sub
           /\ [r EXCEPT !.wait = "over"] \in Row /\ [r EXCEPT !.wait = "over"].sub = r.sub
           /\ [r EXCEPT !.gate = None, !.hash = None] \in Row
           /\ [r EXCEPT !.gate = None, !.hash = None].sub = r.sub
<1>1. \A s \in Statuses : [r EXCEPT !.status = s] \in Row /\ [r EXCEPT !.status = s].sub = r.sub
  BY DEF Row
<1>2. AfterFailure(r) \in Row /\ AfterFailure(r).sub = r.sub
  <2>1. CASE r.retry >= MaxRetries
    BY <1>1, <2>1 DEF AfterFailure, Statuses
  <2>2. CASE ~(r.retry >= MaxRetries)
    <3> DEFINE again == [r EXCEPT !.status = "scheduled", !.retry = @ + 1, !.wait = "ahead"]
    <3> HIDE DEF again
    <3>1. again \in Row /\ again.sub = r.sub
      <4>1. "scheduled" \in Statuses /\ "ahead" \in {"none", "ahead", "over"}
        BY DEF Statuses
      <4>2. r.retry \in Nat /\ r.retry + 1 \in Nat
        BY DEF Row
      <4>3. \A n \in Nat : [r EXCEPT !.status = "scheduled", !.retry = n, !.wait = "ahead"] \in Row
        BY <4>1 DEF Row
      <4>4. \A n \in Nat : [r EXCEPT !.status = "scheduled", !.retry = n, !.wait = "ahead"].sub = r.sub
        BY DEF Row
      <4> QED BY <4>2, <4>3, <4>4 DEF again
    <3> QED BY <2>2, <3>1 DEF AfterFailure, again
  <2> QED BY <2>1, <2>2
<1> QED BY <1>1, <1>2 DEF Row

LEMMA SubSetTyped ==
    ASSUME NEW r \in Row, NEW n \in Nat
    PROVE  [r EXCEPT !.sub = n] \in Row /\ [r EXCEPT !.sub = n].sub = n
BY DEF Row

LEMMA CopyTyped ==
    ASSUME NEW r \in Row, NEW t \in Texts
    PROVE  [row |-> r, text |-> t] \in Copy
BY DEF Copy

LEMMA StatusesInUse ==
    {"draft", "scheduled", "publishing", "published", "failed", "pending_client"} \subseteq Statuses
BY DEF Statuses

-----------------------------------------------------------------------------
(* Types *)

\* One step of a worker on a row: what it saves, keeps and submits.
LEMMA StepTyped ==
    ASSUME Typed, IdsKnown, NEW c \in Cycles, NEW p \in Posts,
           NEW r \in Row, NEW k \in Copy, NEW stage \in Stages,
           row' = [row EXCEPT ![p] = r],
           copy' = [copy EXCEPT ![c][p] = k],
           at' = [at EXCEPT ![c][p] = stage],
           remote' \in [Posts -> Seq(Submission)],
           \A q \in Posts : Len(remote[q]) <= Len(remote'[q]),
           r.sub <= Len(remote'[p]), k.row.sub <= Len(remote'[p]),
           UNCHANGED <<text, due, lock, phase, recon, crashes, peopleVars>>
    PROVE  Typed' /\ IdsKnown'
<1> USE DEF Typed, IdsKnown, peopleVars
<1>1. /\ row' \in [Posts -> Row]
      /\ \A q \in Posts : row'[q] = IF q = p THEN r ELSE row[q]
  OBVIOUS
<1>2. /\ copy' \in [Cycles -> [Posts -> Copy]]
      /\ \A d \in Cycles, q \in Posts :
            copy'[d][q] = IF d = c /\ q = p THEN k ELSE copy[d][q]
  OBVIOUS
<1>3. at' \in [Cycles -> [Posts -> Stages]]
  OBVIOUS
<1>4. Typed'
  BY <1>1, <1>2, <1>3
<1>5. ASSUME NEW q \in Posts
      PROVE  /\ row'[q].sub <= Len(remote'[q])
             /\ recon'[q] <= Len(remote'[q])
             /\ \A d \in Cycles : copy'[d][q].row.sub <= Len(remote'[q])
             /\ \A u \in Users : req'[u].seen[q].sub <= Len(remote'[q])
  <2>1. Len(remote[q]) \in Nat /\ Len(remote'[q]) \in Nat /\ Len(remote[q]) <= Len(remote'[q])
    BY LenProperties
  <2>2. row[q].sub \in Nat /\ recon[q] \in Nat
    BY DEF Row
  <2>3. \A d \in Cycles : copy[d][q].row.sub \in Nat
    BY DEF Copy, Row
  <2>4. \A u \in Users : req[u].seen[q].sub \in Nat
    BY DEF Request, Row
  <2>5. r.sub \in Nat /\ k.row.sub \in Nat
    BY DEF Copy, Row
  <2> QED BY <1>1, <1>2, <2>1, <2>2, <2>3, <2>4, <2>5
<1> QED BY <1>4, <1>5

\* What the worker of c may rely on, and save, while it is on row p.
InHand(c, p) ==
    LET mine == copy[c][p].row
    IN /\ row[p] \in Row /\ row[p].sub <= Len(remote[p])
       /\ copy[c][p] \in Copy
       /\ mine \in Row /\ mine.sub <= Len(remote[p])
       /\ copy[c][p].text \in Texts \cup {None}
       /\ remote[p] \in Seq(Submission) /\ Len(remote[p]) \in Nat
       /\ \A r \in Row : /\ [copy[c][p] EXCEPT !.row = r] \in Copy
                         /\ [copy[c][p] EXCEPT !.row = r].row = r
       /\ NoCopy \in Copy /\ NoCopy.row.sub <= Len(remote[p])
       /\ \A s \in Statuses : /\ [row[p] EXCEPT !.status = s] \in Row
                              /\ [row[p] EXCEPT !.status = s].sub = row[p].sub
                              /\ [mine EXCEPT !.status = s] \in Row
                              /\ [mine EXCEPT !.status = s].sub = mine.sub
       /\ AfterFailure(mine) \in Row /\ AfterFailure(mine).sub = mine.sub

LEMMA HeldTyped ==
    ASSUME Typed, IdsKnown, NEW c \in Cycles, NEW p \in Posts
    PROVE  InHand(c, p)
<1>1. row[p] \in Row /\ copy[c][p] \in Copy /\ remote[p] \in Seq(Submission)
  BY DEF Typed
<1>2. Len(remote[p]) \in Nat
  BY <1>1, LenProperties
<1>3. /\ copy[c][p].row \in Row /\ copy[c][p].text \in Texts \cup {None}
      /\ \A r \in Row : /\ [copy[c][p] EXCEPT !.row = r] \in Copy
                        /\ [copy[c][p] EXCEPT !.row = r].row = r
  BY <1>1 DEF Copy
<1>4. row[p].sub <= Len(remote[p]) /\ copy[c][p].row.sub <= Len(remote[p])
  BY DEF IdsKnown
<1>5. /\ \A s \in Statuses : /\ [row[p] EXCEPT !.status = s] \in Row
                             /\ [row[p] EXCEPT !.status = s].sub = row[p].sub
                             /\ [copy[c][p].row EXCEPT !.status = s] \in Row
                             /\ [copy[c][p].row EXCEPT !.status = s].sub = copy[c][p].row.sub
      /\ AfterFailure(copy[c][p].row) \in Row
      /\ AfterFailure(copy[c][p].row).sub = copy[c][p].row.sub
  BY <1>1, <1>3, SavedRowTyped
<1> QED BY <1>1, <1>2, <1>3, <1>4, <1>5, NoCopyTyped DEF InHand

LEMMA SubmitTyped ==
    ASSUME Typed, IdsKnown, NEW c \in Cycles, NEW p \in Posts,
           NEW state \in {"pending", "published", "failed"}, Submit(c, p, state)
    PROVE  /\ remote' \in [Posts -> Seq(Submission)]
           /\ \A q \in Posts : Len(remote'[q]) = IF q = p THEN Len(remote[p]) + 1
                                                 ELSE Len(remote[q])
           /\ \A q \in Posts : Len(remote[q]) <= Len(remote'[q])
<1> DEFINE new == [text |-> copy[c][p].text, state |-> state,
                   gated |-> ~copy[c][p].row.bypass]
<1>1. new \in Submission
  BY HeldTyped DEF InHand, Submission
<1>2. remote' = [remote EXCEPT ![p] = Append(remote[p], new)]
  BY DEF Submit
<1> HIDE DEF new
<1>3. \A q \in Posts : remote[q] \in Seq(Submission) /\ Len(remote[q]) \in Nat
  BY LenProperties DEF Typed
<1>4. Append(remote[p], new) \in Seq(Submission) /\ Len(Append(remote[p], new)) = Len(remote[p]) + 1
  BY <1>1, <1>3, AppendProperties
<1> QED BY <1>2, <1>3, <1>4 DEF Typed

LEMMA CycleTyped ==
    ASSUME Typed, IdsKnown, NEW c \in Cycles,
           BeginCycle(c) \/ StartRetries(c) \/ EndCycle(c) \/ Crash(c) \/ LockExpires(c)
    PROVE  Typed' /\ IdsKnown'
<1> USE DEF Typed, IdsKnown, engineVars, peopleVars, Cycles, Stages
<1>1. CASE BeginCycle(c)
  BY <1>1 DEF BeginCycle
<1>2. CASE StartRetries(c)
  BY <1>2, NoCopyTyped, CopyTyped DEF StartRetries
<1>3. CASE EndCycle(c)
  BY <1>3 DEF EndCycle
<1>4. CASE Crash(c)
  BY <1>4, NoCopyTyped DEF Crash
<1>5. CASE LockExpires(c)
  BY <1>5 DEF LockExpires
<1> QED BY <1>1, <1>2, <1>3, <1>4, <1>5

LEMMA SaveTyped ==
    ASSUME Typed, IdsKnown, NEW c \in Cycles, NEW p \in Posts,
           \/ ClaimRetry(c, p)
           \/ SkipRetry(c, p)
           \/ Block(c, p)
           \/ LogPublished(c, p)
           \/ LogFails(c, p)
           \/ RecordPublished(c, p)
           \/ RecordFailure(c, p)
           \/ BlockUnlogged(c, p)
           \/ FailureUnlogged(c, p)
    PROVE  Typed' /\ IdsKnown'
<1>1. /\ remote \in [Posts -> Seq(Submission)]
      /\ row = [row EXCEPT ![p] = row[p]]
      /\ copy = [copy EXCEPT ![c][p] = copy[c][p]]
      /\ \A q \in Posts : Len(remote[q]) <= Len(remote[q])
  BY HeldTyped DEF Typed
<1>2. InHand(c, p)
  BY HeldTyped
<1>3. CASE ClaimRetry(c, p)
  <2> DEFINE r == [row[p] EXCEPT !.status = "publishing"]
             k == [copy[c][p] EXCEPT !.row = [copy[c][p].row EXCEPT !.status = "publishing"]]
  <2>1. r \in Row /\ r.sub <= Len(remote[p]) /\ k \in Copy /\ k.row.sub <= Len(remote[p])
    BY <1>2, StatusesInUse DEF InHand
  <2>2. /\ row' = [row EXCEPT ![p] = r]
        /\ copy' = [copy EXCEPT ![c][p] = k]
        /\ at' = [at EXCEPT ![c][p] = "claimed"]
        /\ UNCHANGED <<remote, text, due, lock, phase, recon, crashes, peopleVars>>
    BY <1>1, <1>3 DEF ClaimRetry, RetryTurn
  <2> HIDE DEF r, k
  <2> QED BY <1>1, <2>1, <2>2, StepTyped DEF Stages
<1>4. CASE SkipRetry(c, p)
  <2> DEFINE r == row[p]
             k == NoCopy
  <2>1. r \in Row /\ r.sub <= Len(remote[p]) /\ k \in Copy /\ k.row.sub <= Len(remote[p])
    BY <1>2, StatusesInUse DEF InHand
  <2>2. /\ row' = [row EXCEPT ![p] = r]
        /\ copy' = [copy EXCEPT ![c][p] = k]
        /\ at' = [at EXCEPT ![c][p] = "idle"]
        /\ UNCHANGED <<remote, text, due, lock, phase, recon, crashes, peopleVars>>
    BY <1>1, <1>4 DEF SkipRetry, Finish
  <2> HIDE DEF r, k
  <2> QED BY <1>1, <2>1, <2>2, StepTyped DEF Stages
<1>5. CASE Block(c, p)
  <2> DEFINE r == [row[p] EXCEPT !.status = "failed"]
             k == NoCopy
  <2>1. r \in Row /\ r.sub <= Len(remote[p]) /\ k \in Copy /\ k.row.sub <= Len(remote[p])
    BY <1>2, StatusesInUse DEF InHand
  <2>2. /\ row' = [row EXCEPT ![p] = r]
        /\ copy' = [copy EXCEPT ![c][p] = k]
        /\ at' = [at EXCEPT ![c][p] = "idle"]
        /\ UNCHANGED <<remote, text, due, lock, phase, recon, crashes, peopleVars>>
    BY <1>1, <1>5 DEF Block, Refused, Finish
  <2> HIDE DEF r, k
  <2> QED BY <1>1, <2>1, <2>2, StepTyped DEF Stages
<1>6. CASE LogPublished(c, p)
  <2> DEFINE r == row[p]
             k == NoCopy
  <2>1. r \in Row /\ r.sub <= Len(remote[p]) /\ k \in Copy /\ k.row.sub <= Len(remote[p])
    BY <1>2, StatusesInUse DEF InHand
  <2>2. /\ row' = [row EXCEPT ![p] = r]
        /\ copy' = [copy EXCEPT ![c][p] = k]
        /\ at' = [at EXCEPT ![c][p] = "idle"]
        /\ UNCHANGED <<remote, text, due, lock, phase, recon, crashes, peopleVars>>
    BY <1>1, <1>6 DEF LogPublished, Finish
  <2> HIDE DEF r, k
  <2> QED BY <1>1, <2>1, <2>2, StepTyped DEF Stages
<1>7. CASE LogFails(c, p)
  <2> DEFINE r == AfterFailure(copy[c][p].row)
             k == NoCopy
  <2>1. r \in Row /\ r.sub <= Len(remote[p]) /\ k \in Copy /\ k.row.sub <= Len(remote[p])
    BY <1>2, StatusesInUse DEF InHand
  <2>2. /\ row' = [row EXCEPT ![p] = r]
        /\ copy' = [copy EXCEPT ![c][p] = k]
        /\ at' = [at EXCEPT ![c][p] = "idle"]
        /\ UNCHANGED <<remote, text, due, lock, phase, recon, crashes, peopleVars>>
    BY <1>1, <1>7 DEF LogFails, Finish
  <2> HIDE DEF r, k
  <2> QED BY <1>1, <2>1, <2>2, StepTyped DEF Stages
<1>8. CASE RecordPublished(c, p)
  <2> DEFINE r == [copy[c][p].row EXCEPT !.status = "published"]
             k == copy[c][p]
  <2>1. r \in Row /\ r.sub <= Len(remote[p]) /\ k \in Copy /\ k.row.sub <= Len(remote[p])
    BY <1>2, StatusesInUse DEF InHand
  <2>2. /\ row' = [row EXCEPT ![p] = r]
        /\ copy' = [copy EXCEPT ![c][p] = k]
        /\ at' = [at EXCEPT ![c][p] = "recorded"]
        /\ UNCHANGED <<remote, text, due, lock, phase, recon, crashes, peopleVars>>
    BY <1>1, <1>8 DEF RecordPublished
  <2> HIDE DEF r, k
  <2> QED BY <1>1, <2>1, <2>2, StepTyped DEF Stages
<1>9. CASE RecordFailure(c, p)
  <2> DEFINE r == AfterFailure(copy[c][p].row)
             k == NoCopy
  <2>1. r \in Row /\ r.sub <= Len(remote[p]) /\ k \in Copy /\ k.row.sub <= Len(remote[p])
    BY <1>2, StatusesInUse DEF InHand
  <2>2. /\ row' = [row EXCEPT ![p] = r]
        /\ copy' = [copy EXCEPT ![c][p] = k]
        /\ at' = [at EXCEPT ![c][p] = "idle"]
        /\ UNCHANGED <<remote, text, due, lock, phase, recon, crashes, peopleVars>>
    BY <1>1, <1>9 DEF RecordFailure, Finish
  <2> HIDE DEF r, k
  <2> QED BY <1>1, <2>1, <2>2, StepTyped DEF Stages
<1>10. CASE BlockUnlogged(c, p)
  <2> DEFINE r == [row[p] EXCEPT !.status = "failed"]
             k == [copy[c][p] EXCEPT !.row = [copy[c][p].row EXCEPT !.status = "failed"]]
  <2>1. r \in Row /\ r.sub <= Len(remote[p]) /\ k \in Copy /\ k.row.sub <= Len(remote[p])
    BY <1>2, StatusesInUse DEF InHand
  <2>2. /\ row' = [row EXCEPT ![p] = r]
        /\ copy' = [copy EXCEPT ![c][p] = k]
        /\ at' = [at EXCEPT ![c][p] = "failed"]
        /\ UNCHANGED <<remote, text, due, lock, phase, recon, crashes, peopleVars>>
    BY <1>1, <1>10 DEF BlockUnlogged
  <2> HIDE DEF r, k
  <2> QED BY <1>1, <2>1, <2>2, StepTyped DEF Stages
<1>11. CASE FailureUnlogged(c, p)
  <2> DEFINE r == row[p]
             k == NoCopy
  <2>1. r \in Row /\ r.sub <= Len(remote[p]) /\ k \in Copy /\ k.row.sub <= Len(remote[p])
    BY <1>2, StatusesInUse DEF InHand
  <2>2. /\ row' = [row EXCEPT ![p] = r]
        /\ copy' = [copy EXCEPT ![c][p] = k]
        /\ at' = [at EXCEPT ![c][p] = "idle"]
        /\ UNCHANGED <<remote, text, due, lock, phase, recon, crashes, peopleVars>>
    BY <1>1, <1>11 DEF FailureUnlogged, Finish
  <2> HIDE DEF r, k
  <2> QED BY <1>1, <2>1, <2>2, StepTyped DEF Stages
<1> QED BY <1>3, <1>4, <1>5, <1>6, <1>7, <1>8, <1>9, <1>10, <1>11

\* Calls of the provider, and what is kept of their answers.
LEMMA CallTyped ==
    ASSUME Typed, IdsKnown, NEW c \in Cycles, NEW p \in Posts,
           \/ HoldForPrincipal(c, p)  \/ ProviderPublishes(c, p) \/ ProviderParks(c, p)
           \/ ProviderRefuses(c, p)   \/ AnswerLost(c, p)        \/ RecordParked(c, p)
    PROVE  Typed' /\ IdsKnown'
<1>1. /\ remote \in [Posts -> Seq(Submission)]
      /\ row = [row EXCEPT ![p] = row[p]]
      /\ copy = [copy EXCEPT ![c][p] = copy[c][p]]
      /\ \A q \in Posts : Len(remote[q]) <= Len(remote[q])
  BY HeldTyped DEF Typed
<1>2. InHand(c, p)
  BY HeldTyped
<1> copy[c][p] \in Copy /\ copy[c][p].row \in Row /\ row[p] \in Row /\ Len(remote[p]) \in Nat
  BY <1>2 DEF InHand
<1>3. ASSUME NEW r \in Row, r.sub <= Len(remote[p]),
             NEW k \in Copy, k.row.sub <= Len(remote[p]),
             NEW stage \in Stages,
             /\ row' = [row EXCEPT ![p] = r]
             /\ copy' = [copy EXCEPT ![c][p] = k]
             /\ at' = [at EXCEPT ![c][p] = stage]
             /\ UNCHANGED <<remote, text, due, lock, phase, recon, crashes, peopleVars>>
      PROVE  Typed' /\ IdsKnown'
  BY <1>1, <1>3, StepTyped
<1>4. CASE HoldForPrincipal(c, p)
  <2> DEFINE held == CanTransition(copy[c][p].row.status, "pending_client")
             r == IF held THEN [row[p] EXCEPT !.status = "pending_client"] ELSE row[p]
             k == IF held THEN [copy[c][p] EXCEPT
                                  !.row = [copy[c][p].row EXCEPT !.status = "pending_client"]]
                          ELSE copy[c][p]
  <2>1. r \in Row /\ r.sub <= Len(remote[p]) /\ k \in Copy /\ k.row.sub <= Len(remote[p])
    BY <1>2, StatusesInUse DEF InHand
  <2>2. /\ row' = [row EXCEPT ![p] = r]
        /\ copy' = [copy EXCEPT ![c][p] = k]
        /\ at' = [at EXCEPT ![c][p] = "failed"]
        /\ UNCHANGED <<remote, text, due, lock, phase, recon, crashes, peopleVars>>
    BY <1>1, <1>4 DEF HoldForPrincipal
  <2> HIDE DEF r, k
  <2> QED BY <1>3, <2>1, <2>2 DEF Stages
<1>5. CASE RecordParked(c, p)
  <2> DEFINE r == [[row[p] EXCEPT !.status = "publishing"] EXCEPT !.sub = copy[c][p].row.sub]
  <2>1. r \in Row /\ r.sub <= Len(remote[p])
    <3>1. [row[p] EXCEPT !.status = "publishing"] \in Row
      BY StatusesInUse, SavedRowTyped
    <3>2. copy[c][p].row.sub \in Nat
      BY DEF Row
    <3>3. copy[c][p].row.sub <= Len(remote[p])
      BY <1>2 DEF InHand
    <3> QED BY <3>1, <3>2, <3>3, SubSetTyped
  <2>2. /\ row' = [row EXCEPT ![p] = r]
        /\ copy' = [copy EXCEPT ![c][p] = NoCopy]
        /\ at' = [at EXCEPT ![c][p] = "idle"]
        /\ UNCHANGED <<remote, text, due, lock, phase, recon, crashes, peopleVars>>
    BY <1>5 DEF RecordParked, Finish
  <2> HIDE DEF r
  <2> QED BY <1>2, <1>3, <2>1, <2>2 DEF InHand, Stages
<1>6. ASSUME NEW stage \in {"accepted", "parked"},
             NEW state \in {"pending", "published", "failed"}, Submit(c, p, state),
             at' = [at EXCEPT ![c][p] = stage],
             NEW id \in {0, Len(remote[p]) + 1},
             copy' = [copy EXCEPT ![c][p].row.sub = id],
             UNCHANGED <<row, text, due, lock, phase, recon, crashes, peopleVars>>
      PROVE  Typed' /\ IdsKnown'
  <2> DEFINE mine == [copy[c][p].row EXCEPT !.sub = id]
             k == [copy[c][p] EXCEPT !.row = mine]
  <2>1. /\ remote' \in [Posts -> Seq(Submission)]
        /\ Len(remote'[p]) = Len(remote[p]) + 1
        /\ \A q \in Posts : Len(remote[q]) <= Len(remote'[q])
    BY <1>6, SubmitTyped
  <2>2. mine \in Row /\ mine.sub = id /\ id \in Nat /\ id <= Len(remote[p]) + 1
    <3>1. \A n \in Nat : /\ [copy[c][p].row EXCEPT !.sub = n] \in Row
                         /\ [copy[c][p].row EXCEPT !.sub = n].sub = n
      BY SubSetTyped
    <3>2. id \in Nat /\ id <= Len(remote[p]) + 1
      OBVIOUS
    <3> QED BY <3>1, <3>2
  <2>3. copy' = [copy EXCEPT ![c][p] = k]
    BY <1>6
  <2> HIDE DEF mine
  <2>4. k \in Copy /\ k.row.sub <= Len(remote'[p])
    BY <1>2, <2>1, <2>2 DEF InHand
  <2> DEFINE r == row[p]
  <2>5. r \in Row /\ r.sub <= Len(remote'[p])
    BY <1>2, <2>1 DEF InHand, Row
  <2>6. row' = [row EXCEPT ![p] = r]
    BY <1>1, <1>6
  <2> HIDE DEF k, r
  <2>7. /\ stage \in Stages /\ at' = [at EXCEPT ![c][p] = stage]
        /\ UNCHANGED <<text, due, lock, phase, recon, crashes, peopleVars>>
    BY <1>6 DEF Stages
  <2> QED BY <2>1, <2>3, <2>4, <2>5, <2>6, <2>7, StepTyped
<1>7. CASE ProviderPublishes(c, p)
  <2>1. PICK id \in {0} \cup {Len(remote[q]) + 1 : q \in {p} \cap Blotato} :
           copy' = [copy EXCEPT ![c][p].row.sub = id]
    BY <1>7 DEF ProviderPublishes
  <2>2. id \in {0, Len(remote[p]) + 1}
    BY <2>1
  <2> QED BY <1>6, <1>7, <2>1, <2>2 DEF ProviderPublishes
<1>8. CASE ProviderParks(c, p)
  BY <1>6, <1>8 DEF ProviderParks
<1>9. ASSUME NEW state \in {"pending", "published", "failed"}, Submit(c, p, state),
             /\ at' = [at EXCEPT ![c][p] = "failed"]
             /\ UNCHANGED <<row, text, due, lock, phase, copy, recon, crashes, peopleVars>>
      PROVE  Typed' /\ IdsKnown'
  <2>1. /\ remote' \in [Posts -> Seq(Submission)]
        /\ Len(remote'[p]) = Len(remote[p]) + 1
        /\ \A q \in Posts : Len(remote[q]) <= Len(remote'[q])
    BY <1>9, SubmitTyped
  <2> DEFINE r == row[p]
             k == copy[c][p]
  <2>2. r \in Row /\ r.sub <= Len(remote'[p]) /\ k \in Copy /\ k.row.sub <= Len(remote'[p])
    BY <1>2, <2>1 DEF InHand, Row
  <2>3. row' = [row EXCEPT ![p] = r] /\ copy' = [copy EXCEPT ![c][p] = k]
    BY <1>1, <1>9
  <2> HIDE DEF r, k
  <2> QED BY <1>9, <2>1, <2>2, <2>3, StepTyped DEF Stages
<1>10. CASE AnswerLost(c, p)
  BY <1>9, <1>10 DEF AnswerLost
<1>11. CASE ProviderRefuses(c, p)
  <2>1. CASE Submit(c, p, "failed")
    BY <1>9, <1>11, <2>1 DEF ProviderRefuses
  <2>2. CASE UNCHANGED remote
    <3>1. /\ row' = [row EXCEPT ![p] = row[p]]
          /\ copy' = [copy EXCEPT ![c][p] = copy[c][p]]
          /\ at' = [at EXCEPT ![c][p] = "failed"]
          /\ UNCHANGED <<remote, text, due, lock, phase, recon, crashes, peopleVars>>
      BY <1>1, <1>11, <2>2 DEF ProviderRefuses
    <3> QED BY <1>2, <1>3, <3>1 DEF InHand, Stages
  <2> QED BY <1>11, <2>1, <2>2 DEF ProviderRefuses
<1> QED BY <1>4, <1>5, <1>7, <1>8, <1>10, <1>11

\* The transaction of a group saves and copies rows as it read them.
LEMMA ClaimTyped ==
    ASSUME Typed, IdsKnown, NEW c \in Cycles, NEW G \in Groups, ClaimGroup(c, G)
    PROVE  Typed' /\ IdsKnown'
<1>1. PICK claimed \in SUBSET Posts, gone \in SUBSET Posts, locked \in SUBSET Posts :
         /\ row' = [p \in Posts |->
               IF p \in claimed THEN [row[p] EXCEPT !.status = "publishing"]
               ELSE IF p \in locked THEN [row[p] EXCEPT !.status = "failed"]
               ELSE row[p]]
         /\ at' = [at EXCEPT ![c] = [p \in Posts |->
               IF p \in claimed THEN "claimed" ELSE IF p \in gone THEN "idle" ELSE at[c][p]]]
         /\ copy' = [copy EXCEPT ![c] = [p \in Posts |->
               IF p \in claimed THEN [row |-> row[p], text |-> text[p]] ELSE copy[c][p]]]
         /\ UNCHANGED <<text, due, remote, lock, phase, recon, crashes, peopleVars>>
  <2> DEFINE listed == {p \in G : at[c][p] = "due"}
             locked == {p \in listed : Claimable(p)}
  <2>1. PICK lost \in Unreachable({p \in locked : ~row[p].bypass}) :
          LET claimed == {p \in locked \ lost : GateOk(row[p])}
          IN /\ row' = [p \in Posts |->
                   IF p \in claimed THEN [row[p] EXCEPT !.status = "publishing"]
                   ELSE IF p \in locked THEN [row[p] EXCEPT !.status = "failed"]
                   ELSE row[p]]
             /\ at' = [at EXCEPT ![c] = [p \in Posts |->
                   IF p \in claimed THEN "claimed"
                   ELSE IF p \in listed THEN "idle" ELSE @[p]]]
             /\ copy' = [copy EXCEPT ![c] = [p \in Posts |->
                   IF p \in claimed THEN [row |-> row[p], text |-> text[p]] ELSE @[p]]]
    BY DEF ClaimGroup
  <2> DEFINE claimed == {p \in locked \ lost : GateOk(row[p])}
  <2>2. claimed \in SUBSET Posts /\ listed \in SUBSET Posts /\ locked \in SUBSET Posts
    BY EngineAssumption
  <2>3. UNCHANGED <<text, due, remote, lock, phase, recon, crashes, peopleVars>>
    BY DEF ClaimGroup
  <2>4. /\ row' = [p \in Posts |->
              IF p \in claimed THEN [row[p] EXCEPT !.status = "publishing"]
              ELSE IF p \in locked THEN [row[p] EXCEPT !.status = "failed"]
              ELSE row[p]]
        /\ at' = [at EXCEPT ![c] = [p \in Posts |->
              IF p \in claimed THEN "claimed" ELSE IF p \in listed THEN "idle" ELSE at[c][p]]]
        /\ copy' = [copy EXCEPT ![c] = [p \in Posts |->
              IF p \in claimed THEN [row |-> row[p], text |-> text[p]] ELSE copy[c][p]]]
    BY <2>1
  <2> HIDE DEF claimed, listed, locked
  <2> QED BY <2>2, <2>3, <2>4
<1>2. ASSUME NEW p \in Posts
      PROVE  /\ [row[p] EXCEPT !.status = "publishing"] \in Row
             /\ [row[p] EXCEPT !.status = "publishing"].sub = row[p].sub
             /\ [row[p] EXCEPT !.status = "failed"] \in Row
             /\ [row[p] EXCEPT !.status = "failed"].sub = row[p].sub
             /\ [row |-> row[p], text |-> text[p]] \in Copy
             /\ [row |-> row[p], text |-> text[p]].row = row[p]
  <2>1. row[p] \in Row /\ text[p] \in Texts
    BY DEF Typed
  <2> QED BY <2>1, SavedRowTyped, StatusesInUse, CopyTyped
<1>3. row' \in [Posts -> Row] /\ \A p \in Posts : row'[p].sub = row[p].sub
  BY <1>1, <1>2 DEF Typed
<1>4. at' \in [Cycles -> [Posts -> Stages]]
  BY <1>1 DEF Typed, Stages
<1>5. /\ copy' \in [Cycles -> [Posts -> Copy]]
      /\ \A d \in Cycles, p \in Posts : copy'[d][p].row \in {copy[d][p].row, row[p]}
  BY <1>1, <1>2 DEF Typed
<1>6. Typed'
  BY <1>1, <1>3, <1>4, <1>5 DEF Typed, peopleVars
<1> QED BY <1>1, <1>3, <1>5, <1>6 DEF IdsKnown, peopleVars

\* The passage of time, the platforms and the reconciler.
LEMMA WorldTyped ==
    ASSUME Typed, IdsKnown, NEW p \in Posts,
           \/ ScheduledTimeComes(p) \/ BackoffElapses(p) \/ SubmissionSettles(p)
           \/ ReconcileList(p)      \/ ReconcileSave(p)  \/ ReconcileMisses(p)
    PROVE  Typed' /\ IdsKnown'
<1> USE DEF engineVars, peopleVars
<1>0. /\ row[p] \in Row /\ recon[p] \in Nat /\ row[p].sub \in Nat
      /\ remote[p] \in Seq(Submission)
      /\ row[p].sub <= Len(remote[p]) /\ recon[p] <= Len(remote[p])
  BY DEF Typed, IdsKnown, Row
<1>1. CASE ScheduledTimeComes(p)
  BY <1>1 DEF ScheduledTimeComes, Typed, IdsKnown
<1>2. ASSUME NEW r \in Row, r.sub <= Len(remote[p]), row' = [row EXCEPT ![p] = r],
             NEW n \in Nat, n <= Len(remote[p]), recon' = [recon EXCEPT ![p] = n],
             UNCHANGED <<text, due, remote, engineVars, crashes, peopleVars>>
      PROVE  Typed' /\ IdsKnown'
  <2>1. row' \in [Posts -> Row] /\ \A q \in Posts : row'[q].sub <= Len(remote[q])
    BY <1>2 DEF Typed, IdsKnown
  <2>2. /\ recon' \in [Posts -> Nat]
        /\ \A q \in Posts : recon'[q] = IF q = p THEN n ELSE recon[q]
    BY <1>2 DEF Typed
  <2>3. Typed'
    BY <1>2, <2>1, <2>2 DEF Typed
  <2> QED BY <1>2, <2>1, <2>2, <2>3 DEF IdsKnown
<1>3. row = [row EXCEPT ![p] = row[p]] /\ recon = [recon EXCEPT ![p] = recon[p]]
  BY DEF Typed
<1>4. CASE BackoffElapses(p)
  <2> DEFINE r == [row[p] EXCEPT !.wait = "over"]
  <2>1. r \in Row /\ r.sub = row[p].sub
    BY <1>0, SavedRowTyped
  <2>2. row' = [row EXCEPT ![p] = r] /\ recon' = [recon EXCEPT ![p] = recon[p]]
    BY <1>3, <1>4 DEF BackoffElapses
  <2> HIDE DEF r
  <2> QED BY <1>0, <1>2, <1>4, <2>1, <2>2 DEF BackoffElapses
<1>5. CASE ReconcileList(p)
  BY <1>0, <1>2, <1>3, <1>5 DEF ReconcileList
<1>6. CASE ReconcileSave(p)
  <2> DEFINE told == remote[p][recon[p]].state
             moved == [row[p] EXCEPT !.status = told]
  <2>1. told \in Statuses \cup {"pending"}
    <3>1. recon[p] \in 1..Len(remote[p])
      BY <1>0, <1>6, LenProperties DEF ReconcileSave
    <3>2. remote[p][recon[p]] \in Submission
      BY <1>0, <3>1, ElementOfSeq
    <3> QED BY <3>2, StatusesInUse DEF Submission
  <2>2. PICK r \in {row[p], moved, [moved EXCEPT !.sub = 0]} :
           row' = [row EXCEPT ![p] = r] /\ (r # row[p] => told # "pending")
    BY <1>3, <1>6 DEF ReconcileSave
  <2> HIDE DEF told
  <2>3. r \in Row /\ r.sub <= Len(remote[p])
    <3>1. CASE r = row[p]
      BY <1>0, <3>1
    <3>2. ASSUME r # row[p]
          PROVE  moved \in Row /\ moved.sub = row[p].sub
      BY <1>0, <2>1, <2>2, <3>2, SavedRowTyped
    <3> HIDE DEF moved
    <3>3. CASE r # row[p] /\ r = moved
      BY <1>0, <3>2, <3>3
    <3>4. CASE r # row[p] /\ r = [moved EXCEPT !.sub = 0]
      <4>1. \A n \in Nat : [moved EXCEPT !.sub = n] \in Row /\ [moved EXCEPT !.sub = n].sub = n
        BY <3>2, <3>4, SubSetTyped
      <4>2. r \in Row /\ r.sub = 0
        BY <3>4, <4>1
      <4> QED BY <1>0, <4>2, LenProperties
    <3> QED BY <3>1, <3>3, <3>4
  <2>4. 0 \in Nat /\ 0 <= Len(remote[p])
    BY <1>0, LenProperties
  <2>5. recon' = [recon EXCEPT ![p] = 0]
        /\ UNCHANGED <<text, due, remote, engineVars, crashes, peopleVars>>
    BY <1>6 DEF ReconcileSave
  <2> QED BY <1>2, <2>2, <2>3, <2>4, <2>5
<1>8. CASE ReconcileMisses(p)
  <2>1. 0 \in Nat /\ 0 <= Len(remote[p])
    BY <1>0, LenProperties
  <2> QED BY <1>0, <1>2, <1>3, <1>8, <2>1 DEF ReconcileMisses
<1>7. CASE SubmissionSettles(p)
  <2>1. PICK i \in DOMAIN remote[p], outcome \in {"published", "failed"} :
           /\ remote' = [remote EXCEPT ![p] =
                            [remote[p] EXCEPT ![i] = [remote[p][i] EXCEPT !.state = outcome]]]
           /\ UNCHANGED <<row, text, due, engineVars, recon, crashes, peopleVars>>
    BY <1>7 DEF SubmissionSettles
  <2> DEFINE e == [remote[p][i] EXCEPT !.state = outcome]
  <2>2. i \in 1..Len(remote[p])
    BY <1>0, LenProperties
  <2>3. e \in Submission
    <3>1. remote[p][i] \in Submission
      BY <1>0, <2>2, ElementOfSeq
    <3> QED BY <3>1 DEF Submission
  <2> HIDE DEF e
  <2>4. /\ [remote[p] EXCEPT ![i] = e] \in Seq(Submission)
        /\ Len([remote[p] EXCEPT ![i] = e]) = Len(remote[p])
    BY <1>0, <2>2, <2>3, ExceptSeq
  <2>5. remote' = [remote EXCEPT ![p] = [remote[p] EXCEPT ![i] = e]]
    BY <2>1 DEF e
  <2>6. remote' \in [Posts -> Seq(Submission)] /\ \A q \in Posts : Len(remote'[q]) = Len(remote[q])
    BY <2>4, <2>5 DEF Typed
  <2> QED BY <2>1, <2>6 DEF Typed, IdsKnown
<1> QED BY <1>1, <1>4, <1>5, <1>6, <1>7, <1>8

\* A row publish_content_item has stamped.
LEMMA StampedTyped ==
    ASSUME NEW r \in Row, NEW t \in Texts \cup {None}
    PROVE  LET stamped == [r EXCEPT !.gate = t, !.hash = t, !.status = "scheduled"]
           IN stamped \in Row /\ stamped.sub = r.sub
BY DEF Row, Statuses

\* One step of the request of a user: what it writes and what it goes on with.
LEMMA AskTyped ==
    ASSUME Typed, IdsKnown, NEW u \in Users,
           NEW q \in Request, q.op = "patch" => q.text \in Texts,
           \A p \in Posts : q.seen[p].sub <= Len(remote[p]),
           row' \in [Posts -> Row], \A p \in Posts : row'[p].sub <= Len(remote[p]),
           text' \in [Posts -> Texts], due' \subseteq Posts,
           req' = [req EXCEPT ![u] = q], requests' \in Nat, crashes' \in Nat,
           UNCHANGED <<remote, engineVars, recon>>
    PROVE  Typed' /\ IdsKnown'
<1>1. /\ req' \in [Users -> Request]
      /\ \A v \in Users : req'[v] = IF v = u THEN q ELSE req[v]
  BY DEF Typed
<1>2. Typed'
  BY <1>1 DEF Typed, engineVars
<1> QED BY <1>1, <1>2 DEF IdsKnown, engineVars

\* A request is opened: it has seen no row yet.
LEMMA OpenTyped ==
    ASSUME Typed, IdsKnown, NEW u \in Users,
           \/ \E G \in Groups, t \in Texts :
                \/ PatchOpens(u, G, t)
                \/ AutosaveText(u, G, t)
                \/ \E target \in {"draft", "scheduled"} : ComposeText(u, G, t, target)
           \/ \E G \in Groups : ConsoleGates(u, G)
           \/ \E p \in Posts, target \in Statuses : TransitionReads(u, p, target)
    PROVE  Typed' /\ IdsKnown'
<1>1. /\ NoRequest \in Request
      /\ \A p \in Posts : NoRequest.seen[p].sub <= Len(remote[p])
  BY NoRequestTyped, LenProperties DEF Typed
<1>2. /\ row \in [Posts -> Row] /\ \A p \in Posts : row[p].sub <= Len(remote[p])
      /\ text \in [Posts -> Texts] /\ due \subseteq Posts
      /\ requests \in Nat /\ crashes \in Nat
  BY DEF Typed, IdsKnown
<1>3. ASSUME NEW q \in Request, q.op = "patch" => q.text \in Texts,
             q.seen = NoRequest.seen, req' = [req EXCEPT ![u] = q],
             text' \in [Posts -> Texts], requests' = requests + 1,
             UNCHANGED <<row, due, remote, engineVars, recon, crashes>>
      PROVE  Typed' /\ IdsKnown'
  <2>1. /\ row' \in [Posts -> Row] /\ \A p \in Posts : row'[p].sub <= Len(remote[p])
        /\ due' \subseteq Posts /\ requests' \in Nat /\ crashes' \in Nat
        /\ UNCHANGED <<remote, engineVars, recon>>
    BY <1>2, <1>3
  <2> QED BY <1>1, <1>3, <2>1, AskTyped
<1>4. /\ "draft" \in Statuses /\ "scheduled" \in Statuses
      /\ \A G \in Groups : G \in SUBSET Posts
      /\ Cleared \subseteq Texts
  BY EngineAssumption, StatusesInUse
<1>5. \A G, t : t \in Texts /\ WriteText(G, t) => text' \in [Posts -> Texts]
  BY <1>2 DEF WriteText
<1>6. ASSUME NEW G \in Groups, NEW t \in Texts, PatchOpens(u, G, t)
      PROVE  Typed' /\ IdsKnown'
  <2> DEFINE q == [NoRequest EXCEPT !.op = "patch", !.posts = G, !.text = t]
  <2>1. q \in Request /\ q.op = "patch" /\ q.text = t /\ q.seen = NoRequest.seen
    BY <1>1, <1>4 DEF Request
  <2>2. /\ req' = [req EXCEPT ![u] = q] /\ requests' = requests + 1
        /\ UNCHANGED <<text, row, due, remote, engineVars, recon, crashes>>
    BY <1>6 DEF PatchOpens, Opens
  <2> HIDE DEF q
  <2>3. text' \in [Posts -> Texts]
    BY <1>2, <2>2
  <2> QED BY <1>3, <2>1, <2>2, <2>3
<1>7. ASSUME NEW G \in Groups, NEW t \in Texts, AutosaveText(u, G, t)
      PROVE  Typed' /\ IdsKnown'
  <2> DEFINE q == [NoRequest EXCEPT !.op = "autosave", !.posts = G]
  <2>1. q \in Request /\ q.op = "autosave" /\ q.seen = NoRequest.seen
    BY <1>1, <1>4 DEF Request
  <2>2. /\ req' = [req EXCEPT ![u] = q] /\ requests' = requests + 1 /\ WriteText(G, t)
        /\ UNCHANGED <<row, due, remote, engineVars, recon, crashes>>
    BY <1>7 DEF AutosaveText, Opens
  <2> HIDE DEF q
  <2>3. text' \in [Posts -> Texts]
    BY <1>5, <2>2
  <2> QED BY <1>3, <2>1, <2>2, <2>3
<1>8. ASSUME NEW G \in Groups, NEW t \in Texts, NEW target \in {"draft", "scheduled"},
             ComposeText(u, G, t, target)
      PROVE  Typed' /\ IdsKnown'
  <2> DEFINE q == [NoRequest EXCEPT !.op = "compose", !.posts = G, !.left = G,
                               !.target = target]
  <2>1. q \in Request /\ q.op = "compose" /\ q.seen = NoRequest.seen
    BY <1>1, <1>4 DEF Request
  <2>2. /\ req' = [req EXCEPT ![u] = q] /\ requests' = requests + 1 /\ WriteText(G, t)
        /\ UNCHANGED <<row, due, remote, engineVars, recon, crashes>>
    BY <1>8 DEF ComposeText, Opens
  <2> HIDE DEF q
  <2>3. text' \in [Posts -> Texts]
    BY <1>5, <2>2
  <2> QED BY <1>3, <2>1, <2>2, <2>3
<1>9. ASSUME NEW G \in Groups, ConsoleGates(u, G)
      PROVE  Typed' /\ IdsKnown'
  <2>1. PICK t \in Cleared :
          req' = [req EXCEPT ![u] = [NoRequest EXCEPT !.op = "console", !.posts = G,
                                                      !.left = G, !.text = t]]
    BY <1>9 DEF ConsoleGates
  <2> DEFINE q == [NoRequest EXCEPT !.op = "console", !.posts = G, !.left = G, !.text = t]
  <2>2. q \in Request /\ q.op = "console" /\ q.seen = NoRequest.seen
    BY <1>1, <1>4 DEF Request
  <2>3. /\ requests' = requests + 1
        /\ UNCHANGED <<row, text, due, remote, engineVars, recon, crashes>>
    BY <1>9 DEF ConsoleGates, Opens
  <2>4. req' = [req EXCEPT ![u] = q]
    BY <2>1
  <2> HIDE DEF q
  <2> QED BY <1>2, <1>3, <2>2, <2>3, <2>4
<1>10. ASSUME NEW p \in Posts, NEW target \in Statuses, TransitionReads(u, p, target)
      PROVE  Typed' /\ IdsKnown'
  <2> DEFINE q == [NoRequest EXCEPT !.op = "transition", !.post = p, !.target = target]
  <2>1. q \in Request /\ q.op = "transition" /\ q.seen = NoRequest.seen
    BY <1>1, <1>4 DEF Request
  <2>2. /\ req' = [req EXCEPT ![u] = q] /\ requests' = requests + 1
        /\ UNCHANGED <<text, row, due, remote, engineVars, recon, crashes>>
    BY <1>10 DEF TransitionReads, Opens
  <2> HIDE DEF q
  <2>3. text' \in [Posts -> Texts]
    BY <1>2, <2>2
  <2> QED BY <1>3, <2>1, <2>2, <2>3
<1> QED BY <1>6, <1>7, <1>8, <1>9, <1>10

\* The later steps of a request: each writes rows with the submission ids they
\* have, or had when the request read them.
LEMMA RequestTyped ==
    ASSUME Typed, IdsKnown, NEW u \in Users, RequestStep(u)
    PROVE  Typed' /\ IdsKnown'
<1>1. /\ req[u] \in Request
      /\ req[u].op = "patch" => req[u].text \in Texts
      /\ \A p \in Posts : req[u].seen[p].sub <= Len(remote[p])
      /\ row \in [Posts -> Row] /\ \A p \in Posts : row[p].sub <= Len(remote[p])
      /\ text \in [Posts -> Texts] /\ due \subseteq Posts
      /\ requests \in Nat /\ crashes \in Nat
      /\ \A p \in Posts : Len(remote[p]) \in Nat
  BY LenProperties DEF Typed, IdsKnown
<1>2. /\ req[u].posts \in SUBSET Posts /\ req[u].left \in SUBSET Posts
      /\ req[u].post \in Posts \cup {None} /\ req[u].text \in Texts \cup {None}
      /\ req[u].seen \in [Posts -> Row] /\ req[u].target \in Statuses
      /\ req[u].op \in {"none", "patch", "autosave", "compose", "compose_row", "move",
                        "transition", "console"}
  BY <1>1 DEF Request
<1>3. /\ NoRequest \in Request /\ NoRequest.op = "none"
      /\ \A p \in Posts : NoRequest.seen[p].sub <= Len(remote[p])
      /\ NoRequest.seen \in [Posts -> Row]
  BY <1>1, NoRequestTyped DEF NoRequest, Request
<1>4. ASSUME NEW r \in [Posts -> Row], \A p \in Posts : r[p].sub <= Len(remote[p]),
             NEW q \in Request, q.op = "patch" => q.text \in Texts,
             \A p \in Posts : q.seen[p].sub <= Len(remote[p]),
             row' = r, text' \in [Posts -> Texts], due' \subseteq Posts,
             req' = [req EXCEPT ![u] = q], requests' = requests, crashes' \in Nat,
             UNCHANGED <<remote, engineVars, recon>>
      PROVE  Typed' /\ IdsKnown'
  BY <1>1, <1>4, AskTyped
<1>5. ASSUME NEW G \in SUBSET Posts, ClearGates(G)
      PROVE  row' \in [Posts -> Row] /\ \A p \in Posts : row'[p].sub <= Len(remote[p])
  <2>1. \A p \in Posts : /\ [row[p] EXCEPT !.gate = None, !.hash = None] \in Row
                         /\ [row[p] EXCEPT !.gate = None, !.hash = None].sub = row[p].sub
    BY <1>1, SavedRowTyped
  <2> QED BY <1>1, <1>5, <2>1 DEF ClearGates
<1>6. ASSUME NEW p \in Posts, NEW r \in Row, r.sub <= Len(remote[p])
      PROVE  /\ [row EXCEPT ![p] = r] \in [Posts -> Row]
             /\ \A q \in Posts : [row EXCEPT ![p] = r][q].sub <= Len(remote[q])
  BY <1>1, <1>6
<1>7. \A L \in SUBSET Posts :
        LET q == [req[u] EXCEPT !.left = L]
        IN q \in Request /\ q.op = req[u].op /\ q.seen = req[u].seen
  BY <1>1 DEF Request
<1>8. CASE PatchCommits(u)
  <2>1. text' \in [Posts -> Texts]
    <3>1. WriteText(req[u].posts, req[u].text) /\ req[u].text \in Texts
      BY <1>1, <1>8 DEF PatchCommits
    <3> QED BY <1>1, <3>1 DEF WriteText
  <2>2. /\ ClearGates(req[u].posts) /\ req' = [req EXCEPT ![u] = NoRequest]
        /\ UNCHANGED <<requests, due, remote, engineVars, recon, crashes>>
    BY <1>8 DEF PatchCommits, Closes
  <2> QED BY <1>1, <1>2, <1>3, <1>4, <1>5, <2>1, <2>2
<1>9. CASE AutosaveClears(u)
  <2>1. /\ ClearGates(req[u].posts) /\ req' = [req EXCEPT ![u] = NoRequest]
        /\ UNCHANGED <<requests, text, due, remote, engineVars, recon, crashes>>
    BY <1>9 DEF AutosaveClears, Closes
  <2> QED BY <1>1, <1>2, <1>3, <1>4, <1>5, <2>1
<1>10. ASSUME NEW p \in Posts, ComposeReads(u, p)
       PROVE  Typed' /\ IdsKnown'
  <2> DEFINE S == [req[u].seen EXCEPT ![p] = row[p]]
             q == [req[u] EXCEPT !.op = "compose_row", !.post = p, !.seen = S]
  <2>1. S \in [Posts -> Row] /\ \A x \in Posts : S[x].sub <= Len(remote[x])
    BY <1>1, <1>2
  <2>2. req' = [req EXCEPT ![u] = q]
    BY <1>10 DEF ComposeReads
  <2> HIDE DEF S
  <2>3. q \in Request /\ q.op = "compose_row" /\ q.seen = S
    BY <1>1, <2>1 DEF Request
  <2> HIDE DEF q
  <2>5. UNCHANGED <<row, text, due, remote, engineVars, recon, crashes, requests>>
    BY <1>10 DEF ComposeReads
  <2> QED BY <1>1, <1>4, <2>1, <2>2, <2>3, <2>5
<1>11. CASE ComposeSaves(u)
  <2> DEFINE x == req[u].post
             left == req[u].left \ {x}
             saved == [req[u].seen[x] EXCEPT !.bypass = TRUE]
             q == IF left = {} /\ req[u].target = "draft" THEN NoRequest
                  ELSE [req[u] EXCEPT !.op = "compose", !.left = left, !.post = None,
                                      !.seen = NoRequest.seen]
  <2>1. q \in Request /\ q.op # "patch" /\ q.seen = NoRequest.seen
    <3>1. left \in SUBSET Posts /\ None \in Posts \cup {None}
      BY <1>2
    <3>2. LET k == [req[u] EXCEPT !.op = "compose", !.left = left, !.post = None,
                                  !.seen = NoRequest.seen]
          IN k \in Request /\ k.op = "compose" /\ k.seen = NoRequest.seen
      BY <1>1, <1>3, <3>1 DEF Request
    <3> QED BY <1>3, <3>2
  <2>2. /\ row' = [row EXCEPT ![x] = saved]
        /\ req' = [req EXCEPT ![u] = q]
        /\ UNCHANGED <<text, due, remote, engineVars, recon, crashes, requests>>
    BY <1>11 DEF ComposeSaves
  <2>3. row' \in [Posts -> Row] /\ \A p \in Posts : row'[p].sub <= Len(remote[p])
    <3>1. CASE x \in Posts
      <4>1. req[u].seen[x] \in Row /\ req[u].seen[x].sub <= Len(remote[x])
        BY <1>1, <1>2, <3>1
      <4>2. saved \in Row /\ saved.sub <= Len(remote[x])
        BY <4>1, SavedRowTyped
      <4> HIDE DEF saved
      <4> QED BY <1>6, <2>2, <3>1, <4>2
    <3>2. CASE x \notin Posts
      BY <1>1, <2>2, <3>2
    <3> QED BY <3>1, <3>2
  <2> HIDE DEF q
  <2> QED BY <1>1, <1>3, <1>4, <2>1, <2>2, <2>3
<1>12. CASE ComposeSchedules(u)
  <2> DEFINE S == [p \in Posts |-> IF p \in req[u].posts THEN row[p] ELSE BlankRow]
             q == [req[u] EXCEPT !.op = "move", !.left = req[u].posts, !.seen = S]
  <2>1. S \in [Posts -> Row] /\ \A p \in Posts : S[p].sub <= Len(remote[p])
    BY <1>1, BlankRowTyped
  <2>4. req' = [req EXCEPT ![u] = q]
    BY <1>12 DEF ComposeSchedules
  <2> HIDE DEF S
  <2>5. q \in Request /\ q.op = "move" /\ q.seen = S
    BY <1>1, <1>2, <2>1 DEF Request
  <2> HIDE DEF q
  <2>6. due' \subseteq Posts
    BY <1>1, <1>2, <1>12 DEF ComposeSchedules
  <2>7. UNCHANGED <<row, text, remote, engineVars, recon, crashes, requests>>
    BY <1>12 DEF ComposeSchedules
  <2> QED BY <1>1, <1>4, <2>1, <2>4, <2>5, <2>6, <2>7
<1>13. ASSUME NEW p \in Posts, ComposeMoves(u, p)
       PROVE  Typed' /\ IdsKnown'
  <2> DEFINE left == req[u].left \ {p}
             q == IF left = {} THEN NoRequest ELSE [req[u] EXCEPT !.left = left]
             moved == [row[p] EXCEPT !.status = "scheduled"]
  <2>1. q \in Request /\ q.op # "patch" /\ \A x \in Posts : q.seen[x].sub <= Len(remote[x])
    <3>1. left \in SUBSET Posts /\ req[u].op = "move"
      BY <1>2, <1>13 DEF ComposeMoves
    <3>2. LET k == [req[u] EXCEPT !.left = left]
          IN k \in Request /\ k.op = "move" /\ k.seen = req[u].seen
      BY <1>7, <3>1
    <3> QED BY <1>1, <1>3, <3>2
  <2>2. /\ row' \in {row, [row EXCEPT ![p] = moved]}
        /\ req' = [req EXCEPT ![u] = q]
        /\ UNCHANGED <<text, due, remote, engineVars, recon, crashes, requests>>
    BY <1>13 DEF ComposeMoves
  <2>3. moved \in Row /\ moved.sub <= Len(remote[p])
    BY <1>1, SavedRowTyped, StatusesInUse
  <2> HIDE DEF moved, q
  <2>4. row' \in [Posts -> Row] /\ \A x \in Posts : row'[x].sub <= Len(remote[x])
    BY <1>1, <1>6, <2>2, <2>3
  <2> QED BY <1>1, <1>4, <2>1, <2>2, <2>4
<1>14. CASE TransitionSaves(u)
  <2> DEFINE x == req[u].post
             moved == [row[x] EXCEPT !.status = req[u].target]
  <2>1. /\ row' = [row EXCEPT ![x] = moved]
        /\ req' = [req EXCEPT ![u] = NoRequest]
        /\ UNCHANGED <<text, due, remote, engineVars, recon, crashes, requests>>
    BY <1>14 DEF TransitionSaves, Closes
  <2>2. row' \in [Posts -> Row] /\ \A p \in Posts : row'[p].sub <= Len(remote[p])
    <3>1. CASE x \in Posts
      <4>1. moved \in Row /\ moved.sub <= Len(remote[x])
        BY <1>1, <1>2, <3>1, SavedRowTyped
      <4> HIDE DEF moved
      <4> QED BY <1>6, <2>1, <3>1, <4>1
    <3>2. CASE x \notin Posts
      BY <1>1, <2>1, <3>2
    <3> QED BY <3>1, <3>2
  <2> QED BY <1>1, <1>3, <1>4, <2>1, <2>2
<1>15. ASSUME NEW p \in Posts, ConsoleStamps(u, p)
       PROVE  Typed' /\ IdsKnown'
  <2> DEFINE left == req[u].left \ {p}
             t == req[u].text
             q == IF left = {} THEN NoRequest ELSE [req[u] EXCEPT !.left = left]
             stamped == [row[p] EXCEPT !.gate = t, !.hash = t, !.status = "scheduled"]
  <2>1. q \in Request /\ q.op # "patch" /\ \A x \in Posts : q.seen[x].sub <= Len(remote[x])
    <3>1. left \in SUBSET Posts /\ req[u].op = "console"
      BY <1>2, <1>15 DEF ConsoleStamps
    <3>2. LET k == [req[u] EXCEPT !.left = left]
          IN k \in Request /\ k.op = "console" /\ k.seen = req[u].seen
      BY <1>7, <3>1
    <3> QED BY <1>1, <1>3, <3>2
  <2>2. /\ row' = [row EXCEPT ![p] = stamped]
        /\ req' = [req EXCEPT ![u] = q]
        /\ due' = due \cup {p}
        /\ UNCHANGED <<text, remote, engineVars, recon, crashes, requests>>
    BY <1>15 DEF ConsoleStamps
  <2>3. stamped \in Row /\ stamped.sub <= Len(remote[p])
    BY <1>1, <1>2, StampedTyped
  <2> HIDE DEF stamped, q
  <2>4. row' \in [Posts -> Row] /\ \A x \in Posts : row'[x].sub <= Len(remote[x])
    BY <1>6, <2>2, <2>3
  <2> QED BY <1>1, <1>4, <2>1, <2>2, <2>4
<1>16. CASE RequestDies(u)
  <2>1. /\ crashes' = crashes + 1 /\ req' = [req EXCEPT ![u] = NoRequest]
        /\ UNCHANGED <<requests, row, text, due, remote, engineVars, recon>>
    BY <1>16 DEF RequestDies, Closes
  <2>2. crashes' \in Nat /\ text' \in [Posts -> Texts] /\ due' \subseteq Posts /\ row' = row
    BY <1>1, <2>1
  <2> QED BY <1>1, <1>3, <1>4, <2>1, <2>2
<1> QED BY <1>8, <1>9, <1>10, <1>11, <1>12, <1>13, <1>14, <1>15, <1>16, OpenTyped DEF RequestStep

-----------------------------------------------------------------------------
(* The type invariant *)

\* What is inductive about the types: TypeOK, and ids that are known.
Inv ==
    /\ Typed
    /\ IdsKnown
    /\ openings \in [Posts -> Nat]
    /\ raced \subseteq Posts

LEMMA InitTyped == Init => Inv
<1> SUFFICES ASSUME Init PROVE Inv
  OBVIOUS
<1>1. \A t \in Texts : InitialRow(t) \subseteq Row /\ \A r \in InitialRow(t) : r.sub = 0
  <2> DEFINE planned == [BlankRow EXCEPT !.status = "scheduled"]
  <2>1. planned \in Row /\ planned.sub = 0
    BY BlankRowTyped, SavedRowTyped, StatusesInUse
  <2> HIDE DEF planned
  <2>2. /\ [planned EXCEPT !.bypass = TRUE] \in Row
        /\ [planned EXCEPT !.bypass = TRUE].sub = 0
    BY <2>1, SavedRowTyped
  <2>3. ASSUME NEW g \in Texts, NEW t \in Texts
        PROVE  /\ [planned EXCEPT !.gate = g, !.hash = t] \in Row
               /\ [planned EXCEPT !.gate = g, !.hash = t].sub = 0
    BY <2>1 DEF Row
  <2> DEFINE stamped(t) == {[planned EXCEPT !.gate = g, !.hash = t] : g \in Texts}
  <2>4. \A t \in Texts : InitialRow(t) =
              {r \in {[planned EXCEPT !.bypass = TRUE]} : "composer" \in Origins}
              \cup {r \in {planned} : "api" \in Origins}
              \cup {r \in stamped(t) : "agent" \in Origins}
    BY DEF InitialRow, planned
  <2>5. ASSUME NEW t \in Texts, NEW r \in InitialRow(t)
        PROVE  r \in Row /\ r.sub = 0
    <3>1. \A x \in stamped(t) : x \in Row /\ x.sub = 0
      BY <2>3
    <3> HIDE DEF stamped
    <3>2. r \in stamped(t) \/ r = planned \/ r = [planned EXCEPT !.bypass = TRUE]
      BY <2>4, <2>5
    <3> QED BY <2>1, <2>2, <3>1, <3>2
  <2> QED BY <2>5
<1>2. row \in [Posts -> Row] /\ \A p \in Posts : row[p].sub = 0
  <2>1. text \in [Posts -> Texts] /\ \A p \in Posts : row[p] \in InitialRow(text[p])
    BY DEF Init
  <2>2. row \in [Posts -> UNION {InitialRow(t) : t \in Texts}]
    BY DEF Init
  <2> QED BY <1>1, <2>1, <2>2
<1>3. \A p \in Posts : remote[p] = <<>> /\ Len(remote[p]) = 0
  BY DEF Init
<1>4. Typed
  <2>1. remote \in [Posts -> Seq(Submission)]
    BY EmptySeq DEF Init
  <2>2. copy \in [Cycles -> [Posts -> Copy]] /\ at \in [Cycles -> [Posts -> Stages]]
    BY NoCopyTyped DEF Init, Stages
  <2>3. req \in [Users -> Request] /\ \A u \in Users : req[u].op # "patch"
    BY NoRequestTyped DEF Init, NoRequest
  <2> QED BY <1>2, <2>1, <2>2, <2>3 DEF Init, Typed
<1>5. IdsKnown
  BY <1>2, <1>3, NoCopyTyped, NoRequestTyped DEF Init, IdsKnown
<1> QED BY <1>4, <1>5 DEF Init, Inv

LEMMA HistoryTyped ==
    ASSUME Inv, History
    PROVE  openings' \in [Posts -> Nat] /\ raced' \subseteq Posts
<1>1. openings' \in [Posts -> Nat]
  BY DEF Inv, History
<1> QED BY <1>1 DEF Inv, History

LEMMA NextTyped == Inv /\ [Next]_vars => Inv'
<1> SUFFICES ASSUME Inv, [Next]_vars PROVE Inv'
  OBVIOUS
<1>1. Typed /\ IdsKnown
  BY DEF Inv
<1>2. ASSUME NEW c \in Cycles, CycleStep(c)
      PROVE  Typed' /\ IdsKnown'
  BY <1>1, <1>2, ClaimTyped, CycleTyped, SaveTyped, CallTyped DEF CycleStep
<1>3. CASE Next
  <2>1. Typed' /\ IdsKnown'
    BY <1>1, <1>2, <1>3, CycleTyped, WorldTyped, RequestTyped DEF Next
  <2>2. History
    BY <1>3 DEF Next
  <2> QED BY <2>1, <2>2, HistoryTyped DEF Inv
<1>4. CASE UNCHANGED vars
  BY <1>4 DEF vars, engineVars, peopleVars, historyVars, Inv, Typed, IdsKnown
<1> QED BY <1>3, <1>4

\* Every variable keeps its type: the tables, the instances the cycles and the
\* requests hold, and the submission lists of the platforms (TypeOK).
THEOREM TypeCorrect == Spec => []TypeOK
<1>1. Inv => TypeOK
  BY DEF Inv, Typed, TypeOK
<1> QED BY InitTyped, NextTyped, <1>1, PTL DEF Spec

-----------------------------------------------------------------------------
(* The submission budget *)

\* Submissions a platform has accepted, and those a cycle is entitled to make.
Load(p) == Len(remote[p]) + Cardinality(Claims(p))

LEMMA CyclesFinite == IsFiniteSet(Cycles)
BY EngineAssumption, FS_Union DEF Cycles

LEMMA ClaimCount ==
    ASSUME NEW S \in SUBSET Cycles
    PROVE  /\ IsFiniteSet(S)
           /\ Cardinality(S) \in Nat
           /\ \A T \in SUBSET S : Cardinality(T) \in Nat /\ Cardinality(T) <= Cardinality(S)
           /\ \A c \in Cycles : Cardinality(S \cup {c}) <= Cardinality(S) + 1
           /\ \A c \in S : Cardinality(S \ {c}) = Cardinality(S) - 1
<1>1. IsFiniteSet(S) /\ Cardinality(S) \in Nat
  BY CyclesFinite, FS_Subset, FS_CardinalityType
<1>2. ASSUME NEW T \in SUBSET S
      PROVE  Cardinality(T) \in Nat /\ Cardinality(T) <= Cardinality(S)
  BY <1>1, FS_Subset, FS_CardinalityType
<1>3. ASSUME NEW c \in Cycles
      PROVE  Cardinality(S \cup {c}) <= Cardinality(S) + 1
  <2>1. Cardinality(S \cup {c}) = IF c \in S THEN Cardinality(S) ELSE Cardinality(S) + 1
    BY <1>1, FS_AddElement, Zenon
  <2> QED BY <1>1, <2>1
<1>4. ASSUME NEW c \in S
      PROVE  Cardinality(S \ {c}) = Cardinality(S) - 1
  BY <1>1, FS_RemoveElement
<1> QED BY <1>1, <1>2, <1>3, <1>4

LEMMA LoadTyped ==
    ASSUME Typed, NEW p \in Posts
    PROVE  Len(remote[p]) \in Nat /\ Claims(p) \in SUBSET Cycles /\ Load(p) \in Nat
<1>1. Len(remote[p]) \in Nat
  BY LenProperties DEF Typed
<1>2. Claims(p) \in SUBSET Cycles
  BY DEF Claims
<1> QED BY <1>1, <1>2, ClaimCount DEF Load

\* A step keeps the budget of a row when it adds nothing to the load, or adds
\* one and takes the row out of "scheduled": History counts the way back in.
LEMMA BudgetKept ==
    ASSUME Inv, Inv', History, NEW p \in Posts, Budget(p) <= openings[p],
           \/ Load(p)' <= Load(p)
           \/ /\ Load(p)' <= Load(p) + 1
              /\ row[p].status = "scheduled" /\ row'[p].status # "scheduled"
    PROVE  Budget(p)' <= openings'[p]
<1>1. Load(p) \in Nat /\ Load(p)' \in Nat
  <2>1. Typed' => Load(p)' \in Nat
    <3>1. Typed' => Len(remote'[p]) \in Nat
      BY LenProperties DEF Typed
    <3>2. Claims(p)' \in SUBSET Cycles
      BY DEF Claims
    <3>3. Cardinality(Claims(p)') \in Nat
      BY <3>2, ClaimCount
    <3> QED BY <3>1, <3>3 DEF Load
  <2> QED BY <2>1, LoadTyped DEF Inv
<1>2. openings[p] \in Nat
  BY DEF Inv
<1>3. openings'[p] = IF row[p].status # "scheduled" /\ row'[p].status = "scheduled"
                     THEN openings[p] + 1 ELSE openings[p]
  BY DEF History
<1>4. /\ Budget(p) = Load(p) + (IF row[p].status = "scheduled" THEN 1 ELSE 0)
      /\ Budget(p)' = Load(p)' + (IF row'[p].status = "scheduled" THEN 1 ELSE 0)
  BY DEF Budget, Load
<1> QED BY <1>1, <1>2, <1>3, <1>4

\* A step that calls nobody and in which no cycle claims the row.
LEMMA NoNewClaim ==
    ASSUME Inv, NEW p \in Posts, Len(remote'[p]) = Len(remote[p]),
           \A c \in Cycles : at'[c][p] = "claimed" => at[c][p] = "claimed"
    PROVE  Load(p)' <= Load(p)
<1>1. Claims(p)' \in SUBSET Claims(p) /\ Claims(p) \in SUBSET Cycles
  BY DEF Claims
<1>2. Cardinality(Claims(p)') \in Nat /\ Cardinality(Claims(p)) \in Nat
      /\ Cardinality(Claims(p)') <= Cardinality(Claims(p))
  BY <1>1, ClaimCount
<1>3. Len(remote[p]) \in Nat
  BY LoadTyped DEF Inv
<1> QED BY <1>2, <1>3 DEF Load

\* A claim takes the row out of "scheduled"; only one cycle takes it.
LEMMA ClaimSpends ==
    ASSUME Inv, NEW p \in Posts, NEW c \in Cycles, UNCHANGED remote,
           \A d \in Cycles \ {c} : at'[d][p] = at[d][p]
    PROVE  Load(p)' <= Load(p) + 1
<1>1. Claims(p)' \in SUBSET (Claims(p) \cup {c}) /\ Claims(p) \cup {c} \in SUBSET Cycles
      /\ Claims(p) \in SUBSET Cycles
  BY DEF Claims
<1>2. Cardinality(Claims(p)') \in Nat /\ Cardinality(Claims(p) \cup {c}) \in Nat
      /\ Cardinality(Claims(p)') <= Cardinality(Claims(p) \cup {c})
  BY <1>1, ClaimCount
<1>3. Cardinality(Claims(p)) \in Nat
      /\ Cardinality(Claims(p) \cup {c}) <= Cardinality(Claims(p)) + 1
  BY <1>1, ClaimCount
<1>4. Len(remote[p]) \in Nat
  BY LoadTyped DEF Inv
<1> QED BY <1>2, <1>3, <1>4 DEF Load

\* A call of the provider spends the claim it was made on.
LEMMA CallSpends ==
    ASSUME Inv, NEW p \in Posts, NEW c \in Cycles, NEW stage \in Stages \ {"claimed"},
           at[c][p] = "claimed", at' = [at EXCEPT ![c][p] = stage],
           Len(remote'[p]) = Len(remote[p]) + 1
    PROVE  Load(p)' <= Load(p)
<1>1. Claims(p)' = Claims(p) \ {c} /\ c \in Claims(p) /\ Claims(p) \in SUBSET Cycles
  BY DEF Claims, Inv, Typed
<1>2. Cardinality(Claims(p)') = Cardinality(Claims(p)) - 1 /\ Cardinality(Claims(p)) \in Nat
  BY <1>1, ClaimCount
<1>3. Len(remote[p]) \in Nat
  BY LoadTyped DEF Inv
<1> QED BY <1>2, <1>3 DEF Load

\* Requests, time, platforms that settle a submission and the reconciler call
\* nobody and claim nothing.
LEMMA BystandersClaimNothing ==
    ASSUME Inv, NEW p \in Posts, NEW q \in Posts,
           \/ \E u \in Users : RequestStep(u)
           \/ ScheduledTimeComes(q) \/ BackoffElapses(q) \/ SubmissionSettles(q)
           \/ ReconcileList(q) \/ ReconcileSave(q) \/ ReconcileMisses(q)
    PROVE  Load(p)' <= Load(p)
<1>1. CASE SubmissionSettles(q)
  <2>1. PICK i \in DOMAIN remote[q], outcome \in {"published", "failed"} :
           remote' = [remote EXCEPT ![q] =
                        [remote[q] EXCEPT ![i] = [remote[q][i] EXCEPT !.state = outcome]]]
    BY <1>1 DEF SubmissionSettles
  <2> DEFINE e == [remote[q][i] EXCEPT !.state = outcome]
  <2>2. remote[q] \in Seq(Submission) /\ remote \in [Posts -> Seq(Submission)]
    BY DEF Inv, Typed
  <2>3. remote' = [remote EXCEPT ![q] = [remote[q] EXCEPT ![i] = e]]
    BY <2>1
  <2>4. DOMAIN [remote[q] EXCEPT ![i] = e] = 1..Len(remote[q]) /\ Len(remote[q]) \in Nat
    BY <2>2, LenProperties
  <2> HIDE DEF e
  <2>5. e \in Submission
    <3>1. i \in 1..Len(remote[q])
      BY <2>2, LenProperties
    <3>2. remote[q][i] \in Submission
      BY <2>2, <3>1, ElementOfSeq
    <3> QED BY <3>2 DEF Submission, e
  <2>6. Len([remote[q] EXCEPT ![i] = e]) = Len(remote[q])
    BY <2>2, <2>5, ExceptSeq, LenProperties
  <2>7. Len(remote'[p]) = Len(remote[p]) /\ UNCHANGED at
    BY <1>1, <2>2, <2>3, <2>6 DEF SubmissionSettles, engineVars
  <2> QED BY <2>7, NoNewClaim
<1>2. CASE \/ ScheduledTimeComes(q) \/ BackoffElapses(q)
          \/ ReconcileList(q) \/ ReconcileSave(q) \/ ReconcileMisses(q)
  <2>1. UNCHANGED <<at, remote>>
    BY <1>2 DEF ScheduledTimeComes, BackoffElapses, ReconcileList, ReconcileSave,
                ReconcileMisses, engineVars
  <2> QED BY <2>1, NoNewClaim
<1>3. ASSUME NEW u \in Users, RequestStep(u)
      PROVE  Load(p)' <= Load(p)
  <2>1. UNCHANGED engineVars /\ UNCHANGED remote
    BY <1>3 DEF RequestStep, PatchOpens, AutosaveText, ComposeText, ConsoleGates,
                TransitionReads, PatchCommits, AutosaveClears, ComposeReads, ComposeMoves,
                ConsoleStamps, ComposeSaves, ComposeSchedules, TransitionSaves, RequestDies
  <2> QED BY <2>1, NoNewClaim DEF engineVars
<1> QED BY <1>1, <1>2, <1>3

\* Beginning, turning to the retries, ending and dying leave a cycle with no
\* new claim.
LEMMA CycleClaimsNothing ==
    ASSUME Inv, NEW p \in Posts, NEW c \in Cycles,
           BeginCycle(c) \/ StartRetries(c) \/ EndCycle(c) \/ Crash(c) \/ LockExpires(c)
    PROVE  Load(p)' <= Load(p)
<1>1. UNCHANGED remote
  BY DEF BeginCycle, StartRetries, EndCycle, Crash, LockExpires
<1>2. \A d \in Cycles : at'[d][p] = "claimed" => at[d][p] = "claimed"
  <2>1. at \in [Cycles -> [Posts -> Stages]]
    BY DEF Inv, Typed
  <2>2. CASE BeginCycle(c)
    BY <2>1, <2>2 DEF BeginCycle
  <2>3. CASE StartRetries(c)
    BY <2>1, <2>3 DEF StartRetries
  <2>4. CASE Crash(c)
    BY <2>1, <2>4 DEF Crash
  <2>5. CASE EndCycle(c) \/ LockExpires(c)
    BY <2>1, <2>5 DEF EndCycle, LockExpires
  <2> QED BY <2>2, <2>3, <2>4, <2>5
<1> QED BY <1>1, <1>2, NoNewClaim

\* A worker's step on row q, for every row p.
LEMMA WorkSpends ==
    ASSUME Inv, NEW p \in Posts, NEW q \in Posts, NEW c \in Cycles,
           \/ ClaimRetry(c, q)        \/ SkipRetry(c, q)
           \/ Block(c, q)             \/ HoldForPrincipal(c, q)
           \/ ProviderPublishes(c, q) \/ ProviderParks(c, q)
           \/ ProviderRefuses(c, q)   \/ AnswerLost(c, q)
           \/ RecordPublished(c, q)   \/ LogPublished(c, q)
           \/ LogFails(c, q)          \/ RecordParked(c, q)
           \/ RecordFailure(c, q)     \/ BlockUnlogged(c, q)
           \/ FailureUnlogged(c, q)
    PROVE  \/ Load(p)' <= Load(p)
           \/ /\ Load(p)' <= Load(p) + 1
              /\ row[p].status = "scheduled" /\ row'[p].status # "scheduled"
<1>1. /\ Typed /\ IdsKnown
      /\ at \in [Cycles -> [Posts -> Stages]] /\ row \in [Posts -> Row]
      /\ remote \in [Posts -> Seq(Submission)]
  BY DEF Inv, Typed
<1>2. ASSUME NEW stage \in Stages \ {"claimed"}, at' = [at EXCEPT ![c][q] = stage],
             UNCHANGED remote
      PROVE  Load(p)' <= Load(p)
  BY <1>1, <1>2, NoNewClaim
<1>3. ASSUME NEW stage \in Stages \ {"claimed"}, at' = [at EXCEPT ![c][q] = stage],
             at[c][q] = "claimed",
             NEW state \in {"pending", "published", "failed"}, Submit(c, q, state)
      PROVE  Load(p)' <= Load(p)
  <2>1. \A x \in Posts : Len(remote'[x]) = IF x = q THEN Len(remote[q]) + 1 ELSE Len(remote[x])
    BY <1>1, <1>3, SubmitTyped
  <2>2. CASE p = q
    BY <1>3, <2>1, <2>2, CallSpends
  <2>3. CASE p # q
    <3>1. Len(remote'[p]) = Len(remote[p]) /\ \A d \in Cycles : at'[d][p] = at[d][p]
      BY <1>1, <1>3, <2>1, <2>3
    <3> QED BY <3>1, NoNewClaim
  <2> QED BY <2>2, <2>3
<1>4. CASE ClaimRetry(c, q)
  <2>1. /\ UNCHANGED remote /\ at' = [at EXCEPT ![c][q] = "claimed"]
        /\ row[q].status = "scheduled"
        /\ row' = [row EXCEPT ![q].status = "publishing"]
    BY <1>4 DEF ClaimRetry, Claimable
  <2>2. CASE p = q
    <3>1. row'[p].status = "publishing"
      BY <1>1, <2>1, <2>2 DEF Row
    <3>2. \A d \in Cycles \ {c} : at'[d][p] = at[d][p]
      BY <1>1, <2>1
    <3> QED BY <2>1, <2>2, <3>1, <3>2, ClaimSpends
  <2>3. CASE p # q
    <3>1. \A d \in Cycles : at'[d][p] = at[d][p]
      BY <1>1, <2>1, <2>3
    <3> QED BY <2>1, <3>1, NoNewClaim
  <2> QED BY <2>2, <2>3
<1>5. CASE ProviderPublishes(c, q)
  BY <1>3, <1>5 DEF ProviderPublishes, MayCall, Stages
<1>6. CASE ProviderParks(c, q)
  BY <1>3, <1>6 DEF ProviderParks, MayCall, Stages
<1>7. CASE AnswerLost(c, q)
  BY <1>3, <1>7 DEF AnswerLost, MayCall, Stages
<1>8. CASE ProviderRefuses(c, q)
  <2>1. at[c][q] = "claimed" /\ at' = [at EXCEPT ![c][q] = "failed"]
    BY <1>8 DEF ProviderRefuses, MayCall
  <2>2. CASE Submit(c, q, "failed")
    BY <1>3, <2>1, <2>2 DEF Stages
  <2>3. CASE UNCHANGED remote
    BY <1>2, <2>1, <2>3 DEF Stages
  <2> QED BY <1>8, <2>2, <2>3 DEF ProviderRefuses
<1>9. CASE \/ SkipRetry(c, q) \/ Block(c, q) \/ LogPublished(c, q) \/ LogFails(c, q)
           \/ RecordParked(c, q) \/ RecordFailure(c, q) \/ FailureUnlogged(c, q)
  <2>1. UNCHANGED remote /\ at' = [at EXCEPT ![c][q] = "idle"]
    BY <1>9 DEF SkipRetry, Block, LogPublished, LogFails, RecordParked, RecordFailure,
                FailureUnlogged, Finish
  <2> QED BY <1>2, <2>1 DEF Stages
<1>10. CASE HoldForPrincipal(c, q) \/ BlockUnlogged(c, q)
  <2>1. UNCHANGED remote /\ at' = [at EXCEPT ![c][q] = "failed"]
    BY <1>10 DEF HoldForPrincipal, BlockUnlogged
  <2> QED BY <1>2, <2>1 DEF Stages
<1>11. CASE RecordPublished(c, q)
  <2>1. UNCHANGED remote /\ at' = [at EXCEPT ![c][q] = "recorded"]
    BY <1>11 DEF RecordPublished
  <2> QED BY <1>2, <2>1 DEF Stages
<1> QED BY <1>4, <1>5, <1>6, <1>7, <1>8, <1>9, <1>10, <1>11

\* The transaction of a group claims rows it found scheduled under the lock.
LEMMA GroupSpends ==
    ASSUME Inv, NEW p \in Posts, NEW c \in Cycles, NEW G \in Groups, ClaimGroup(c, G)
    PROVE  \/ Load(p)' <= Load(p)
           \/ /\ Load(p)' <= Load(p) + 1
              /\ row[p].status = "scheduled" /\ row'[p].status # "scheduled"
<1>1. at \in [Cycles -> [Posts -> Stages]] /\ row \in [Posts -> Row]
  BY DEF Inv, Typed
<1>2. PICK claimed \in SUBSET G, locked \in SUBSET G, listed \in SUBSET G :
         /\ \A x \in claimed : row[x].status = "scheduled"
         /\ row' = [x \in Posts |->
               IF x \in claimed THEN [row[x] EXCEPT !.status = "publishing"]
               ELSE IF x \in locked THEN [row[x] EXCEPT !.status = "failed"]
               ELSE row[x]]
         /\ at' = [at EXCEPT ![c] = [x \in Posts |->
               IF x \in claimed THEN "claimed" ELSE IF x \in listed THEN "idle" ELSE at[c][x]]]
  <2> DEFINE listed == {x \in G : at[c][x] = "due"}
             locked == {x \in listed : Claimable(x)}
  <2>1. PICK lost \in Unreachable({x \in locked : ~row[x].bypass}) :
          LET claimed == {x \in locked \ lost : GateOk(row[x])}
          IN /\ row' = [x \in Posts |->
                   IF x \in claimed THEN [row[x] EXCEPT !.status = "publishing"]
                   ELSE IF x \in locked THEN [row[x] EXCEPT !.status = "failed"]
                   ELSE row[x]]
             /\ at' = [at EXCEPT ![c] = [x \in Posts |->
                   IF x \in claimed THEN "claimed"
                   ELSE IF x \in listed THEN "idle" ELSE @[x]]]
    BY DEF ClaimGroup
  <2> DEFINE claimed == {x \in locked \ lost : GateOk(row[x])}
  <2>2. claimed \in SUBSET G /\ listed \in SUBSET G /\ locked \in SUBSET G
    OBVIOUS
  <2>3. \A x \in claimed : row[x].status = "scheduled"
    BY DEF Claimable
  <2>4. /\ row' = [x \in Posts |->
              IF x \in claimed THEN [row[x] EXCEPT !.status = "publishing"]
              ELSE IF x \in locked THEN [row[x] EXCEPT !.status = "failed"]
              ELSE row[x]]
        /\ at' = [at EXCEPT ![c] = [x \in Posts |->
              IF x \in claimed THEN "claimed" ELSE IF x \in listed THEN "idle" ELSE at[c][x]]]
    BY <2>1
  <2> HIDE DEF claimed, listed, locked
  <2> QED BY <2>2, <2>3, <2>4
<1>3. UNCHANGED remote
  BY DEF ClaimGroup
<1>4. CASE p \in claimed
  <2>1. row[p].status = "scheduled" /\ row'[p].status = "publishing"
    BY <1>1, <1>2, <1>4 DEF Row
  <2>2. \A d \in Cycles \ {c} : at'[d][p] = at[d][p]
    BY <1>1, <1>2
  <2> QED BY <1>3, <2>1, <2>2, ClaimSpends
<1>5. CASE p \notin claimed
  <2>1. \A d \in Cycles : at'[d][p] = "claimed" => at[d][p] = "claimed"
    BY <1>1, <1>2, <1>5
  <2> QED BY <1>3, <2>1, NoNewClaim
<1> QED BY <1>4, <1>5

LEMMA BudgetStep == Inv /\ SubmissionBudget /\ [Next]_vars => SubmissionBudget'
<1> SUFFICES ASSUME Inv, SubmissionBudget, [Next]_vars, NEW p \in Posts
             PROVE  Budget(p)' <= openings'[p]
  BY DEF SubmissionBudget
<1>1. Inv'
  BY NextTyped
<1>2. Budget(p) <= openings[p]
  BY DEF SubmissionBudget
<1>3. CASE Next
  <2>1. History
    BY <1>3 DEF Next
  <2>2. ASSUME NEW c \in Cycles, CycleStep(c)
        PROVE  \/ Load(p)' <= Load(p)
               \/ /\ Load(p)' <= Load(p) + 1
                  /\ row[p].status = "scheduled" /\ row'[p].status # "scheduled"
    BY <2>2, GroupSpends, CycleClaimsNothing, WorkSpends DEF CycleStep
  <2>3. \/ Load(p)' <= Load(p)
        \/ /\ Load(p)' <= Load(p) + 1
           /\ row[p].status = "scheduled" /\ row'[p].status # "scheduled"
    BY <1>3, <2>2, CycleClaimsNothing, BystandersClaimNothing DEF Next
  <2> QED BY <1>1, <1>2, <2>1, <2>3, BudgetKept
<1>4. CASE UNCHANGED vars
  BY <1>2, <1>4 DEF vars, engineVars, historyVars, Budget, Claims
<1> QED BY <1>3, <1>4

LEMMA BudgetInit == Init => SubmissionBudget
<1> SUFFICES ASSUME Init, NEW p \in Posts PROVE Budget(p) <= openings[p]
  BY DEF SubmissionBudget
<1>1. Len(remote[p]) = 0 /\ openings[p] = 1
  BY DEF Init
<1>2. Claims(p) = {}
  BY DEF Init, Claims
<1> QED BY <1>1, <1>2, FS_EmptySet DEF Budget

\* Submissions made and claims in hand never exceed the number of times a row
\* entered "scheduled", with one more left exactly while it is "scheduled":
\* each scheduling is spent once, by whichever cycle claims it.
THEOREM BudgetHolds == Spec => []SubmissionBudget
BY InitTyped, NextTyped, BudgetInit, BudgetStep, PTL DEF Spec

\* A platform is called at most once for each time a row entered "scheduled",
\* for any number of overlapping cycles, crashes and concurrent requests.
THEOREM AtMostOneCallPerScheduling == Spec => []OneSubmissionPerScheduling
<1>1. Inv /\ SubmissionBudget => OneSubmissionPerScheduling
  <2> SUFFICES ASSUME Inv, SubmissionBudget, NEW p \in Posts
               PROVE  Len(remote[p]) <= openings[p]
    BY DEF OneSubmissionPerScheduling
  <2>1. Budget(p) <= openings[p] /\ openings[p] \in Nat
    BY DEF SubmissionBudget, Inv
  <2>2. Len(remote[p]) \in Nat /\ Cardinality(Claims(p)) \in Nat
    BY LoadTyped, ClaimCount DEF Inv
  <2> QED BY <2>1, <2>2 DEF Budget
<1> QED BY InitTyped, NextTyped, BudgetHolds, <1>1, PTL DEF Spec

-----------------------------------------------------------------------------
(* 2.  Overlapping cycles.  Each step is first reduced to what it does to one *)
(* row, and the invariants are kept by those kinds of step.                   *)

\* People edit captions and clear gates, and change no status.
Unmoved == Operations \subseteq {"patch", "autosave"}

\* Every answer of a platform arrives and every log row can be written.
Answered == Faults \subseteq {"crash", "gate"}

\* The submissions of p that are, or may yet come, live.
Taken(p) == {i \in DOMAIN remote[p] : remote[p][i].state # "failed"}

Plain == \A u \in Users : req[u].op \in {"none", "patch", "autosave"}

OffIdle == \A c \in Cycles, p \in Posts : phase[c] = "off" => at[c][p] = "idle"

\* A row somebody works on has one worker, and cannot be claimed.
Single ==
    \A p \in Posts, c \in Cycles :
        at[c][p] \in Working =>
            /\ row[p].status # "scheduled"
            /\ \A d \in Cycles : at[d][p] \in Working => d = c

\* Before a call and after a failed one the platform has taken nothing.
TakenOnce ==
    \A p \in Posts :
        /\ \A i, j \in Taken(p) : i = j
        /\ row[p].status = "scheduled" => Taken(p) = {}
        /\ \A c \in Cycles : at[c][p] \in {"claimed", "failed"} => Taken(p) = {}

\* Why a row in "publishing" has a worker or a submission id.
Attended ==
    /\ NoOrphanWithoutCrash
    /\ \A c \in Cycles, p \in Posts :
        /\ at[c][p] = "recorded" => row[p].status # "publishing"
        /\ at[c][p] = "parked" => p \in Blotato /\ copy[c][p].row.sub # 0

\* What a row says of its platform is true ...
Told ==
    \A p \in Posts :
        /\ row[p].status = "published" => Live(p) # {}
        /\ row[p].status = "failed" => Taken(p) = {}
        /\ \A c \in Cycles :
            /\ at[c][p] \in {"accepted", "recorded"} => Live(p) # {}
            /\ at[c][p] = "parked" => Taken(p) \subseteq {copy[c][p].row.sub}

\* ... and a submission id on it is the last one, which only the reconciler awaits.
Awaited ==
    \A p \in Posts :
        /\ \A c \in Cycles :
            /\ at[c][p] \in {"queued", "claimed", "failed"} => copy[c][p].row.sub = 0
            /\ at[c][p] \in Working \ {"recorded"} =>
                   row[p].sub = 0 /\ row[p].status \in {"publishing", "pending_client"}
            /\ at[c][p] = "recorded" => row[p].status = "published"
        /\ row[p].sub # 0 => row[p].status \in {"publishing", "published", "failed"}
        /\ row[p].sub # 0 /\ row[p].status = "publishing" => Taken(p) \subseteq {row[p].sub}
        /\ recon[p] # 0 => row[p].status = "publishing" /\ recon[p] = row[p].sub

-----------------------------------------------------------------------------
(* What a step does to row p *)

\* Nothing that counts, unless a crash takes its worker away.
Spares(p) ==
    /\ row'[p].status = row[p].status /\ row'[p].sub = row[p].sub
    /\ Taken(p)' \subseteq Taken(p) /\ Live(p) \subseteq Live(p)'
    /\ \A c \in Cycles : at'[c][p] \in Working =>
           at'[c][p] = at[c][p] /\ copy'[c][p].row.sub = copy[c][p].row.sub
    /\ \A c \in Cycles : at'[c][p] = "queued" =>
           \/ at[c][p] = "queued" /\ copy'[c][p].row.sub = copy[c][p].row.sub
           \/ row[p].status = "scheduled" /\ copy'[c][p].row.sub = row[p].sub
    /\ \/ recon'[p] \in {0, recon[p]}
       \/ row[p].status = "publishing" /\ recon'[p] = row[p].sub
    /\ \/ crashes' > crashes
       \/ /\ crashes' = crashes
          /\ \A c \in Cycles : at[c][p] \in Working => at'[c][p] = at[c][p]

\* The reconciler says how the submission it asked about ended.
Decides(p) ==
    /\ recon[p] # 0 /\ recon'[p] = 0
    /\ \/ /\ row'[p].status = "published" /\ recon[p] \in Live(p)
          /\ row'[p].sub \in {0, row[p].sub}
       \/ /\ row'[p].status = "failed" /\ recon[p] \notin Taken(p)
          /\ row'[p].sub = row[p].sub
    /\ UNCHANGED <<remote, at, copy, crashes>>

Stay(c, p) ==
    /\ \A d \in Cycles \ {c} : at'[d][p] = at[d][p] /\ copy'[d][p] = copy[d][p]
    /\ recon'[p] = recon[p] /\ crashes' = crashes

Takes(c, p) ==
    /\ at[c][p] \in {"due", "queued"} /\ at'[c][p] = "claimed"
    /\ row[p].status = "scheduled" /\ row'[p].status = "publishing"
    /\ row'[p].sub = row[p].sub
    /\ \/ copy'[c][p].row.sub = row[p].sub
       \/ at[c][p] = "queued" /\ copy'[c][p].row.sub = copy[c][p].row.sub
    /\ remote'[p] = remote[p] /\ Stay(c, p)

Rejects(c, p) ==
    /\ at[c][p] \in {"due", "claimed"} /\ at'[c][p] = "idle"
    /\ at[c][p] = "due" => row[p].status = "scheduled"
    /\ row'[p].status = "failed" /\ row'[p].sub = row[p].sub
    /\ remote'[p] = remote[p] /\ Stay(c, p)

Fails(c, p) ==
    /\ at[c][p] = "claimed" /\ at'[c][p] = "failed"
    /\ \/ row'[p].status \in {"pending_client", row[p].status}
       \/ row'[p].status = "failed" /\ "log" \in Faults
    /\ row'[p].sub = row[p].sub /\ copy'[c][p].row.sub = copy[c][p].row.sub
    /\ Taken(p)' \subseteq Taken(p) \/ "answer" \in Faults
    /\ Live(p) \subseteq Live(p)'
    /\ Stay(c, p)

Accepts(c, p) ==
    /\ at[c][p] = "claimed" /\ at'[c][p] \in {"accepted", "parked"}
    /\ row'[p] = row[p]
    /\ \E i \in Nat : /\ Taken(p)' \subseteq Taken(p) \cup {i}
                      /\ at'[c][p] = "accepted" =>
                             i \in Live(p)' /\ copy'[c][p].row.sub \in {0, i}
                      /\ at'[c][p] = "parked" => i = copy'[c][p].row.sub
    /\ at'[c][p] = "parked" => p \in Blotato /\ copy'[c][p].row.sub # 0
    /\ Live(p) \subseteq Live(p)'
    /\ Stay(c, p)

Records(c, p) ==
    /\ at[c][p] = "accepted" /\ at'[c][p] = "recorded"
    /\ row'[p].status = "published" /\ row'[p].sub = copy[c][p].row.sub
    /\ copy'[c][p] = copy[c][p]
    /\ remote'[p] = remote[p] /\ Stay(c, p)

Ends(c, p) ==
    /\ at[c][p] \in Working /\ at'[c][p] = "idle"
    /\ \/ /\ row'[p] = row[p]
          /\ at[c][p] = "recorded" \/ (at[c][p] = "failed" /\ "log" \in Faults)
       \/ /\ at[c][p] = "parked"
          /\ row'[p].status = "publishing" /\ row'[p].sub = copy[c][p].row.sub
       \/ /\ at[c][p] = "failed" \/ (at[c][p] = "recorded" /\ "log" \in Faults)
          /\ row'[p].status \in {"scheduled", "failed"}
          /\ row'[p].sub = copy[c][p].row.sub
    /\ remote'[p] = remote[p] /\ Stay(c, p)

Handles(c, p) ==
    \/ Takes(c, p)   \/ Rejects(c, p) \/ Fails(c, p)
    \/ Accepts(c, p) \/ Records(c, p) \/ Ends(c, p)

Touches(p) == Spares(p) \/ Decides(p) \/ \E c \in Cycles : Handles(c, p)

-----------------------------------------------------------------------------
(* The invariants and the kinds of step *)

LEMMA SingleKept ==
    ASSUME Single, NEW p \in Posts, Touches(p), NEW c \in Cycles, at'[c][p] \in Working
    PROVE  row'[p].status # "scheduled" /\ \A d \in Cycles : at'[d][p] \in Working => d = c
<1> USE DEF Working
<1>1. CASE Spares(p) \/ Decides(p)
  BY <1>1 DEF Single, Spares, Decides
<1>2. ASSUME NEW e \in Cycles, Handles(e, p)
      PROVE  row'[p].status # "scheduled" /\ \A d \in Cycles : at'[d][p] \in Working => d = c
  <2>1. \A d \in Cycles \ {e} : at'[d][p] = at[d][p]
    BY <1>2 DEF Handles, Takes, Rejects, Fails, Accepts, Records, Ends, Stay
  <2>2. CASE Takes(e, p)
    BY <2>1, <2>2 DEF Takes, Single
  <2>3. CASE Rejects(e, p)
    BY <2>1, <2>3 DEF Rejects, Single
  <2>4. CASE Fails(e, p) \/ Accepts(e, p) \/ Records(e, p)
    BY <2>1, <2>4 DEF Fails, Accepts, Records, Single
  <2>5. CASE Ends(e, p)
    BY <2>1, <2>5 DEF Ends, Single
  <2> QED BY <1>2, <2>2, <2>3, <2>4, <2>5 DEF Handles
<1> QED BY <1>1, <1>2 DEF Touches

LEMMA TakenKept ==
    ASSUME Answered, Single, TakenOnce, NEW p \in Posts, Touches(p)
    PROVE  /\ \A i, j \in Taken(p)' : i = j
           /\ row'[p].status = "scheduled" => Taken(p)' = {}
           /\ \A c \in Cycles : at'[c][p] \in {"claimed", "failed"} => Taken(p)' = {}
<1> USE DEF Working
<1>1. /\ \A i, j \in Taken(p) : i = j
      /\ row[p].status = "scheduled" => Taken(p) = {}
      /\ \A c \in Cycles : at[c][p] \in {"claimed", "failed"} => Taken(p) = {}
  BY DEF TakenOnce
<1>2. remote'[p] = remote[p] => Taken(p)' = Taken(p)
  BY DEF Taken
<1>3. CASE Spares(p)
  BY <1>1, <1>3 DEF Spares
<1>4. CASE Decides(p)
  BY <1>1, <1>2, <1>4 DEF Decides
<1>5. ASSUME NEW c \in Cycles, Handles(c, p)
      PROVE  /\ \A i, j \in Taken(p)' : i = j
             /\ row'[p].status = "scheduled" => Taken(p)' = {}
             /\ \A d \in Cycles : at'[d][p] \in {"claimed", "failed"} => Taken(p)' = {}
  <2>1. \A d \in Cycles \ {c} : at'[d][p] = at[d][p]
    BY <1>5 DEF Handles, Takes, Rejects, Fails, Accepts, Records, Ends, Stay
  <2>2. CASE Takes(c, p) \/ Rejects(c, p) \/ Records(c, p)
    BY <1>1, <1>2, <2>1, <2>2 DEF Takes, Rejects, Records
  <2>3. CASE Fails(c, p)
    BY <1>1, <2>1, <2>3 DEF Fails, Answered
  <2>4. CASE Accepts(c, p)
    <3>1. Taken(p) = {} /\ row[p].status # "scheduled"
          /\ \A d \in Cycles : at[d][p] \in Working => d = c
      BY <1>1, <2>4 DEF Accepts, Single
    <3>2. \A d \in Cycles : at'[d][p] \notin {"claimed", "failed"}
      BY <2>1, <2>4, <3>1 DEF Accepts
    <3> QED BY <2>4, <3>1, <3>2 DEF Accepts
  <2>5. CASE Ends(c, p)
    BY <1>1, <1>2, <2>1, <2>5 DEF Ends, Answered
  <2> QED BY <1>5, <2>2, <2>3, <2>4, <2>5 DEF Handles
<1> QED BY <1>3, <1>4, <1>5 DEF Touches

LEMMA AttendedKept ==
    ASSUME Answered, Single, Attended, crashes \in Nat, crashes' \in Nat,
           NEW p \in Posts, Touches(p)
    PROVE  /\ crashes' = 0 /\ row'[p].status = "publishing" =>
                  \/ \E c \in Cycles : at'[c][p] \in Working
                  \/ p \in Blotato /\ row'[p].sub # 0
           /\ \A c \in Cycles :
                  /\ at'[c][p] = "recorded" => row'[p].status # "publishing"
                  /\ at'[c][p] = "parked" => p \in Blotato /\ copy'[c][p].row.sub # 0
<1> USE DEF Working
<1>1. /\ crashes = 0 /\ row[p].status = "publishing" =>
             \/ \E c \in Cycles : at[c][p] \in Working
             \/ p \in Blotato /\ row[p].sub # 0
      /\ \A c \in Cycles :
             /\ at[c][p] = "recorded" => row[p].status # "publishing"
             /\ at[c][p] = "parked" => p \in Blotato /\ copy[c][p].row.sub # 0
  BY DEF Attended, NoOrphanWithoutCrash
<1>2. CASE Spares(p)
  BY <1>1, <1>2 DEF Spares
<1>3. CASE Decides(p)
  BY <1>1, <1>3 DEF Decides
<1>4. ASSUME NEW c \in Cycles, Handles(c, p)
      PROVE  /\ crashes' = 0 /\ row'[p].status = "publishing" =>
                    \/ \E d \in Cycles : at'[d][p] \in Working
                    \/ p \in Blotato /\ row'[p].sub # 0
             /\ \A d \in Cycles :
                    /\ at'[d][p] = "recorded" => row'[p].status # "publishing"
                    /\ at'[d][p] = "parked" => p \in Blotato /\ copy'[d][p].row.sub # 0
  <2>1. crashes' = crashes
        /\ \A d \in Cycles \ {c} : at'[d][p] = at[d][p] /\ copy'[d][p] = copy[d][p]
    BY <1>4 DEF Handles, Takes, Rejects, Fails, Accepts, Records, Ends, Stay
  <2>2. CASE Takes(c, p)
    BY <1>1, <2>1, <2>2 DEF Takes, Single
  <2>3. CASE Rejects(c, p)
    BY <1>1, <2>1, <2>3 DEF Rejects
  <2>4. CASE Fails(c, p) \/ Accepts(c, p) \/ Records(c, p)
    BY <1>1, <2>1, <2>4 DEF Fails, Accepts, Records
  <2>5. CASE Ends(c, p)
    <3>1. \A d \in Cycles : at[d][p] \in Working => d = c
      BY <2>5 DEF Ends, Single
    <3> QED BY <1>1, <2>1, <2>5, <3>1 DEF Ends, Answered
  <2> QED BY <1>4, <2>2, <2>3, <2>4, <2>5 DEF Handles
<1> QED BY <1>2, <1>3, <1>4 DEF Touches

LEMMA ToldKept ==
    ASSUME Answered, Single, TakenOnce, Told, Awaited, NEW p \in Posts, Touches(p)
    PROVE  /\ row'[p].status = "published" => Live(p)' # {}
           /\ row'[p].status = "failed" => Taken(p)' = {}
           /\ \A c \in Cycles :
                /\ at'[c][p] \in {"accepted", "recorded"} => Live(p)' # {}
                /\ at'[c][p] = "parked" => Taken(p)' \subseteq {copy'[c][p].row.sub}
<1> USE DEF Working
<1>1. /\ row[p].status = "published" => Live(p) # {}
      /\ row[p].status = "failed" => Taken(p) = {}
      /\ \A c \in Cycles :
            /\ at[c][p] \in {"accepted", "recorded"} => Live(p) # {}
            /\ at[c][p] = "parked" => Taken(p) \subseteq {copy[c][p].row.sub}
  BY DEF Told
<1>2. /\ row[p].status = "scheduled" => Taken(p) = {}
      /\ \A c \in Cycles : at[c][p] \in {"claimed", "failed"} => Taken(p) = {}
  BY DEF TakenOnce
<1>3. /\ \A c \in Cycles :
            /\ at[c][p] \in Working \ {"recorded"} =>
                   row[p].sub = 0 /\ row[p].status \in {"publishing", "pending_client"}
            /\ at[c][p] = "recorded" => row[p].status = "published"
      /\ row[p].sub # 0 /\ row[p].status = "publishing" => Taken(p) \subseteq {row[p].sub}
      /\ recon[p] # 0 => row[p].status = "publishing" /\ recon[p] = row[p].sub
  BY DEF Awaited
<1>4. CASE Spares(p)
  BY <1>1, <1>4 DEF Spares
<1>5. CASE Decides(p)
  <2>1. UNCHANGED <<Live(p), Taken(p), at, copy>>
    BY <1>5 DEF Decides, Live, Taken
  <2> QED BY <1>1, <1>3, <1>5, <2>1 DEF Decides
<1>6. ASSUME NEW c \in Cycles, Handles(c, p)
      PROVE  /\ row'[p].status = "published" => Live(p)' # {}
             /\ row'[p].status = "failed" => Taken(p)' = {}
             /\ \A d \in Cycles :
                  /\ at'[d][p] \in {"accepted", "recorded"} => Live(p)' # {}
                  /\ at'[d][p] = "parked" => Taken(p)' \subseteq {copy'[d][p].row.sub}
  <2>1. \A d \in Cycles \ {c} : at'[d][p] = at[d][p] /\ copy'[d][p] = copy[d][p]
    BY <1>6 DEF Handles, Takes, Rejects, Fails, Accepts, Records, Ends, Stay
  <2>2. at[c][p] \in Working => \A d \in Cycles : at[d][p] \in Working => d = c
    BY DEF Single
  <2>3. remote'[p] = remote[p] => Live(p)' = Live(p) /\ Taken(p)' = Taken(p)
    BY DEF Live, Taken
  <2>4. CASE Takes(c, p)
    BY <1>1, <2>1, <2>3, <2>4 DEF Takes
  <2>5. CASE Rejects(c, p)
    BY <1>1, <1>2, <1>3, <2>1, <2>3, <2>5 DEF Rejects
  <2>6. CASE Fails(c, p)
    BY <1>1, <1>2, <1>3, <2>1, <2>2, <2>6 DEF Fails, Answered
  <2>7. CASE Accepts(c, p)
    BY <1>1, <1>2, <1>3, <2>1, <2>2, <2>7 DEF Accepts
  <2>8. CASE Records(c, p)
    BY <1>1, <1>3, <2>1, <2>2, <2>3, <2>8 DEF Records
  <2>9. CASE Ends(c, p)
    BY <1>1, <1>2, <1>3, <2>1, <2>2, <2>3, <2>9 DEF Ends, Answered
  <2> QED BY <1>6, <2>4, <2>5, <2>6, <2>7, <2>8, <2>9 DEF Handles
<1> QED BY <1>4, <1>5, <1>6 DEF Touches

LEMMA AwaitedKept ==
    ASSUME Answered, Single, Told, Awaited, NEW p \in Posts, Touches(p)
    PROVE  /\ \A c \in Cycles :
                /\ at'[c][p] \in {"queued", "claimed", "failed"} => copy'[c][p].row.sub = 0
                /\ at'[c][p] \in Working \ {"recorded"} =>
                       row'[p].sub = 0 /\ row'[p].status \in {"publishing", "pending_client"}
                /\ at'[c][p] = "recorded" => row'[p].status = "published"
           /\ row'[p].sub # 0 => row'[p].status \in {"publishing", "published", "failed"}
           /\ row'[p].sub # 0 /\ row'[p].status = "publishing" =>
                  Taken(p)' \subseteq {row'[p].sub}
           /\ recon'[p] # 0 => row'[p].status = "publishing" /\ recon'[p] = row'[p].sub
<1> USE DEF Working
<1>1. /\ \A c \in Cycles :
            /\ at[c][p] \in {"queued", "claimed", "failed"} => copy[c][p].row.sub = 0
            /\ at[c][p] \in Working \ {"recorded"} =>
                   row[p].sub = 0 /\ row[p].status \in {"publishing", "pending_client"}
            /\ at[c][p] = "recorded" => row[p].status = "published"
            /\ at[c][p] = "parked" => Taken(p) \subseteq {copy[c][p].row.sub}
      /\ row[p].sub # 0 => row[p].status \in {"publishing", "published", "failed"}
      /\ row[p].sub # 0 /\ row[p].status = "publishing" => Taken(p) \subseteq {row[p].sub}
      /\ recon[p] # 0 => row[p].status = "publishing" /\ recon[p] = row[p].sub
  BY DEF Awaited, Told
<1>2. CASE Spares(p)
  BY <1>1, <1>2 DEF Spares
<1>3. CASE Decides(p)
  <2>1. \A c \in Cycles : at[c][p] \notin Working
    BY <1>1, <1>3 DEF Decides
  <2> QED BY <1>1, <1>3, <2>1 DEF Decides
<1>4. ASSUME NEW c \in Cycles, Handles(c, p)
      PROVE  /\ \A d \in Cycles :
                  /\ at'[d][p] \in {"queued", "claimed", "failed"} => copy'[d][p].row.sub = 0
                  /\ at'[d][p] \in Working \ {"recorded"} =>
                       row'[p].sub = 0 /\ row'[p].status \in {"publishing", "pending_client"}
                  /\ at'[d][p] = "recorded" => row'[p].status = "published"
             /\ row'[p].sub # 0 => row'[p].status \in {"publishing", "published", "failed"}
             /\ row'[p].sub # 0 /\ row'[p].status = "publishing" =>
                  Taken(p)' \subseteq {row'[p].sub}
             /\ recon'[p] # 0 => row'[p].status = "publishing" /\ recon'[p] = row'[p].sub
  <2>1. /\ \A d \in Cycles \ {c} : at'[d][p] = at[d][p] /\ copy'[d][p] = copy[d][p]
        /\ recon'[p] = recon[p]
    BY <1>4 DEF Handles, Takes, Rejects, Fails, Accepts, Records, Ends, Stay
  <2>2. at[c][p] \in Working => \A d \in Cycles : at[d][p] \in Working => d = c
    BY DEF Single
  <2>3. remote'[p] = remote[p] => Taken(p)' = Taken(p)
    BY DEF Taken
  <2>4. CASE Takes(c, p)
    <3>1. \A d \in Cycles : at[d][p] \notin Working
      BY <2>4 DEF Takes, Single
    <3> QED BY <1>1, <2>1, <2>4, <3>1 DEF Takes
  <2>5. CASE Rejects(c, p)
    <3>1. \A d \in Cycles \ {c} : at[d][p] \notin Working
      BY <2>2, <2>5 DEF Rejects, Single
    <3> QED BY <1>1, <2>1, <2>5, <3>1 DEF Rejects
  <2>6. CASE Fails(c, p)
    BY <1>1, <2>1, <2>2, <2>6 DEF Fails, Answered
  <2>7. CASE Accepts(c, p)
    BY <1>1, <2>1, <2>2, <2>7 DEF Accepts
  <2>8. CASE Records(c, p)
    BY <1>1, <2>1, <2>2, <2>8 DEF Records
  <2>9. CASE Ends(c, p)
    BY <1>1, <2>1, <2>2, <2>3, <2>9 DEF Ends, Answered
  <2> QED BY <1>4, <2>4, <2>5, <2>6, <2>7, <2>8, <2>9 DEF Handles
<1> QED BY <1>2, <1>3, <1>4 DEF Touches

-----------------------------------------------------------------------------
(* Every step is one of these kinds *)

\* A worker on one row leaves the others alone.
LEMMA ElsewhereSpared ==
    ASSUME NEW c \in Cycles, NEW p \in Posts, NEW q \in Posts \ {p},
           row'[q] = row[q], remote'[q] = remote[q], recon'[q] = recon[q],
           crashes' = crashes,
           \A d \in Cycles : at'[d][q] = at[d][q] /\ copy'[d][q] = copy[d][q]
    PROVE  Spares(q)
BY DEF Spares, Taken, Live, Working

WorkerStep(c, p) ==
    \/ ClaimRetry(c, p)        \/ SkipRetry(c, p)
    \/ Block(c, p)             \/ BlockUnlogged(c, p)
    \/ HoldForPrincipal(c, p)
    \/ ProviderPublishes(c, p) \/ ProviderParks(c, p)
    \/ ProviderRefuses(c, p)   \/ AnswerLost(c, p)
    \/ RecordPublished(c, p)   \/ LogPublished(c, p)
    \/ LogFails(c, p)          \/ RecordParked(c, p)
    \/ RecordFailure(c, p)     \/ FailureUnlogged(c, p)

LEMMA WorkerElsewhere ==
    ASSUME Typed, NEW c \in Cycles, NEW p \in Posts, WorkerStep(c, p)
    PROVE  /\ \A q \in Posts \ {p} :
                 /\ row'[q] = row[q] /\ remote'[q] = remote[q] /\ recon'[q] = recon[q]
                 /\ \A d \in Cycles : at'[d][q] = at[d][q] /\ copy'[d][q] = copy[d][q]
           /\ Stay(c, p)
           /\ UNCHANGED <<phase, req>>
<1> USE DEF Typed, Stay, Submit, Finish, peopleVars
<1>1. CASE ClaimRetry(c, p)
  BY <1>1 DEF ClaimRetry
<1>2. CASE SkipRetry(c, p)
  BY <1>2 DEF SkipRetry
<1>3. CASE Block(c, p)
  BY <1>3 DEF Block
<1>4. CASE BlockUnlogged(c, p)
  BY <1>4 DEF BlockUnlogged
<1>5. CASE HoldForPrincipal(c, p)
  BY <1>5 DEF HoldForPrincipal
<1>6. CASE ProviderPublishes(c, p)
  BY <1>6 DEF ProviderPublishes
<1>7. CASE ProviderParks(c, p)
  BY <1>7 DEF ProviderParks
<1>8. CASE ProviderRefuses(c, p)
  BY <1>8 DEF ProviderRefuses
<1>9. CASE AnswerLost(c, p)
  BY <1>9 DEF AnswerLost
<1>10. CASE RecordPublished(c, p)
  BY <1>10 DEF RecordPublished
<1>11. CASE LogPublished(c, p)
  BY <1>11 DEF LogPublished
<1>12. CASE LogFails(c, p)
  BY <1>12 DEF LogFails
<1>13. CASE RecordParked(c, p)
  BY <1>13 DEF RecordParked
<1>14. CASE RecordFailure(c, p)
  BY <1>14 DEF RecordFailure
<1>15. CASE FailureUnlogged(c, p)
  BY <1>15 DEF FailureUnlogged
<1> QED
  BY <1>1, <1>2, <1>3, <1>4, <1>5, <1>6, <1>7, <1>8, <1>9, <1>10, <1>11, <1>12, <1>13, <1>14, <1>15
  DEF WorkerStep

LEMMA FailureStatus ==
    ASSUME NEW r \in Row
    PROVE  AfterFailure(r).status \in {"scheduled", "failed"} /\ AfterFailure(r).sub = r.sub
BY DEF AfterFailure, Row

\* A call adds at most one submission, and none that counts if it failed.
LEMMA CallTakes ==
    ASSUME Typed, NEW c \in Cycles, NEW p \in Posts,
           NEW state \in {"pending", "published", "failed"}, Submit(c, p, state)
    PROVE  /\ state = "failed" => Taken(p)' \subseteq Taken(p)
           /\ Taken(p)' \subseteq Taken(p) \cup {Len(remote[p]) + 1}
           /\ Live(p) \subseteq Live(p)'
           /\ state = "published" => Len(remote[p]) + 1 \in Live(p)'
           /\ Len(remote[p]) + 1 \in Nat \ {0}
<1> DEFINE new == [text |-> copy[c][p].text, state |-> state, gated |-> ~copy[c][p].row.bypass]
<1>1. remote'[p] = Append(remote[p], new)
  BY DEF Submit, Typed
<1>2. new.state = state
  OBVIOUS
<1> HIDE DEF new
<1>3. remote[p] \in Seq(Submission) /\ Len(remote[p]) \in Nat
  BY LenProperties DEF Typed
<1>4. /\ DOMAIN remote[p] = 1..Len(remote[p])
      /\ DOMAIN remote'[p] = 1..(Len(remote[p]) + 1)
      /\ \A i \in 1..Len(remote[p]) : remote'[p][i] = remote[p][i]
      /\ remote'[p][Len(remote[p]) + 1] = new
  BY <1>1, <1>3
<1>5. /\ Taken(p)' = {i \in DOMAIN remote'[p] : remote'[p][i].state # "failed"}
      /\ Live(p)' = {i \in DOMAIN remote'[p] : remote'[p][i].state = "published"}
  BY DEF Taken, Live
<1> QED BY <1>2, <1>3, <1>4, <1>5 DEF Taken, Live

LEMMA WorkerTouches ==
    ASSUME Typed, NEW c \in Cycles, NEW p \in Posts, WorkerStep(c, p)
    PROVE  Touches(p)
<1>1. Stay(c, p)
  BY WorkerElsewhere
<1>2. /\ row[p] \in Row /\ copy[c][p] \in Copy /\ copy[c][p].row \in Row
      /\ at[c][p] \in Stages
  BY DEF Typed, Copy
<1>3. at[c] \in [Posts -> Stages] /\ copy[c] \in [Posts -> Copy]
  BY DEF Typed
<1> USE DEF Working, Handles
<1>4. CASE ClaimRetry(c, p)
  <2>1. Takes(c, p)
    BY <1>1, <1>2, <1>4 DEF ClaimRetry, RetryTurn, Claimable, Takes, Typed, Row
  <2> QED BY <2>1 DEF Touches
<1>5. CASE SkipRetry(c, p)
  <2>1. /\ at[c][p] = "queued" /\ at'[c][p] = "idle"
        /\ UNCHANGED <<row, remote, recon, crashes>>
    BY <1>5 DEF SkipRetry, RetryTurn, Finish, Typed
  <2>2. Spares(p)
    BY <1>1, <2>1 DEF Spares, Stay, Taken, Live
  <2> QED BY <2>2 DEF Touches
<1>6. CASE Block(c, p)
  <2>1. Rejects(c, p)
    BY <1>1, <1>2, <1>6 DEF Block, Refused, Finish, Rejects, Typed, Row
  <2> QED BY <2>1 DEF Touches
<1>7. CASE BlockUnlogged(c, p) \/ HoldForPrincipal(c, p)
  <2>1. /\ at[c][p] = "claimed" /\ at'[c][p] = "failed" /\ UNCHANGED remote
        /\ \/ row'[p].status \in {"pending_client", row[p].status}
           \/ row'[p].status = "failed" /\ "log" \in Faults
        /\ row'[p].sub = row[p].sub
    BY <1>2, <1>7 DEF BlockUnlogged, HoldForPrincipal, Refused, Typed, Row
  <2>2. copy'[c][p].row.sub = copy[c][p].row.sub
    BY <1>2, <1>3, <1>7 DEF BlockUnlogged, HoldForPrincipal, Typed, Copy, Row
  <2>3. Fails(c, p)
    BY <1>1, <2>1, <2>2 DEF Fails, Taken, Live
  <2> QED BY <2>3 DEF Touches
<1>8. CASE ProviderPublishes(c, p) \/ ProviderParks(c, p)
  <2>1. /\ at[c][p] = "claimed" /\ row' = row
        /\ at'[c][p] \in {"accepted", "parked"}
        /\ \/ Submit(c, p, "published")
           \/ Submit(c, p, "pending") /\ at'[c][p] = "parked"
    BY <1>8 DEF ProviderPublishes, ProviderParks, MayCall, Typed
  <2>2. at'[c][p] = "parked" => p \in Blotato /\ copy'[c][p].row.sub = Len(remote[p]) + 1
    BY <1>2, <1>3, <1>8 DEF ProviderPublishes, ProviderParks, Typed, Copy, Row
  <2>3. /\ Taken(p)' \subseteq Taken(p) \cup {Len(remote[p]) + 1}
        /\ Len(remote[p]) + 1 \in Nat \ {0}
        /\ Live(p) \subseteq Live(p)'
        /\ at'[c][p] = "accepted" => Len(remote[p]) + 1 \in Live(p)'
    BY <2>1, CallTakes
  <2>4. at'[c][p] = "accepted" => copy'[c][p].row.sub \in {0, Len(remote[p]) + 1}
    BY <1>2, <1>3, <1>8 DEF ProviderPublishes, ProviderParks, Typed, Copy, Row
  <2>5. Accepts(c, p)
    BY <1>1, <2>1, <2>2, <2>3, <2>4 DEF Accepts
  <2> QED BY <2>5 DEF Touches
<1>9. CASE ProviderRefuses(c, p)
  <2>1. at[c][p] = "claimed" /\ at'[c][p] = "failed" /\ row' = row
        /\ (UNCHANGED remote \/ Submit(c, p, "failed"))
        /\ UNCHANGED copy
    BY <1>9 DEF ProviderRefuses, MayCall, Typed
  <2>2. Taken(p)' \subseteq Taken(p) /\ Live(p) \subseteq Live(p)'
    BY <2>1, CallTakes DEF Taken, Live
  <2>3. Fails(c, p)
    BY <1>1, <2>1, <2>2 DEF Fails
  <2> QED BY <2>3 DEF Touches
<1>10. CASE AnswerLost(c, p)
  <2>1. /\ at[c][p] = "claimed" /\ at'[c][p] = "failed" /\ UNCHANGED <<row, copy>>
        /\ "answer" \in Faults
        /\ Submit(c, p, "pending") \/ Submit(c, p, "published")
    BY <1>10 DEF AnswerLost, MayCall, Typed
  <2>2. Live(p) \subseteq Live(p)'
    BY <2>1, CallTakes
  <2>3. Fails(c, p)
    BY <1>1, <2>1, <2>2 DEF Fails
  <2> QED BY <2>3 DEF Touches
<1>11. CASE RecordPublished(c, p)
  <2>1. Records(c, p)
    BY <1>1, <1>2, <1>11 DEF RecordPublished, Records, Typed, Row
  <2> QED BY <2>1 DEF Touches
<1>12. CASE LogPublished(c, p) \/ FailureUnlogged(c, p)
  <2>1. Ends(c, p)
    BY <1>1, <1>12 DEF LogPublished, FailureUnlogged, Finish, Ends, Typed
  <2> QED BY <2>1 DEF Touches
<1>13. CASE LogFails(c, p) \/ RecordFailure(c, p)
  <2>1. row'[p] = AfterFailure(copy[c][p].row)
    BY <1>13 DEF LogFails, RecordFailure, Typed
  <2>2. Ends(c, p)
    BY <1>1, <1>2, <1>13, <2>1, FailureStatus DEF LogFails, RecordFailure, Finish, Ends, Typed
  <2> QED BY <2>2 DEF Touches
<1>14. CASE RecordParked(c, p)
  <2>1. Ends(c, p)
    BY <1>1, <1>2, <1>14 DEF RecordParked, Finish, Ends, Typed, Row
  <2> QED BY <2>1 DEF Touches
<1> QED BY <1>4, <1>5, <1>6, <1>7, <1>8, <1>9, <1>10, <1>11, <1>12, <1>13, <1>14 DEF WorkerStep

LEMMA GroupTouches ==
    ASSUME Typed, NEW c \in Cycles, NEW G \in Groups, ClaimGroup(c, G), NEW p \in Posts
    PROVE  Touches(p)
<1> DEFINE listed == {q \in G : at[c][q] = "due"}
           locked == {q \in listed : Claimable(q)}
<1>1. /\ row \in [Posts -> Row] /\ copy[c] \in [Posts -> Copy] /\ at[c] \in [Posts -> Stages]
      /\ at \in [Cycles -> [Posts -> Stages]] /\ copy \in [Cycles -> [Posts -> Copy]]
  BY DEF Typed
<1>2. PICK lost \in Unreachable({q \in locked : ~row[q].bypass}) :
        LET claimed == {q \in locked \ lost : GateOk(row[q])}
        IN /\ row' = [q \in Posts |->
                 IF q \in claimed THEN [row[q] EXCEPT !.status = "publishing"]
                 ELSE IF q \in locked THEN [row[q] EXCEPT !.status = "failed"]
                 ELSE row[q]]
           /\ at' = [at EXCEPT ![c] = [q \in Posts |->
                 IF q \in claimed THEN "claimed"
                 ELSE IF q \in listed THEN "idle" ELSE @[q]]]
           /\ copy' = [copy EXCEPT ![c] = [q \in Posts |->
                 IF q \in claimed THEN [row |-> row[q], text |-> text[q]]
                 ELSE @[q]]]
  BY DEF ClaimGroup
<1> DEFINE claimed == {q \in locked \ lost : GateOk(row[q])}
<1>3. /\ row' = [q \in Posts |->
                 IF q \in claimed THEN [row[q] EXCEPT !.status = "publishing"]
                 ELSE IF q \in locked THEN [row[q] EXCEPT !.status = "failed"]
                 ELSE row[q]]
      /\ at' = [at EXCEPT ![c] = [q \in Posts |->
                 IF q \in claimed THEN "claimed"
                 ELSE IF q \in listed THEN "idle" ELSE at[c][q]]]
      /\ copy' = [copy EXCEPT ![c] = [q \in Posts |->
                 IF q \in claimed THEN [row |-> row[q], text |-> text[q]]
                 ELSE copy[c][q]]]
  BY <1>2
<1>4. /\ claimed \subseteq locked /\ locked \subseteq listed
      /\ \A q \in locked : row[q].status = "scheduled" /\ at[c][q] = "due"
      /\ \A q \in listed : at[c][q] = "due"
  BY DEF Claimable
<1> HIDE DEF claimed, locked, listed
<1>5. Stay(c, p) /\ UNCHANGED <<remote, recon, crashes>>
  BY <1>1, <1>3 DEF ClaimGroup, Stay
<1>6. CASE p \in claimed
  <2>1. Takes(c, p)
    BY <1>1, <1>3, <1>4, <1>5, <1>6 DEF Takes, Row
  <2> QED BY <2>1 DEF Touches, Handles
<1>7. CASE p \in locked \ claimed
  <2>1. row'[p].status = "failed" /\ row'[p].sub = row[p].sub
    BY <1>1, <1>3, <1>7 DEF Row
  <2>2. at'[c][p] = "idle"
    BY <1>1, <1>3, <1>4, <1>7
  <2>3. Rejects(c, p)
    BY <1>4, <1>5, <1>7, <2>1, <2>2 DEF Rejects
  <2> QED BY <2>3 DEF Touches, Handles
<1>8. CASE p \notin locked /\ p \notin claimed
  <2>1. /\ row'[p] = row[p]
        /\ at'[c][p] = at[c][p] \/ (at[c][p] = "due" /\ at'[c][p] = "idle")
        /\ copy'[c][p] = copy[c][p]
    BY <1>1, <1>3, <1>4, <1>8
  <2>2. Spares(p)
    BY <1>5, <2>1 DEF Spares, Stay, Taken, Live, Working
  <2> QED BY <2>2 DEF Touches
<1> QED BY <1>6, <1>7, <1>8

\* Beginning, listing retries, ending, dying: no row is written.
LEMMA CycleTouches ==
    ASSUME Typed, OffIdle, NEW c \in Cycles, NEW p \in Posts,
           BeginCycle(c) \/ StartRetries(c) \/ EndCycle(c) \/ Crash(c) \/ LockExpires(c)
    PROVE  Spares(p)
<1> USE DEF Typed, Working
<1>1. UNCHANGED <<row, remote, recon>>
  BY DEF BeginCycle, StartRetries, EndCycle, Crash, LockExpires
<1>2. \A d \in Cycles : d # c => at'[d] = at[d] /\ copy'[d] = copy[d]
  BY DEF BeginCycle, StartRetries, EndCycle, Crash, LockExpires
<1>3. Taken(p)' = Taken(p) /\ Live(p)' = Live(p)
  BY <1>1 DEF Taken, Live
<1>4. CASE BeginCycle(c)
  <2>1. at[c][p] = "idle" /\ at'[c][p] \in {"due", "idle"} /\ crashes' = crashes
    BY <1>4 DEF BeginCycle, OffIdle
  <2> QED BY <1>1, <1>2, <1>3, <2>1 DEF Spares
<1>5. CASE StartRetries(c)
  <2>1. /\ at[c][p] = "idle" /\ at'[c][p] \in {"queued", "idle"} /\ crashes' = crashes
        /\ at'[c][p] = "queued" =>
               row[p].status = "scheduled" /\ copy'[c][p].row.sub = row[p].sub
    BY <1>5 DEF StartRetries, Quiet, RetryRows
  <2> QED BY <1>1, <1>2, <1>3, <2>1 DEF Spares
<1>6. CASE EndCycle(c) \/ LockExpires(c)
  <2>1. UNCHANGED <<at, copy, crashes>>
    BY <1>6 DEF EndCycle, LockExpires
  <2> QED BY <1>1, <1>3, <2>1 DEF Spares
<1>7. CASE Crash(c)
  <2>1. at'[c][p] = "idle" /\ crashes' > crashes
    BY <1>7 DEF Crash
  <2> QED BY <1>1, <1>2, <1>3, <2>1 DEF Spares
<1> QED BY <1>4, <1>5, <1>6, <1>7

LEMMA WorldTouches ==
    ASSUME Typed, IdsKnown, NEW q \in Posts, NEW p \in Posts,
           \/ ScheduledTimeComes(q) \/ BackoffElapses(q) \/ SubmissionSettles(q)
           \/ ReconcileList(q) \/ ReconcileSave(q) \/ ReconcileMisses(q)
    PROVE  /\ Touches(p)
           /\ UNCHANGED <<phase, at, req>>
<1> USE DEF Typed, engineVars, peopleVars
<1>1. UNCHANGED <<at, copy, crashes, phase, req>>
  BY DEF ScheduledTimeComes, BackoffElapses, SubmissionSettles, ReconcileList,
         ReconcileSave, ReconcileMisses
<1>2. ASSUME row'[p].status = row[p].status, row'[p].sub = row[p].sub,
             Taken(p)' \subseteq Taken(p), Live(p) \subseteq Live(p)',
             \/ recon'[p] \in {0, recon[p]}
             \/ row[p].status = "publishing" /\ recon'[p] = row[p].sub
      PROVE  Touches(p)
  BY <1>1, <1>2 DEF Spares, Touches
<1>3. UNCHANGED remote => Taken(p)' = Taken(p) /\ Live(p)' = Live(p)
  BY DEF Taken, Live
<1>4. CASE ScheduledTimeComes(q) \/ ReconcileList(q) \/ ReconcileMisses(q)
  BY <1>1, <1>2, <1>3, <1>4 DEF ScheduledTimeComes, ReconcileList, ReconcileMisses
<1>5. CASE BackoffElapses(q)
  <2>1. /\ row'[p].status = row[p].status /\ row'[p].sub = row[p].sub
        /\ UNCHANGED <<remote, recon>>
    BY <1>5 DEF BackoffElapses, Row
  <2> QED BY <1>1, <1>2, <1>3, <2>1
<1>6. CASE SubmissionSettles(q)
  <2>1. PICK i \in DOMAIN remote[q] :
          /\ remote[q][i].state = "pending"
          /\ \E outcome \in {"published", "failed"} :
               remote' = [remote EXCEPT ![q][i].state = outcome]
    BY <1>6 DEF SubmissionSettles
  <2>2. /\ DOMAIN remote'[p] = DOMAIN remote[p]
        /\ \A j \in DOMAIN remote[p] :
             remote'[p][j].state # remote[p][j].state => remote[p][j].state = "pending"
    BY <2>1
  <2>3. Taken(p)' \subseteq Taken(p) /\ Live(p) \subseteq Live(p)'
    BY <2>2 DEF Taken, Live
  <2> QED BY <1>1, <1>2, <1>6, <2>3 DEF SubmissionSettles
<1>7. CASE ReconcileSave(q)
  <2>1. UNCHANGED remote
    BY <1>7 DEF ReconcileSave
  <2>2. CASE row'[p] = row[p]
    BY <1>2, <1>3, <1>7, <2>1, <2>2 DEF ReconcileSave
  <2>3. CASE row'[p] # row[p]
    <3> DEFINE state == remote[q][recon[q]].state
    <3>1. recon[q] \in DOMAIN remote[q] /\ state \in {"pending", "published", "failed"}
      <4>1. recon[q] \in 1..Len(remote[q])
        BY <1>7, LenProperties DEF ReconcileSave, IdsKnown
      <4>2. remote[q][recon[q]] \in Submission
        BY <4>1, ElementOfSeq
      <4> QED BY <4>1, <4>2, LenProperties DEF Submission
    <3>2. \/ state # "pending" /\ row' = [row EXCEPT ![q].status = state]
          \/ state = "published" /\ row' = [row EXCEPT ![q].status = state, ![q].sub = 0]
      BY <1>7, <2>3 DEF ReconcileSave
    <3>3. state = "published" => recon[q] \in Live(q)
      BY <3>1 DEF Live
    <3>4. state = "failed" => recon[q] \notin Taken(q)
      BY DEF Taken
    <3> HIDE DEF state
    <3>5. p = q
      BY <2>3, <3>2
    <3>6. \/ row'[p].status = "published" /\ state = "published"
          \/ row'[p].status = "failed" /\ state = "failed" /\ row'[p].sub = row[p].sub
      BY <3>1, <3>2, <3>5 DEF Row
    <3>8. row'[p].sub \in {0, row[p].sub}
      BY <3>2, <3>5 DEF Row
    <3>7. Decides(p)
      BY <1>1, <1>7, <2>1, <3>3, <3>4, <3>5, <3>6, <3>8 DEF ReconcileSave, Decides
    <3> QED BY <1>1, <3>7 DEF Touches
  <2> QED BY <2>2, <2>3
<1> QED BY <1>1, <1>4, <1>5, <1>6, <1>7

\* The requests of people who move nothing.
LEMMA PlainSteps ==
    ASSUME Plain, Unmoved, NEW u \in Users, RequestStep(u)
    PROVE  \/ \E G \in Groups, t \in Texts : PatchOpens(u, G, t) \/ AutosaveText(u, G, t)
           \/ PatchCommits(u) \/ AutosaveClears(u) \/ RequestDies(u)
BY DEF RequestStep, Plain, Unmoved, Opens, ComposeText, ConsoleGates, TransitionReads,
       ComposeReads, ComposeMoves, ConsoleStamps, ComposeSaves, ComposeSchedules,
       TransitionSaves

LEMMA RequestTouches ==
    ASSUME Typed, Plain, Unmoved, NEW u \in Users, RequestStep(u), NEW p \in Posts
    PROVE  Touches(p) /\ UNCHANGED <<phase, at>>
<1> USE DEF Typed, engineVars
<1>1. \/ \E G \in Groups, t \in Texts : PatchOpens(u, G, t) \/ AutosaveText(u, G, t)
      \/ PatchCommits(u) \/ AutosaveClears(u) \/ RequestDies(u)
  BY PlainSteps
<1>2. UNCHANGED <<remote, recon, phase, at, copy>>
  BY <1>1 DEF PatchOpens, AutosaveText, PatchCommits, AutosaveClears, RequestDies
<1>3. crashes' = crashes \/ crashes' > crashes
  <2>1. CASE RequestDies(u)
    BY <2>1 DEF RequestDies
  <2>2. CASE ~RequestDies(u)
    BY <1>1, <2>2 DEF PatchOpens, AutosaveText, PatchCommits, AutosaveClears
  <2> QED BY <2>1, <2>2
<1>4. row' = row \/ ClearGates(req[u].posts)
  BY <1>1 DEF PatchOpens, AutosaveText, PatchCommits, AutosaveClears, RequestDies
<1>5. row'[p].status = row[p].status /\ row'[p].sub = row[p].sub
  <2>1. CASE ClearGates(req[u].posts)
    <3>1. row'[p] = row[p] \/ row'[p] = [row[p] EXCEPT !.gate = None, !.hash = None]
      BY <2>1 DEF ClearGates
    <3>2. row[p] \in Row
      OBVIOUS
    <3> QED BY <3>1, <3>2 DEF Row
  <2> QED BY <1>4, <2>1
<1>6. Touches(p)
  BY <1>2, <1>3, <1>5 DEF Spares, Taken, Live, Working, Touches
<1> QED BY <1>2, <1>6

LEMMA RequestPlain ==
    ASSUME Typed, Plain, Unmoved, NEW u \in Users, RequestStep(u)
    PROVE  Plain' /\ UNCHANGED <<phase, at>>
<1> USE DEF Typed, engineVars
<1>1. \/ \E G \in Groups, t \in Texts : PatchOpens(u, G, t) \/ AutosaveText(u, G, t)
      \/ PatchCommits(u) \/ AutosaveClears(u) \/ RequestDies(u)
  BY PlainSteps
<1>2. \A v \in Users \ {u} : req'[v].op \in {"none", "patch", "autosave"}
  <2>1. \A v \in Users \ {u} : req'[v] = req[v]
    BY <1>1 DEF PatchOpens, AutosaveText, PatchCommits, AutosaveClears, RequestDies, Closes
  <2> QED BY <2>1 DEF Plain
<1>3. req'[u].op \in {"none", "patch", "autosave"}
  <2>1. ASSUME NEW G \in Groups, NEW t \in Texts, PatchOpens(u, G, t)
        PROVE  req'[u].op = "patch"
    <3>1. req'[u] = [NoRequest EXCEPT !.op = "patch", !.posts = G, !.text = t]
      BY <2>1 DEF PatchOpens
    <3> QED BY <3>1 DEF NoRequest
  <2>2. ASSUME NEW G \in Groups, NEW t \in Texts, AutosaveText(u, G, t)
        PROVE  req'[u].op = "autosave"
    <3>1. req'[u] = [NoRequest EXCEPT !.op = "autosave", !.posts = G]
      BY <2>2 DEF AutosaveText
    <3> QED BY <3>1 DEF NoRequest
  <2>3. CASE PatchCommits(u) \/ AutosaveClears(u) \/ RequestDies(u)
    <3>1. req'[u] = NoRequest /\ NoRequest.op = "none"
      BY <2>3 DEF PatchCommits, AutosaveClears, RequestDies, Closes, NoRequest
    <3> QED BY <3>1
  <2> QED BY <1>1, <2>1, <2>2, <2>3
<1>4. \A v \in Users : req'[v].op \in {"none", "patch", "autosave"}
  BY <1>2, <1>3
<1>5. Plain'
  BY ONLY <1>4 DEF Plain
<1>6. UNCHANGED <<phase, at>>
  BY <1>1 DEF PatchOpens, AutosaveText, PatchCommits, AutosaveClears, RequestDies
<1> QED BY <1>5, <1>6

-----------------------------------------------------------------------------
(* The theorems *)

Clear == Inv /\ Plain /\ OffIdle /\ Single

LEMMA InitClear == Init => Clear
<1> SUFFICES ASSUME Init PROVE Plain /\ OffIdle /\ Single
  BY InitTyped DEF Clear
<1>1. Plain
  BY DEF Init, Plain, NoRequest
<1>2. OffIdle /\ Single
  BY DEF Init, OffIdle, Single, Working
<1> QED BY <1>1, <1>2

LEMMA CycleStepCases ==
    ASSUME NEW c \in Cycles, CycleStep(c)
    PROVE  \/ \E G \in Groups : ClaimGroup(c, G)
           \/ StartRetries(c) \/ EndCycle(c)
           \/ \E p \in Posts : WorkerStep(c, p)
BY DEF CycleStep, WorkerStep

LEMMA NextTouches ==
    ASSUME Unmoved, Inv, Plain, OffIdle, [Next]_vars, NEW p \in Posts
    PROVE  Touches(p)
<1>1. Typed /\ IdsKnown
  BY DEF Inv
<1>2. ASSUME NEW c \in Cycles, NEW q \in Posts, WorkerStep(c, q)
      PROVE  Touches(p)
  <2>1. CASE p = q
    BY <1>1, <1>2, <2>1, WorkerTouches
  <2>2. CASE p # q
    <3>1. Spares(p)
      BY <1>1, <1>2, <2>2, WorkerElsewhere, ElsewhereSpared DEF Stay
    <3> QED BY <3>1 DEF Touches
  <2> QED BY <2>1, <2>2
<1>3. ASSUME NEW c \in Cycles, BeginCycle(c) \/ CycleStep(c) \/ Crash(c) \/ LockExpires(c)
      PROVE  Touches(p)
  BY <1>1, <1>2, <1>3, CycleStepCases, GroupTouches, CycleTouches DEF Touches
<1>4. CASE UNCHANGED vars
  <2>1. UNCHANGED <<row, remote, recon, at, copy, crashes>>
    BY <1>4 DEF vars, engineVars
  <2>2. Spares(p)
    BY <2>1 DEF Spares, Taken, Live, Working
  <2> QED BY <2>2 DEF Touches
<1> QED BY <1>1, <1>3, <1>4, WorldTouches, RequestTouches DEF Next

LEMMA NextOffIdle ==
    ASSUME Unmoved, Inv, Plain, OffIdle, [Next]_vars
    PROVE  OffIdle' /\ Plain'
<1>1. Typed /\ IdsKnown
  BY DEF Inv
<1>2. ASSUME NEW c \in Cycles, BeginCycle(c) \/ CycleStep(c) \/ Crash(c) \/ LockExpires(c)
      PROVE  OffIdle' /\ Plain'
  <2> USE DEF Typed, engineVars, peopleVars
  <2>1. CASE BeginCycle(c)
    BY <1>1, <1>2, <2>1 DEF BeginCycle, OffIdle, Plain
  <2>2. CASE StartRetries(c)
    BY <1>1, <2>2 DEF StartRetries, OffIdle, Plain
  <2>3. CASE EndCycle(c)
    BY <1>1, <2>3 DEF EndCycle, Quiet, OffIdle, Plain
  <2>4. CASE Crash(c)
    BY <1>1, <2>4 DEF Crash, OffIdle, Plain
  <2>5. CASE LockExpires(c)
    BY <1>1, <2>5 DEF LockExpires, OffIdle, Plain
  <2>6. ASSUME NEW G \in Groups, ClaimGroup(c, G)
        PROVE  OffIdle' /\ Plain'
    <3>1. /\ phase[c] = "fresh" /\ UNCHANGED <<phase, req>>
          /\ \A d \in Cycles : d # c => at'[d] = at[d]
      BY <1>1, <2>6 DEF ClaimGroup
    <3> QED BY <3>1 DEF OffIdle, Plain
  <2>7. ASSUME NEW q \in Posts, WorkerStep(c, q)
        PROVE  OffIdle' /\ Plain'
    <3>1. /\ UNCHANGED <<phase, req>>
          /\ \A d \in Cycles, p \in Posts : ~(d = c /\ p = q) => at'[d][p] = at[d][p]
      BY <1>1, <2>7, WorkerElsewhere DEF Stay
    <3>2. at[c][q] # "idle"
      BY <2>7 DEF WorkerStep, ClaimRetry, SkipRetry, RetryTurn, Block, BlockUnlogged, Refused,
                  HoldForPrincipal, ProviderPublishes, ProviderParks, ProviderRefuses,
                  AnswerLost, MayCall, RecordPublished, LogPublished, LogFails, RecordParked,
                  RecordFailure, FailureUnlogged
    <3> QED BY <3>1, <3>2 DEF OffIdle, Plain
  <2> QED BY <1>2, <2>1, <2>2, <2>3, <2>4, <2>5, <2>6, <2>7, CycleStepCases
<1>3. ASSUME NEW q \in Posts,
             \/ ScheduledTimeComes(q) \/ BackoffElapses(q) \/ SubmissionSettles(q)
             \/ ReconcileList(q) \/ ReconcileSave(q) \/ ReconcileMisses(q)
      PROVE  OffIdle' /\ Plain'
  BY <1>1, <1>3, WorldTouches DEF OffIdle, Plain
<1>4. ASSUME NEW u \in Users, RequestStep(u)
      PROVE  OffIdle' /\ Plain'
  BY <1>1, <1>4, RequestPlain DEF OffIdle
<1>5. CASE UNCHANGED vars
  BY <1>5 DEF vars, engineVars, peopleVars, OffIdle, Plain
<1> QED BY <1>2, <1>3, <1>4, <1>5 DEF Next

LEMMA NextClear == Unmoved /\ Clear /\ [Next]_vars => Clear'
<1> SUFFICES ASSUME Unmoved, Clear, [Next]_vars PROVE Clear'
  OBVIOUS
<1>1. Inv' /\ OffIdle' /\ Plain'
  BY NextTyped, NextOffIdle DEF Clear
<1>2. \A p \in Posts : Touches(p)
  BY NextTouches DEF Clear
<1>3. Single'
  BY <1>2, SingleKept DEF Clear, Single
<1> QED BY <1>1, <1>3 DEF Clear

LEMMA OneWorker == Single => ExclusiveClaim
<1> SUFFICES ASSUME Single, NEW p \in Posts
             PROVE  Cardinality({c \in Cycles : at[c][p] \in Working}) <= 1
  BY DEF ExclusiveClaim
<1> DEFINE W == {c \in Cycles : at[c][p] \in Working}
<1>1. W = {} \/ \E c \in W : W = {c}
  BY DEF Single
<1>2. \A c \in W : Cardinality({c}) = 1
  BY FS_Singleton
<1> QED BY <1>1, <1>2, FS_EmptySet

LEMMA InitTaken == Init => TakenOnce
BY DEF Init, TakenOnce, Taken

LEMMA NextTaken ==
    Unmoved /\ Answered /\ Clear /\ TakenOnce /\ [Next]_vars => TakenOnce'
<1> SUFFICES ASSUME Unmoved, Answered, Clear, TakenOnce, [Next]_vars PROVE TakenOnce'
  OBVIOUS
<1>1. \A p \in Posts : Touches(p)
  BY NextTouches DEF Clear
<1> QED BY <1>1, TakenKept DEF Clear, TakenOnce

\* Every row begins scheduled, without a submission.
LEMMA InitRows ==
    ASSUME Init
    PROVE  \A p \in Posts :
               row[p].status = "scheduled" /\ row[p].sub = 0 /\ row[p].retry = 0
<1> SUFFICES ASSUME NEW p \in Posts
             PROVE  row[p].status = "scheduled" /\ row[p].sub = 0 /\ row[p].retry = 0
  OBVIOUS
<1> DEFINE scheduled == [BlankRow EXCEPT !.status = "scheduled"]
<1>1. row[p] \in InitialRow(text[p])
  BY DEF Init
<1>2. \/ row[p] = scheduled \/ row[p] = [scheduled EXCEPT !.bypass = TRUE]
      \/ \E g \in Texts : row[p] = [scheduled EXCEPT !.gate = g, !.hash = text[p]]
  BY <1>1 DEF InitialRow
<1> QED BY <1>2 DEF BlankRow

Honest == Told /\ Awaited

LEMMA InitHonest == Init => Honest
<1> SUFFICES ASSUME Init PROVE Honest
  OBVIOUS
<1>1. \A c \in Cycles, p \in Posts : at[c][p] = "idle"
  BY DEF Init
<1>2. \A p \in Posts : recon[p] = 0
  BY DEF Init
<1> QED BY <1>1, <1>2, InitRows DEF Honest, Told, Awaited, Working

LEMMA NextHonest ==
    ASSUME Unmoved, Answered, Clear, TakenOnce, Honest, [Next]_vars
    PROVE  Honest'
<1>1. \A p \in Posts : Touches(p)
  BY NextTouches DEF Clear
<1>2. Told'
  BY <1>1, ToldKept DEF Clear, Honest, Told
<1>3. Awaited'
  BY <1>1, AwaitedKept DEF Clear, Honest, Awaited
<1> QED BY <1>2, <1>3 DEF Honest

\* For any rows and any number of overlapping cycles, with every fault of the model,
\* at most one works on a row, as long as nobody moves rows by hand.
THEOREM ClaimsExclude ==
    ASSUME Unmoved
    PROVE  Spec => []ExclusiveClaim
<1>1. Clear => ExclusiveClaim
  BY OneWorker DEF Clear
<1>2. Clear /\ [Next]_vars => Clear'
  BY NextClear
<1> QED BY InitClear, <1>1, <1>2, PTL DEF Spec

\* For any rows, cycles and crashes a platform shows a post at most once, as long as
\* its answers arrive, the log can be written and nobody moves rows by hand.
THEOREM LiveOnce ==
    ASSUME Unmoved, Answered
    PROVE  Spec => []AtMostOneLive
<1>1. TakenOnce => AtMostOneLive
  <2> SUFFICES ASSUME TakenOnce, NEW p \in Posts PROVE Cardinality(Live(p)) <= 1
    BY DEF AtMostOneLive
  <2>1. Live(p) \subseteq Taken(p)
    BY DEF Live, Taken
  <2>2. Live(p) = {} \/ \E i \in Live(p) : Live(p) = {i}
    BY <2>1 DEF TakenOnce
  <2>3. \A i \in Live(p) : Cardinality({i}) = 1
    BY FS_Singleton
  <2> QED BY <2>2, <2>3, FS_EmptySet
<1>2. Clear /\ [Next]_vars => Clear'
  BY NextClear
<1> QED BY InitClear, InitTaken, NextTaken, <1>1, <1>2, PTL DEF Spec

\* For any rows, cycles, users and captions no row stays in "publishing" with nobody
\* to move it on, but after a crash.
THEOREM NoneOrphaned ==
    ASSUME Unmoved, Answered
    PROVE  Spec => []NoOrphanWithoutCrash
<1>1. Init => Attended
  <2> SUFFICES ASSUME Init PROVE Attended
    OBVIOUS
  <2>1. \A p \in Posts : row[p].status = "scheduled"
    BY InitRows
  <2> QED BY <2>1 DEF Init, Attended, NoOrphanWithoutCrash
<1>2. Clear /\ Attended /\ [Next]_vars => Attended'
  <2> SUFFICES ASSUME Clear, Attended, [Next]_vars PROVE Attended'
    OBVIOUS
  <2>1. \A p \in Posts : Touches(p)
    BY NextTouches DEF Clear
  <2>2. crashes \in Nat /\ crashes' \in Nat
    BY NextTyped DEF Clear, Inv, Typed
  <2> QED BY <2>1, <2>2, AttendedKept DEF Clear, Attended, NoOrphanWithoutCrash
<1>3. Attended => NoOrphanWithoutCrash
  BY DEF Attended
<1>4. Clear /\ [Next]_vars => Clear'
  BY NextClear
<1> QED BY InitClear, <1>1, <1>2, <1>3, <1>4, PTL DEF Spec

\* "failed" and "published" come last in the order of the workflow.
LEMMA AggregateIsLeast ==
    ASSUME NEW children \in SUBSET Statuses, children # {}
    PROVE  /\ DerivePostStatus(children) = "published" => children = {"published"}
           /\ DerivePostStatus(children) = "failed" => children = {"failed"}
<1> DEFINE Least(s) == \A other \in children : WorkflowRank[s] <= WorkflowRank[other]
           least == CHOOSE s \in children : Least(s)
<1>1. \E s \in children : Least(s)
  <2> SUFFICES ASSUME \A s \in children : \E other \in children :
                        ~(WorkflowRank[s] <= WorkflowRank[other])
               PROVE  FALSE
    OBVIOUS
  <2> USE DEF Statuses, WorkflowRank
  <2>1. "draft" \notin children
    OBVIOUS
  <2>2. "changes_requested" \notin children
    BY <2>1
  <2>3. "rejected" \notin children
    BY <2>1, <2>2
  <2>4. "pending_review" \notin children
    BY <2>1, <2>2, <2>3
  <2>5. "pending_client" \notin children
    BY <2>1, <2>2, <2>3, <2>4
  <2>6. "approved" \notin children
    BY <2>1, <2>2, <2>3, <2>4, <2>5
  <2>7. "scheduled" \notin children
    BY <2>1, <2>2, <2>3, <2>4, <2>5, <2>6
  <2>8. "publishing" \notin children
    BY <2>1, <2>2, <2>3, <2>4, <2>5, <2>6, <2>7
  <2>9. "published" \notin children
    BY <2>1, <2>2, <2>3, <2>4, <2>5, <2>6, <2>7, <2>8
  <2>10. \A s \in children : s = "failed"
    BY <2>1, <2>2, <2>3, <2>4, <2>5, <2>6, <2>7, <2>8, <2>9
  <2>11. \E s \in children : TRUE
    OBVIOUS
  <2>12. ~(WorkflowRank["failed"] <= WorkflowRank["failed"])
    BY ONLY <2>10, <2>11, \A s \in children : \E other \in children :
                             ~(WorkflowRank[s] <= WorkflowRank[other])
  <2> QED BY <2>12
<1>2. least \in children /\ Least(least)
  BY <1>1
<1> HIDE DEF least
<1>3. least = "published" => children \subseteq {"published", "failed"}
  BY <1>2 DEF Statuses, WorkflowRank
<1>4. least = "failed" => children \subseteq {"failed"}
  BY <1>2 DEF Statuses, WorkflowRank
<1>5. CASE children = {"published", "failed"}
  BY <1>5 DEF DerivePostStatus
<1>6. CASE children # {"published", "failed"}
  <2>1. DerivePostStatus(children) = least
    BY <1>6 DEF DerivePostStatus, least
  <2> QED BY <1>2, <1>3, <1>4, <1>6, <2>1
<1> QED BY <1>5, <1>6

\* For any posts, cycles and crashes the aggregate status tells the truth, as long as
\* answers arrive, the log can be written and nobody moves rows by hand.
THEOREM StatusHonest ==
    ASSUME Unmoved, Answered
    PROVE  Spec => []AggregateHonest
<1>1. Clear /\ Honest => AggregateHonest
  <2> SUFFICES ASSUME Clear, Honest, NEW G \in Groups
               PROVE  LET status == DerivePostStatus({row[p].status : p \in G})
                      IN /\ status = "published" => \A p \in G : Live(p) # {}
                         /\ status = "failed" => \A p \in G : Live(p) = {}
    BY DEF AggregateHonest
  <2> DEFINE children == {row[p].status : p \in G}
  <2>1. G \subseteq Posts /\ children \subseteq Statuses
    BY EngineAssumption DEF Clear, Inv, Typed, Row
  <2>2. \A p \in G : Live(p) \subseteq Taken(p)
    BY DEF Live, Taken
  <2>3. G = {} \/ children # {}
    OBVIOUS
  <2>4. \A p \in G : /\ row[p].status = "published" => Live(p) # {}
                     /\ row[p].status = "failed" => Live(p) = {}
    BY <2>1, <2>2 DEF Honest, Told
  <2>5. \A p \in G : row[p].status \in children
    OBVIOUS
  <2> HIDE DEF children
  <2>6. CASE G # {}
    BY <2>1, <2>3, <2>4, <2>5, <2>6, AggregateIsLeast DEF children
  <2>7. CASE G = {}
    BY <2>7
  <2> QED BY <2>6, <2>7
<1>2. Clear /\ [Next]_vars => Clear'
  BY NextClear
<1>3. Clear /\ TakenOnce /\ Honest /\ [Next]_vars => Honest'
  BY NextHonest
<1> QED BY InitClear, InitTaken, NextTaken, InitHonest, <1>1, <1>2, <1>3, PTL DEF Spec

\* A submission id that is not one the reconciler will call published is on a row
\* only while nobody works on it; with no log lost there is no other kind.
Shown(p) == {0} \cup {i \in Live(p) : "log" \in Faults}

Traced ==
    \A p \in Posts :
        /\ \A c \in Cycles :
            /\ at[c][p] \in {"queued", "claimed", "failed"} => copy[c][p].row.sub \in Shown(p)
            /\ at[c][p] \in {"accepted", "recorded"} =>
                   copy[c][p].row.sub \in {0} \cup Live(p)
            /\ at[c][p] = "recorded" => row[p].sub \in {0} \cup Live(p)
            /\ at[c][p] \in Working \ {"recorded"} =>
                   row[p].sub \in Shown(p) /\ (row[p].status = "published" => "log" \in Faults)
        /\ row[p].status = "scheduled" => row[p].sub \in Shown(p)
        /\ recon[p] \notin Shown(p) => row[p].status = "publishing" /\ recon[p] = row[p].sub

LEMMA TracedKept ==
    ASSUME Single, Traced, NEW p \in Posts, Touches(p)
    PROVE  /\ \A c \in Cycles :
                /\ at'[c][p] \in {"queued", "claimed", "failed"} =>
                       copy'[c][p].row.sub \in Shown(p)'
                /\ at'[c][p] \in {"accepted", "recorded"} =>
                       copy'[c][p].row.sub \in {0} \cup Live(p)'
                /\ at'[c][p] = "recorded" => row'[p].sub \in {0} \cup Live(p)'
                /\ at'[c][p] \in Working \ {"recorded"} =>
                       row'[p].sub \in Shown(p)' /\ (row'[p].status = "published" => "log" \in Faults)
           /\ row'[p].status = "scheduled" => row'[p].sub \in Shown(p)'
           /\ recon'[p] \notin Shown(p)' => row'[p].status = "publishing" /\ recon'[p] = row'[p].sub
           /\ row[p].status = "published" /\ row'[p].status # "published" =>
                /\ "log" \in Faults
                /\ \E c \in Cycles : at[c][p] \in Working /\ at'[c][p] # at[c][p]
<1> USE DEF Working
<1>1. /\ \A c \in Cycles :
            /\ at[c][p] \in {"queued", "claimed", "failed"} => copy[c][p].row.sub \in Shown(p)
            /\ at[c][p] \in {"accepted", "recorded"} => copy[c][p].row.sub \in {0} \cup Live(p)
            /\ at[c][p] = "recorded" => row[p].sub \in {0} \cup Live(p)
            /\ at[c][p] \in Working \ {"recorded"} =>
                   row[p].sub \in Shown(p) /\ (row[p].status = "published" => "log" \in Faults)
      /\ row[p].status = "scheduled" => row[p].sub \in Shown(p)
      /\ recon[p] \notin Shown(p) => row[p].status = "publishing" /\ recon[p] = row[p].sub
  BY DEF Traced
<1>2. Live(p) \subseteq Live(p)' /\ Live(p) \subseteq Taken(p)
  <2>1. remote'[p] = remote[p] => Live(p)' = Live(p)
    BY DEF Live
  <2> QED BY <2>1 DEF Touches, Handles, Spares, Decides, Takes, Rejects, Fails, Accepts, Records,
                      Ends, Live, Taken
<1>3. /\ Shown(p) \subseteq Shown(p)' /\ 0 \in Shown(p) /\ 0 \in Shown(p)'
      /\ "log" \in Faults => Shown(p) = {0} \cup Live(p) /\ Shown(p)' = {0} \cup Live(p)'
      /\ "log" \notin Faults => Shown(p) = {0} /\ Shown(p)' = {0}
      /\ Shown(p) \subseteq {0} \cup Live(p)
  BY <1>2 DEF Shown
<1>4. CASE Spares(p)
  BY <1>1, <1>2, <1>3, <1>4 DEF Spares
<1>5. CASE Decides(p)
  <2>1. UNCHANGED <<Live(p), Taken(p), Shown(p), at, copy>>
    BY <1>5 DEF Decides, Live, Taken, Shown
  <2> QED BY <1>1, <1>2, <1>3, <1>5, <2>1 DEF Decides
<1>6. ASSUME NEW c \in Cycles, Handles(c, p)
      PROVE  /\ \A d \in Cycles :
                  /\ at'[d][p] \in {"queued", "claimed", "failed"} =>
                         copy'[d][p].row.sub \in Shown(p)'
                  /\ at'[d][p] \in {"accepted", "recorded"} =>
                         copy'[d][p].row.sub \in {0} \cup Live(p)'
                  /\ at'[d][p] = "recorded" => row'[p].sub \in {0} \cup Live(p)'
                  /\ at'[d][p] \in Working \ {"recorded"} =>
                         row'[p].sub \in Shown(p)' /\ (row'[p].status = "published" => "log" \in Faults)
             /\ row'[p].status = "scheduled" => row'[p].sub \in Shown(p)'
             /\ recon'[p] \notin Shown(p)' => row'[p].status = "publishing" /\ recon'[p] = row'[p].sub
             /\ row[p].status = "published" /\ row'[p].status # "published" =>
                  "log" \in Faults /\ at[c][p] \in Working /\ at'[c][p] # at[c][p]
  <2>1. /\ \A d \in Cycles \ {c} : at'[d][p] = at[d][p] /\ copy'[d][p] = copy[d][p]
        /\ recon'[p] = recon[p]
    BY <1>6 DEF Handles, Takes, Rejects, Fails, Accepts, Records, Ends, Stay
  <2>2. at[c][p] \in Working => \A d \in Cycles : at[d][p] \in Working => d = c
    BY DEF Single
  <2>3. row[p].status = "scheduled" => \A d \in Cycles : at[d][p] \notin Working
    BY DEF Single
  <2>4. CASE Takes(c, p)
    BY <1>1, <1>2, <1>3, <2>1, <2>3, <2>4 DEF Takes
  <2>5. CASE Rejects(c, p)
    BY <1>1, <1>2, <1>3, <2>1, <2>2, <2>3, <2>5 DEF Rejects
  <2>6. CASE Fails(c, p)
    BY <1>1, <1>2, <1>3, <2>1, <2>2, <2>6 DEF Fails
  <2>7. CASE Accepts(c, p)
    BY <1>1, <1>2, <1>3, <2>1, <2>2, <2>7 DEF Accepts
  <2>8. CASE Records(c, p)
    BY <1>1, <1>2, <1>3, <2>1, <2>2, <2>8 DEF Records
  <2>9. CASE Ends(c, p)
    BY <1>1, <1>2, <1>3, <2>1, <2>2, <2>9 DEF Ends
  <2> QED BY <1>6, <2>4, <2>5, <2>6, <2>7, <2>8, <2>9 DEF Handles
<1> QED BY <1>4, <1>5, <1>6 DEF Touches

\* For any rows, overlapping cycles, retries and faults a published row is taken back
\* by the cycle at work on it and nobody else, and never if each PublishLog is
\* written, as long as nobody moves rows by hand.
THEOREM UndoneUnlogged ==
    ASSUME Unmoved
    PROVE  Spec => UndoneOnlyUnlogged
<1>1. Init => Traced
  <2> SUFFICES ASSUME Init PROVE Traced
    OBVIOUS
  <2>1. /\ \A c \in Cycles, p \in Posts : at[c][p] = "idle"
        /\ \A p \in Posts : recon[p] = 0
    BY DEF Init
  <2> QED BY <2>1, InitRows DEF Traced, Shown, Working
<1>2. ASSUME Clear, Traced, [Next]_vars
      PROVE  /\ Traced'
             /\ \A p \in Posts : row[p].status = "published" /\ row'[p].status # "published" =>
                  /\ "log" \in Faults
                  /\ \E c \in Cycles : at[c][p] \in Working /\ at'[c][p] # at[c][p]
  <2>1. \A p \in Posts : Touches(p)
    BY <1>2, NextTouches DEF Clear
  <2>2. Single
    BY <1>2 DEF Clear
  <2> QED BY <1>2, <2>1, <2>2, TracedKept DEF Traced
<1>3. Clear /\ [Next]_vars => Clear'
  BY NextClear
<1>4. Clear /\ Traced /\ [Next]_vars => Traced'
  BY <1>2
<1>5. Clear /\ Traced /\ [Next]_vars =>
        [\A p \in Posts : row[p].status = "published" /\ row'[p].status # "published" =>
             /\ "log" \in Faults
             /\ \E c \in Cycles : at[c][p] \in Working /\ at'[c][p] # at[c][p]]_vars
  BY <1>2
<1> QED BY InitClear, <1>1, <1>3, <1>4, <1>5, PTL DEF Spec, UndoneOnlyUnlogged

-----------------------------------------------------------------------------
(* Attempts under the lock *)

\* Every cycle is a tick, which takes the lock first.
Locked == Consoles = {}

LockHeld == \A c \in Cycles : phase[c] # "off" => lock = c

\* A row enters "scheduled" once for each retry it counts, and instances have
\* its count.
Tried ==
    \A p \in Posts :
        /\ openings[p] \in Nat
        /\ openings[p] <= row[p].retry + 1 /\ row[p].retry <= MaxRetries
        /\ \A c \in Cycles :
               at[c][p] \in Holding => copy[c][p].row.retry = row[p].retry

\* A step that counts no retry of p.
Keeps(p) ==
    /\ \/ row'[p].retry = row[p].retry
       \/ \E c \in Cycles : at[c][p] \in Holding /\ row'[p].retry = copy[c][p].row.retry
    /\ row'[p].status = "scheduled" => row[p].status = "scheduled"
    /\ \A c \in Cycles : at'[c][p] \in Holding =>
           \/ copy'[c][p].row.retry = row[p].retry
           \/ at[c][p] \in Holding /\ copy'[c][p].row.retry = copy[c][p].row.retry

\* A failure of the worker c.
Retries(c, p) ==
    /\ phase[c] # "off" /\ at[c][p] \in Working /\ at'[c][p] = "idle"
    /\ row'[p] = AfterFailure(copy[c][p].row)
    /\ \A d \in Cycles \ {c} : at'[d][p] = at[d][p]

LEMMA WorkerKeeps ==
    ASSUME Typed, OffIdle, NEW c \in Cycles, NEW p \in Posts, WorkerStep(c, p)
    PROVE  Keeps(p) \/ Retries(c, p)
<1>1. Stay(c, p)
  BY WorkerElsewhere
<1>2. /\ row[p] \in Row /\ copy[c][p].row \in Row
      /\ at[c] \in [Posts -> Stages] /\ copy[c] \in [Posts -> Copy]
  BY DEF Typed, Copy
<1> USE DEF Working, Holding
<1>3. CASE ClaimRetry(c, p) \/ SkipRetry(c, p)
  <2>1. /\ row'[p].retry = row[p].retry \/ row'[p].retry = copy[c][p].row.retry
        /\ row'[p].status = "scheduled" => row[p].status = "scheduled"
    BY <1>2, <1>3 DEF ClaimRetry, SkipRetry, RetryTurn, Finish, Typed, Row, Copy
  <2>2. at'[c][p] = "idle" \/ copy'[c][p].row.retry = copy[c][p].row.retry
    <3>1. CASE ClaimRetry(c, p)
      <4>1. copy'[c][p].row = [copy[c][p].row EXCEPT !.status = "publishing"]
        BY <1>2, <3>1 DEF ClaimRetry, Typed, Copy
      <4> QED BY <1>2, <4>1 DEF Row
    <3>2. CASE SkipRetry(c, p)
      BY <1>2, <3>2 DEF SkipRetry, Finish, Typed
    <3> QED BY <1>3, <3>1, <3>2
  <2>3. at[c][p] \in Holding
    BY <1>3 DEF ClaimRetry, SkipRetry, RetryTurn, Finish
  <2> QED BY <1>1, <2>1, <2>2, <2>3 DEF Stay, Keeps
<1>4. CASE Block(c, p) \/ BlockUnlogged(c, p) \/ HoldForPrincipal(c, p)
  <2>1. /\ row'[p].retry = row[p].retry \/ row'[p].retry = copy[c][p].row.retry
        /\ row'[p].status = "scheduled" => row[p].status = "scheduled"
    BY <1>2, <1>4 DEF Block, BlockUnlogged, HoldForPrincipal, Refused, Finish, Typed, Row, Copy
  <2>2. at'[c][p] = "idle" \/ copy'[c][p].row.retry = copy[c][p].row.retry
    <3>1. CASE Block(c, p)
      BY <1>2, <3>1 DEF Block, Finish, Typed
    <3>2. CASE BlockUnlogged(c, p) \/ HoldForPrincipal(c, p)
      <4>1. \/ copy'[c][p].row = copy[c][p].row
            \/ copy'[c][p].row = [copy[c][p].row EXCEPT !.status = "failed"]
            \/ copy'[c][p].row = [copy[c][p].row EXCEPT !.status = "pending_client"]
        <5>1. CASE BlockUnlogged(c, p)
          BY <1>2, <5>1 DEF BlockUnlogged, Typed, Copy
        <5>2. CASE HoldForPrincipal(c, p) /\ UNCHANGED copy
          BY <5>2
        <5>3. CASE HoldForPrincipal(c, p) /\ ~UNCHANGED copy
          <6>1. copy' = [copy EXCEPT ![c][p].row.status = "pending_client"]
            BY <5>3 DEF HoldForPrincipal
          <6> QED BY <1>2, <6>1 DEF Typed, Copy
        <5> QED BY <3>2, <5>1, <5>2, <5>3
      <4> QED BY <1>2, <4>1 DEF Row
    <3> QED BY <1>4, <3>1, <3>2
  <2>3. at[c][p] \in Holding
    BY <1>4 DEF Block, BlockUnlogged, HoldForPrincipal, Refused, Finish
  <2> QED BY <1>1, <2>1, <2>2, <2>3 DEF Stay, Keeps
<1>5. CASE ProviderPublishes(c, p) \/ ProviderParks(c, p)
  <2>1. /\ row'[p].retry = row[p].retry \/ row'[p].retry = copy[c][p].row.retry
        /\ row'[p].status = "scheduled" => row[p].status = "scheduled"
    BY <1>2, <1>5 DEF ProviderPublishes, ProviderParks, MayCall, Typed, Row, Copy
  <2>2. at'[c][p] = "idle" \/ copy'[c][p].row.retry = copy[c][p].row.retry
    BY <1>2, <1>5 DEF ProviderPublishes, ProviderParks, MayCall, Typed, Row, Copy
  <2>3. at[c][p] \in Holding
    BY <1>5 DEF ProviderPublishes, ProviderParks, MayCall
  <2> QED BY <1>1, <2>1, <2>2, <2>3 DEF Stay, Keeps
<1>6. CASE ProviderRefuses(c, p) \/ AnswerLost(c, p)
  BY <1>1, <1>2, <1>6 DEF ProviderRefuses, AnswerLost, MayCall, Keeps, Stay, Typed
<1>7. CASE RecordPublished(c, p)
  <2>1. /\ row'[p].retry = row[p].retry \/ row'[p].retry = copy[c][p].row.retry
        /\ row'[p].status = "scheduled" => row[p].status = "scheduled"
    BY <1>2, <1>7 DEF RecordPublished, Typed, Row, Copy
  <2>2. at'[c][p] = "idle" \/ copy'[c][p].row.retry = copy[c][p].row.retry
    BY <1>2, <1>7 DEF RecordPublished, Typed, Row, Copy
  <2>3. at[c][p] \in Holding
    BY <1>7 DEF RecordPublished
  <2> QED BY <1>1, <2>1, <2>2, <2>3 DEF Stay, Keeps
<1>8. CASE LogPublished(c, p) \/ RecordParked(c, p) \/ FailureUnlogged(c, p)
  <2>1. /\ row'[p].retry = row[p].retry \/ row'[p].retry = copy[c][p].row.retry
        /\ row'[p].status = "scheduled" => row[p].status = "scheduled"
    BY <1>2, <1>8 DEF LogPublished, RecordParked, FailureUnlogged, Finish, Typed, Row, Copy
  <2>2. at'[c][p] = "idle" \/ copy'[c][p].row.retry = copy[c][p].row.retry
    BY <1>2, <1>8 DEF LogPublished, RecordParked, FailureUnlogged, Finish, Typed, Row, Copy
  <2>3. at[c][p] \in Holding
    BY <1>8 DEF LogPublished, RecordParked, FailureUnlogged, Finish
  <2> QED BY <1>1, <2>1, <2>2, <2>3 DEF Stay, Keeps
<1>9. CASE LogFails(c, p) \/ RecordFailure(c, p)
  <2>1. phase[c] # "off"
    BY <1>9 DEF LogFails, RecordFailure, OffIdle
  <2> QED BY <1>1, <1>9, <2>1 DEF LogFails, RecordFailure, Finish, Retries, Stay, Typed
<1> QED BY <1>3, <1>4, <1>5, <1>6, <1>7, <1>8, <1>9 DEF WorkerStep

LEMMA GroupKeeps ==
    ASSUME Typed, NEW c \in Cycles, NEW G \in Groups, ClaimGroup(c, G), NEW p \in Posts
    PROVE  Keeps(p)
<1> USE DEF Holding, Working
<1>1. /\ row \in [Posts -> Row] /\ at \in [Cycles -> [Posts -> Stages]]
      /\ copy \in [Cycles -> [Posts -> Copy]]
  BY DEF Typed
<1>2. /\ \/ row'[p] = row[p]
         \/ row'[p] = [row[p] EXCEPT !.status = "publishing"]
         \/ row'[p] = [row[p] EXCEPT !.status = "failed"]
      /\ \/ at'[c][p] = "claimed" /\ copy'[c][p].row = row[p]
         \/ at'[c][p] = "idle"
         \/ at'[c][p] = at[c][p] /\ copy'[c][p] = copy[c][p]
      /\ \A d \in Cycles \ {c} : at'[d][p] = at[d][p] /\ copy'[d][p] = copy[d][p]
  BY <1>1 DEF ClaimGroup
<1>3. /\ row'[p].retry = row[p].retry
      /\ row'[p].status \in {row[p].status, "publishing", "failed"}
  BY <1>1, <1>2 DEF Row
<1> QED BY <1>2, <1>3 DEF Keeps

LEMMA CycleKeeps ==
    ASSUME Typed, NEW c \in Cycles, NEW p \in Posts,
           BeginCycle(c) \/ StartRetries(c) \/ EndCycle(c) \/ Crash(c) \/ LockExpires(c)
    PROVE  Keeps(p)
<1> USE DEF Typed, Holding, Working
<1>1. UNCHANGED row
  BY DEF BeginCycle, StartRetries, EndCycle, Crash, LockExpires
<1>2. \A d \in Cycles : d # c => at'[d] = at[d] /\ copy'[d] = copy[d]
  BY DEF BeginCycle, StartRetries, EndCycle, Crash, LockExpires
<1>3. \/ at'[c][p] \in {"idle", "due"}
      \/ copy'[c][p].row.retry = row[p].retry
      \/ at'[c][p] = at[c][p] /\ copy'[c][p] = copy[c][p]
  BY DEF BeginCycle, StartRetries, EndCycle, Crash, LockExpires
<1> QED BY <1>1, <1>2, <1>3 DEF Keeps

LEMMA OthersKeep ==
    ASSUME Typed, IdsKnown, Plain, Unmoved, NEW p \in Posts,
           \/ \E q \in Posts :
                \/ ScheduledTimeComes(q) \/ BackoffElapses(q) \/ SubmissionSettles(q)
                \/ ReconcileList(q) \/ ReconcileSave(q) \/ ReconcileMisses(q)
           \/ \E u \in Users : RequestStep(u)
    PROVE  Keeps(p) /\ UNCHANGED <<lock, phase>>
<1> USE DEF Typed, engineVars
<1>1. ASSUME NEW q \in Posts,
             \/ ScheduledTimeComes(q) \/ BackoffElapses(q) \/ SubmissionSettles(q)
             \/ ReconcileList(q) \/ ReconcileMisses(q)
      PROVE  /\ row'[p].retry = row[p].retry /\ row'[p].status = row[p].status
             /\ UNCHANGED <<lock, phase, at, copy>>
  <2>1. UNCHANGED <<lock, phase, at, copy>>
    BY <1>1 DEF ScheduledTimeComes, BackoffElapses, SubmissionSettles, ReconcileList,
                ReconcileMisses
  <2>2. CASE BackoffElapses(q)
    BY <2>1, <2>2 DEF BackoffElapses, Row
  <2>3. CASE ~BackoffElapses(q)
    BY <1>1, <2>1, <2>3 DEF ScheduledTimeComes, SubmissionSettles, ReconcileList,
                            ReconcileMisses
  <2> QED BY <2>2, <2>3
<1>2. ASSUME NEW q \in Posts, ReconcileSave(q)
      PROVE  /\ row'[p].retry = row[p].retry
             /\ row'[p].status = "scheduled" => row[p].status = "scheduled"
             /\ UNCHANGED <<lock, phase, at, copy>>
  <2>1. remote[q][recon[q]] \in Submission
    <3>1. recon[q] \in 1..Len(remote[q])
      BY <1>2, LenProperties DEF ReconcileSave, IdsKnown
    <3> QED BY <3>1, ElementOfSeq
  <2>2. remote[q][recon[q]].state # "scheduled"
    BY <2>1 DEF Submission
  <2>3. UNCHANGED <<lock, phase, at, copy>>
    BY <1>2 DEF ReconcileSave
  <2>4. CASE p # q
    BY <1>2, <2>3, <2>4 DEF ReconcileSave
  <2>5. CASE p = q
    <3>1. row[p] \in Row /\ remote[p][recon[p]].state # "scheduled"
      BY <2>2, <2>5
    <3>2. \/ row'[p] = row[p]
          \/ row'[p] = [row[p] EXCEPT !.status = remote[p][recon[p]].state]
          \/ row'[p] = [row[p] EXCEPT !.status = remote[p][recon[p]].state, !.sub = 0]
      BY <1>2, <2>5 DEF ReconcileSave
    <3> QED BY <2>3, <3>1, <3>2 DEF Row
  <2> QED BY <2>4, <2>5
<1>3. ASSUME NEW u \in Users, RequestStep(u)
      PROVE  /\ row'[p].retry = row[p].retry /\ row'[p].status = row[p].status
             /\ UNCHANGED <<lock, phase, at, copy>>
  <2>1. \/ \E G \in Groups, t \in Texts : PatchOpens(u, G, t) \/ AutosaveText(u, G, t)
        \/ PatchCommits(u) \/ AutosaveClears(u) \/ RequestDies(u)
    BY <1>3, PlainSteps
  <2>2. UNCHANGED <<lock, phase, at, copy>> /\ (row' = row \/ ClearGates(req[u].posts))
    BY <2>1 DEF PatchOpens, AutosaveText, PatchCommits, AutosaveClears, RequestDies
  <2>3. row'[p] = row[p] \/ row'[p] = [row[p] EXCEPT !.gate = None, !.hash = None]
    BY <2>2 DEF ClearGates
  <2> QED BY <2>2, <2>3 DEF Row
<1> QED BY <1>1, <1>2, <1>3 DEF Keeps

LEMMA NextKeeps ==
    ASSUME Unmoved, Clear, [Next]_vars, NEW p \in Posts
    PROVE  Keeps(p) \/ \E c \in Cycles : Retries(c, p)
<1>1. Typed /\ IdsKnown /\ Plain /\ OffIdle
  BY DEF Clear, Inv
<1>2. ASSUME NEW c \in Cycles, NEW q \in Posts, WorkerStep(c, q)
      PROVE  Keeps(p) \/ Retries(c, p)
  <2>1. CASE p = q
    BY <1>1, <1>2, <2>1, WorkerKeeps
  <2>2. CASE p # q
    BY <1>1, <1>2, <2>2, WorkerElsewhere DEF Keeps
  <2> QED BY <2>1, <2>2
<1>3. ASSUME NEW c \in Cycles, BeginCycle(c) \/ CycleStep(c) \/ Crash(c) \/ LockExpires(c)
      PROVE  Keeps(p) \/ Retries(c, p)
  BY <1>1, <1>2, <1>3, CycleStepCases, GroupKeeps, CycleKeeps
<1>4. CASE UNCHANGED vars
  BY <1>4 DEF vars, engineVars, Keeps
<1> QED BY <1>1, <1>3, <1>4, OthersKeep DEF Next

LEMMA NextLocked ==
    ASSUME Unmoved, Locked, Clear, LockHeld, [Next]_vars
    PROVE  LockHeld'
<1>1. Typed /\ IdsKnown /\ Plain
  BY DEF Clear, Inv
<1>2. Cycles = Ticks /\ None \notin Ticks
  BY EngineAssumption DEF Locked, Cycles
<1>3. ASSUME NEW c \in Cycles, BeginCycle(c) \/ CycleStep(c) \/ Crash(c) \/ LockExpires(c)
      PROVE  LockHeld'
  <2> USE DEF Typed, LockHeld
  <2>1. CASE BeginCycle(c)
    BY <1>1, <1>2, <2>1 DEF BeginCycle, Locked
  <2>2. CASE StartRetries(c) \/ EndCycle(c) \/ Crash(c) \/ LockExpires(c)
    BY <1>1, <2>2 DEF StartRetries, EndCycle, Crash, LockExpires
  <2>3. ASSUME NEW G \in Groups, ClaimGroup(c, G)
        PROVE  LockHeld'
    BY <2>3 DEF ClaimGroup
  <2>4. ASSUME NEW q \in Posts, WorkerStep(c, q)
        PROVE  LockHeld'
    <3>1. UNCHANGED <<lock, phase>>
      BY <2>4 DEF WorkerStep, ClaimRetry, SkipRetry, Block, BlockUnlogged, HoldForPrincipal,
                  ProviderPublishes, ProviderParks, ProviderRefuses, AnswerLost,
                  RecordPublished, LogPublished, LogFails, RecordParked, RecordFailure,
                  FailureUnlogged
    <3> QED BY <3>1
  <2> QED BY <1>3, <2>1, <2>2, <2>3, <2>4, CycleStepCases
<1>4. ASSUME UNCHANGED <<lock, phase>>
      PROVE  LockHeld'
  BY <1>4 DEF LockHeld
<1>5. CASE UNCHANGED vars
  BY <1>4, <1>5 DEF vars, engineVars
<1>6. ASSUME NEW p \in Posts,
             \/ \E q \in Posts :
                  \/ ScheduledTimeComes(q) \/ BackoffElapses(q) \/ SubmissionSettles(q)
                  \/ ReconcileList(q) \/ ReconcileSave(q) \/ ReconcileMisses(q)
             \/ \E u \in Users : RequestStep(u)
      PROVE  LockHeld'
  BY <1>1, <1>4, <1>6, OthersKeep
<1>7. ASSUME NEW u \in Users, RequestStep(u)
      PROVE  LockHeld'
  <2>1. UNCHANGED <<lock, phase>>
    BY <1>1, <1>7, PlainSteps
    DEF PatchOpens, AutosaveText, PatchCommits, AutosaveClears, RequestDies, engineVars
  <2> QED BY <1>4, <2>1
<1> QED BY <1>3, <1>5, <1>6, <1>7 DEF Next

LEMMA NextTried ==
    ASSUME Unmoved, Locked, Clear, LockHeld, Tried, [Next]_vars
    PROVE  Tried'
<1> SUFFICES ASSUME NEW p \in Posts
             PROVE  /\ openings'[p] \in Nat
                    /\ openings'[p] <= row'[p].retry + 1 /\ row'[p].retry <= MaxRetries
                    /\ \A c \in Cycles :
                           at'[c][p] \in Holding => copy'[c][p].row.retry = row'[p].retry
  BY DEF Tried
<1>1. /\ row \in [Posts -> Row] /\ copy \in [Cycles -> [Posts -> Copy]]
      /\ MaxRetries \in Nat
  BY EngineAssumption DEF Clear, Inv, Typed
<1>2. /\ openings[p] \in Nat /\ row[p].retry \in Nat
      /\ openings[p] <= row[p].retry + 1 /\ row[p].retry <= MaxRetries
      /\ \A c \in Cycles : at[c][p] \in Holding => copy[c][p].row.retry = row[p].retry
  BY <1>1 DEF Tried, Row
<1>3. \/ openings'[p] = openings[p]
      \/ /\ openings'[p] = openings[p] + 1
         /\ row[p].status # "scheduled" /\ row'[p].status = "scheduled"
  BY DEF Next, History, vars, historyVars
<1>4. CASE Keeps(p)
  <2>1. row'[p].retry = row[p].retry
    BY <1>2, <1>4 DEF Keeps
  <2>2. openings'[p] = openings[p]
    BY <1>3, <1>4 DEF Keeps
  <2> QED BY <1>2, <1>4, <2>1, <2>2 DEF Keeps
<1>5. ASSUME NEW c \in Cycles, Retries(c, p)
      PROVE  /\ openings'[p] \in Nat
             /\ openings'[p] <= row'[p].retry + 1 /\ row'[p].retry <= MaxRetries
             /\ \A d \in Cycles :
                    at'[d][p] \in Holding => copy'[d][p].row.retry = row'[p].retry
  <2> DEFINE r == copy[c][p].row
  <2>1. r \in Row /\ r.retry = row[p].retry /\ row'[p] = AfterFailure(r)
    BY <1>1, <1>2, <1>5 DEF Retries, Holding, Copy
  <2>2. \A d \in Cycles : at'[d][p] \notin Holding
    <3> SUFFICES ASSUME NEW d \in Cycles, at'[d][p] \in Holding PROVE FALSE
      OBVIOUS
    <3>1. d # c /\ at[d][p] # "idle"
      BY <1>5 DEF Retries, Holding, Working
    <3> QED BY <1>5, <3>1 DEF Retries, LockHeld, Clear, OffIdle
  <2> HIDE DEF r
  <2>3. CASE r.retry >= MaxRetries
    <3>1. row'[p].retry = r.retry /\ row'[p].status = "failed"
      BY <2>1, <2>3 DEF AfterFailure, Row
    <3> QED BY <1>2, <1>3, <2>1, <2>2, <3>1
  <2>4. CASE ~(r.retry >= MaxRetries)
    <3>1. row'[p].retry = r.retry + 1
      BY <2>1, <2>4 DEF AfterFailure, Row
    <3> QED BY <1>1, <1>2, <1>3, <2>1, <2>2, <2>4, <3>1
  <2> QED BY <2>3, <2>4
<1> QED BY <1>4, <1>5, NextKeeps

\* For any rows, ticks, crashes and faults, lost answers and failing logs too, a row is
\* attempted at most 1 + MAX_RETRIES times while every cycle runs under the lock and
\* nobody moves rows by hand.
THEOREM AttemptsLimited ==
    ASSUME Unmoved, Locked
    PROVE  Spec => []AttemptsBounded
<1>1. Init => LockHeld /\ Tried
  <2> SUFFICES ASSUME Init PROVE LockHeld /\ Tried
    OBVIOUS
  <2>1. \A p \in Posts : row[p].retry = 0
    BY InitRows
  <2> QED BY <2>1, EngineAssumption DEF Init, LockHeld, Tried, Holding, Working
<1>2. Clear /\ LockHeld /\ [Next]_vars => LockHeld'
  BY NextLocked
<1>3. Clear /\ LockHeld /\ Tried /\ [Next]_vars => Tried'
  BY NextTried
<1>4. Clear /\ Tried /\ OneSubmissionPerScheduling => AttemptsBounded
  <2> SUFFICES ASSUME Clear, Tried, OneSubmissionPerScheduling, NEW p \in Posts
               PROVE  openings[p] <= MaxRetries + 1 /\ Len(remote[p]) <= MaxRetries + 1
    BY DEF AttemptsBounded
  <2>1. row[p].retry \in Nat /\ Len(remote[p]) \in Nat /\ MaxRetries \in Nat
    BY EngineAssumption, LenProperties DEF Clear, Inv, Typed, Row
  <2> QED BY <2>1 DEF Tried, OneSubmissionPerScheduling
<1>5. Clear /\ [Next]_vars => Clear'
  BY NextClear
<1> QED BY InitClear, AtMostOneCallPerScheduling, <1>1, <1>2, <1>3, <1>4, <1>5, PTL DEF Spec

-----------------------------------------------------------------------------
(* The gate, whoever moves rows *)

\* The gate lets the instance r through only for a bypass or a cleared caption t.
Fits(r, t) == GateOk(r) => r.bypass \/ t \in Cleared

SameGate(r, s) == r.gate = s.gate /\ r.hash = s.hash /\ r.bypass = s.bypass

RowFits(p) == HalfEdited(p) \/ Fits(row[p], text[p])

\* An instance in a cycle is of the caption the row has, and nobody is half way
\* through an edit of it.
HeldFits(p) ==
    \A c \in Cycles : at[c][p] \in Holding =>
        ~HalfEdited(p) /\ copy[c][p].text = text[p] /\ Fits(copy[c][p].row, text[p])

\* A console stamps the caption it asked about; rows the composer has behind it
\* bypass the gate.
AskFits(u, p) ==
    /\ p \in req[u].left => p \in req[u].posts
    /\ req[u].op = "console" /\ p \in req[u].posts =>
           text[p] = req[u].text /\ text[p] \in Cleared
    /\ req[u].op \in {"compose", "compose_row"} /\ p \in req[u].posts =>
           p \in req[u].left \/ row[p].bypass

SentFits(p) ==
    \A i \in DOMAIN remote[p] : remote[p][i].gated => remote[p][i].text \in Cleared

Vouched(p) ==
    RowFits(p) /\ HeldFits(p) /\ SentFits(p) /\ \A u \in Users : AskFits(u, p)

\* A step of a cycle, of a platform or of the reconciler: verdicts only move
\* between the row and the instances of it.
Carries(p) ==
    /\ UNCHANGED <<text, req>>
    /\ \/ SameGate(row'[p], row[p])
       \/ \E c \in Cycles : at[c][p] \in Holding /\ SameGate(row'[p], copy[c][p].row)
    /\ \A c \in Cycles : at'[c][p] \in Holding =>
           \/ /\ at[c][p] \in Holding /\ copy'[c][p].text = copy[c][p].text
              /\ SameGate(copy'[c][p].row, copy[c][p].row)
           \/ copy'[c][p] = [row |-> row[p], text |-> text[p]]
    /\ \A i \in DOMAIN remote'[p] :
           \/ /\ i \in DOMAIN remote[p] /\ remote'[p][i].text = remote[p][i].text
              /\ remote'[p][i].gated = remote[p][i].gated
           \/ \E c \in Cycles : /\ at[c][p] \in Holding /\ GateOk(copy[c][p].row)
                                /\ remote'[p][i].text = copy[c][p].text
                                /\ remote'[p][i].gated = ~copy[c][p].row.bypass

LEMMA SameFits ==
    ASSUME NEW r, NEW s, NEW t, SameGate(r, s), Fits(s, t)
    PROVE  Fits(r, t)
BY DEF SameGate, Fits, GateOk

LEMMA NotRaced ==
    ASSUME Inv, History, NEW p \in Posts, p \notin raced'
    PROVE  /\ p \notin raced
           /\ text'[p] # text[p] => ~InFlight(p) /\ ~GateInHand(p)
           /\ ~(InFlight(p)' /\ HalfEdited(p)')
           /\ crashes' # crashes => ~HalfEdited(p)
BY DEF History

LEMMA CarriesVouched ==
    ASSUME Inv, History, NEW p \in Posts, p \notin raced', Vouched(p), Carries(p)
    PROVE  Vouched(p)'
<1>1. /\ text' = text /\ req' = req
      /\ HalfEdited(p)' = HalfEdited(p)
  BY DEF Carries, HalfEdited
<1>2. RowFits(p)'
  <2>1. HalfEdited(p) \/ Fits(row'[p], text[p])
    <3>1. CASE SameGate(row'[p], row[p])
      BY <3>1, SameFits DEF Vouched, RowFits
    <3>2. CASE \E c \in Cycles : at[c][p] \in Holding /\ SameGate(row'[p], copy[c][p].row)
      BY <3>2, SameFits DEF Vouched, HeldFits
    <3> QED BY <3>1, <3>2 DEF Carries
  <2> QED BY <1>1, <2>1 DEF RowFits, Fits, GateOk
<1>3. HeldFits(p)'
  <2> SUFFICES ASSUME NEW c \in Cycles, at'[c][p] \in Holding
               PROVE  /\ ~HalfEdited(p)' /\ copy'[c][p].text = text'[p]
                      /\ Fits(copy'[c][p].row, text'[p])
    BY DEF HeldFits, Fits, GateOk
  <2>1. ~HalfEdited(p)' /\ ~HalfEdited(p)
    <3>1. InFlight(p)'
      BY DEF InFlight
    <3> QED BY <1>1, <3>1, NotRaced
  <2>2. CASE copy'[c][p] = [row |-> row[p], text |-> text[p]]
    BY <1>1, <2>1, <2>2 DEF Vouched, RowFits
  <2>3. CASE /\ at[c][p] \in Holding /\ copy'[c][p].text = copy[c][p].text
             /\ SameGate(copy'[c][p].row, copy[c][p].row)
    BY <1>1, <2>1, <2>3, SameFits DEF Vouched, HeldFits
  <2> QED BY <2>2, <2>3 DEF Carries
<1>4. SentFits(p)'
  <2> SUFFICES ASSUME NEW i \in DOMAIN remote'[p], remote'[p][i].gated
               PROVE  remote'[p][i].text \in Cleared
    BY DEF SentFits
  <2>1. CASE /\ i \in DOMAIN remote[p] /\ remote'[p][i].text = remote[p][i].text
             /\ remote'[p][i].gated = remote[p][i].gated
    BY <2>1 DEF Vouched, SentFits
  <2>2. CASE \E c \in Cycles : /\ at[c][p] \in Holding /\ GateOk(copy[c][p].row)
                               /\ remote'[p][i].text = copy[c][p].text
                               /\ remote'[p][i].gated = ~copy[c][p].row.bypass
    BY <2>2 DEF Vouched, HeldFits, Fits
  <2> QED BY <2>1, <2>2 DEF Carries
<1>5. ASSUME NEW u \in Users
      PROVE  AskFits(u, p)'
  <2>1. \/ SameGate(row'[p], row[p])
        \/ ~(req[u].op \in {"compose", "compose_row"} /\ p \in req[u].posts)
    BY DEF Carries, Vouched, HeldFits, HalfEdited
  <2> QED BY <1>1, <2>1 DEF Vouched, AskFits, SameGate
<1> QED BY <1>2, <1>3, <1>4, <1>5 DEF Vouched

\* What a call adds carries the caption of its instance.
LEMMA CallCarries ==
    ASSUME Typed, NEW c \in Cycles, NEW p \in Posts,
           NEW state \in {"pending", "published", "failed"}, Submit(c, p, state)
    PROVE  \A i \in DOMAIN remote'[p] :
               \/ i \in DOMAIN remote[p] /\ remote'[p][i] = remote[p][i]
               \/ /\ remote'[p][i].text = copy[c][p].text
                  /\ remote'[p][i].gated = ~copy[c][p].row.bypass
<1> DEFINE new == [text |-> copy[c][p].text, state |-> state, gated |-> ~copy[c][p].row.bypass]
<1>1. remote'[p] = Append(remote[p], new)
  BY DEF Submit, Typed
<1>2. new.text = copy[c][p].text /\ new.gated = ~copy[c][p].row.bypass
  OBVIOUS
<1> HIDE DEF new
<1>3. remote[p] \in Seq(Submission) /\ Len(remote[p]) \in Nat
  BY LenProperties DEF Typed
<1>4. /\ DOMAIN remote[p] = 1..Len(remote[p])
      /\ DOMAIN remote'[p] = 1..(Len(remote[p]) + 1)
      /\ \A i \in 1..Len(remote[p]) : remote'[p][i] = remote[p][i]
      /\ remote'[p][Len(remote[p]) + 1] = new
  BY <1>1, <1>3
<1> QED BY <1>2, <1>3, <1>4

\* The instance a worker goes on with has the verdict and caption it had.
SameCopy(c, p) ==
    /\ copy'[c][p].text = copy[c][p].text
    /\ SameGate(copy'[c][p].row, copy[c][p].row)

LEMMA WorkerCarries ==
    ASSUME Typed, NEW c \in Cycles, NEW p \in Posts, WorkerStep(c, p)
    PROVE  Carries(p)
<1>1. Stay(c, p)
  BY WorkerElsewhere
<1>2. /\ row[p] \in Row /\ copy[c][p] \in Copy /\ copy[c][p].row \in Row
      /\ row \in [Posts -> Row] /\ at \in [Cycles -> [Posts -> Stages]]
      /\ copy \in [Cycles -> [Posts -> Copy]] /\ remote \in [Posts -> Seq(Submission)]
  BY DEF Typed, Copy
<1>3. UNCHANGED <<text, req>>
  BY WorkerElsewhere
  DEF WorkerStep, ClaimRetry, SkipRetry, Block, BlockUnlogged, HoldForPrincipal,
      ProviderPublishes, ProviderParks, ProviderRefuses, AnswerLost, RecordPublished,
      LogPublished, LogFails, RecordParked, RecordFailure, FailureUnlogged
<1>4. at[c][p] \in Holding
  BY DEF WorkerStep, ClaimRetry, SkipRetry, RetryTurn, Block, BlockUnlogged, Refused,
         HoldForPrincipal, MayCall, ProviderPublishes, ProviderParks, ProviderRefuses,
         AnswerLost, RecordPublished, LogPublished, LogFails, RecordParked, RecordFailure,
         FailureUnlogged, Holding, Working
<1>5. SameGate(row'[p], row[p]) \/ SameGate(row'[p], copy[c][p].row)
  <2>1. CASE \/ SkipRetry(c, p) \/ ProviderPublishes(c, p) \/ ProviderParks(c, p)
             \/ ProviderRefuses(c, p) \/ AnswerLost(c, p) \/ LogPublished(c, p)
             \/ FailureUnlogged(c, p)
    BY <2>1 DEF SkipRetry, ProviderPublishes, ProviderParks, ProviderRefuses, AnswerLost,
                LogPublished, FailureUnlogged, SameGate
  <2>2. CASE \/ ClaimRetry(c, p) \/ Block(c, p) \/ BlockUnlogged(c, p)
             \/ HoldForPrincipal(c, p) \/ RecordParked(c, p)
    <3>1. \/ row'[p] = row[p]
          \/ \E s \in Statuses : row'[p] = [row[p] EXCEPT !.status = s]
          \/ row'[p] = [row[p] EXCEPT !.status = "publishing", !.sub = copy[c][p].row.sub]
      BY <1>2, <2>2, StatusesInUse
      DEF ClaimRetry, Block, BlockUnlogged, HoldForPrincipal, RecordParked
    <3> QED BY <1>2, <3>1 DEF Row, SameGate
  <2>3. CASE RecordPublished(c, p)
    <3>1. row'[p] = [copy[c][p].row EXCEPT !.status = "published"]
      BY <1>2, <2>3 DEF RecordPublished
    <3> QED BY <1>2, <3>1 DEF Row, SameGate
  <2>4. CASE LogFails(c, p) \/ RecordFailure(c, p)
    <3>1. row'[p] = AfterFailure(copy[c][p].row)
      BY <1>2, <2>4 DEF LogFails, RecordFailure
    <3> QED BY <1>2, <3>1 DEF Row, AfterFailure, SameGate
  <2> QED BY <2>1, <2>2, <2>3, <2>4 DEF WorkerStep
<1>6. at'[c][p] \in Holding => SameCopy(c, p)
  <2>1. CASE \/ SkipRetry(c, p) \/ Block(c, p) \/ RecordParked(c, p) \/ LogPublished(c, p)
             \/ LogFails(c, p) \/ RecordFailure(c, p) \/ FailureUnlogged(c, p)
    BY <1>2, <2>1 DEF SkipRetry, Block, RecordParked, LogPublished, LogFails, RecordFailure,
                      FailureUnlogged, Finish, Holding, Working
  <2>2. CASE ProviderRefuses(c, p) \/ AnswerLost(c, p) \/ RecordPublished(c, p)
    BY <2>2 DEF ProviderRefuses, AnswerLost, RecordPublished, SameCopy, SameGate
  <2>3. CASE ClaimRetry(c, p) \/ BlockUnlogged(c, p) \/ HoldForPrincipal(c, p)
    <3>1. \/ copy' = copy
          \/ copy' = [copy EXCEPT ![c][p].row.status = "publishing"]
          \/ copy' = [copy EXCEPT ![c][p].row.status = "failed"]
          \/ copy' = [copy EXCEPT ![c][p].row.status = "pending_client"]
      BY <2>3 DEF ClaimRetry, BlockUnlogged, HoldForPrincipal
    <3>2. ASSUME NEW s, copy' = [copy EXCEPT ![c][p].row.status = s]
          PROVE  SameCopy(c, p)
      BY <1>2, <3>2 DEF Copy, Row, SameCopy, SameGate
    <3>3. copy' = copy => SameCopy(c, p)
      BY DEF SameCopy, SameGate
    <3> QED BY <3>1, <3>2, <3>3
  <2>4. CASE ProviderPublishes(c, p) \/ ProviderParks(c, p)
    <3>1. \E id : copy' = [copy EXCEPT ![c][p].row.sub = id]
      BY <2>4 DEF ProviderPublishes, ProviderParks
    <3> QED BY <1>2, <3>1 DEF Copy, Row, SameCopy, SameGate
  <2> QED BY <2>1, <2>2, <2>3, <2>4 DEF WorkerStep
<1>7. \A i \in DOMAIN remote'[p] :
          \/ i \in DOMAIN remote[p] /\ remote'[p][i] = remote[p][i]
          \/ /\ GateOk(copy[c][p].row) /\ remote'[p][i].text = copy[c][p].text
             /\ remote'[p][i].gated = ~copy[c][p].row.bypass
  <2>1. CASE UNCHANGED remote
    BY <2>1
  <2>2. CASE \E state \in {"pending", "published", "failed"} :
               Submit(c, p, state) /\ MayCall(c, p)
    BY <2>2, CallCarries DEF MayCall
  <2>3. CASE \/ ProviderPublishes(c, p) \/ ProviderParks(c, p) \/ ProviderRefuses(c, p)
             \/ AnswerLost(c, p)
    <3>1. MayCall(c, p)
      BY <2>3 DEF ProviderPublishes, ProviderParks, ProviderRefuses, AnswerLost
    <3>2. \/ UNCHANGED remote
          \/ \E state \in {"pending", "published", "failed"} : Submit(c, p, state)
      BY <2>3 DEF ProviderPublishes, ProviderParks, ProviderRefuses, AnswerLost
    <3> QED BY <2>1, <2>2, <3>1, <3>2
  <2>4. CASE ClaimRetry(c, p) \/ SkipRetry(c, p) \/ Block(c, p) \/ BlockUnlogged(c, p)
    BY <2>4 DEF ClaimRetry, SkipRetry, Block, BlockUnlogged
  <2>5. CASE HoldForPrincipal(c, p) \/ RecordPublished(c, p) \/ RecordParked(c, p)
    BY <2>5 DEF HoldForPrincipal, RecordPublished, RecordParked
  <2>6. CASE \/ LogPublished(c, p) \/ LogFails(c, p) \/ RecordFailure(c, p)
             \/ FailureUnlogged(c, p)
    BY <2>6 DEF LogPublished, LogFails, RecordFailure, FailureUnlogged
  <2> QED BY <2>3, <2>4, <2>5, <2>6 DEF WorkerStep
<1>8. /\ \/ SameGate(row'[p], row[p])
         \/ \E d \in Cycles : at[d][p] \in Holding /\ SameGate(row'[p], copy[d][p].row)
      /\ \A i \in DOMAIN remote'[p] :
             \/ /\ i \in DOMAIN remote[p] /\ remote'[p][i].text = remote[p][i].text
                /\ remote'[p][i].gated = remote[p][i].gated
             \/ \E d \in Cycles : /\ at[d][p] \in Holding /\ GateOk(copy[d][p].row)
                                  /\ remote'[p][i].text = copy[d][p].text
                                  /\ remote'[p][i].gated = ~copy[d][p].row.bypass
  BY <1>4, <1>5, <1>7
<1>9. \A d \in Cycles : at'[d][p] \in Holding =>
          /\ at[d][p] \in Holding /\ copy'[d][p].text = copy[d][p].text
          /\ SameGate(copy'[d][p].row, copy[d][p].row)
  <2> SUFFICES ASSUME NEW d \in Cycles, at'[d][p] \in Holding
               PROVE  /\ at[d][p] \in Holding /\ copy'[d][p].text = copy[d][p].text
                      /\ SameGate(copy'[d][p].row, copy[d][p].row)
    OBVIOUS
  <2>1. CASE d = c
    BY <1>4, <1>6, <2>1 DEF SameCopy
  <2>2. CASE d # c
    BY <1>1, <2>2 DEF Stay, SameGate
  <2> QED BY <2>1, <2>2
<1> QED BY <1>3, <1>8, <1>9 DEF Carries

LEMMA ElsewhereCarries ==
    ASSUME NEW p \in Posts, UNCHANGED <<text, req>>, row'[p] = row[p], remote'[p] = remote[p],
           \A c \in Cycles : at'[c][p] = at[c][p] /\ copy'[c][p] = copy[c][p]
    PROVE  Carries(p)
BY DEF Carries, SameGate

LEMMA GroupCarries ==
    ASSUME Typed, NEW c \in Cycles, NEW G \in Groups, ClaimGroup(c, G), NEW p \in Posts
    PROVE  Carries(p)
<1>1. /\ row \in [Posts -> Row] /\ at \in [Cycles -> [Posts -> Stages]]
      /\ copy \in [Cycles -> [Posts -> Copy]]
  BY DEF Typed
<1>2. /\ \/ row'[p] = row[p]
         \/ row'[p] = [row[p] EXCEPT !.status = "publishing"]
         \/ row'[p] = [row[p] EXCEPT !.status = "failed"]
      /\ \/ copy'[c][p] = [row |-> row[p], text |-> text[p]]
         \/ at'[c][p] = "idle"
         \/ at'[c][p] = at[c][p] /\ copy'[c][p] = copy[c][p]
      /\ \A d \in Cycles \ {c} : at'[d][p] = at[d][p] /\ copy'[d][p] = copy[d][p]
      /\ UNCHANGED <<text, req, remote>>
  BY <1>1 DEF ClaimGroup, peopleVars
<1>3. SameGate(row'[p], row[p])
  BY <1>1, <1>2 DEF Row, SameGate
<1> QED BY <1>2, <1>3 DEF Carries, SameGate, Holding, Working

LEMMA CycleCarries ==
    ASSUME Typed, NEW c \in Cycles, NEW p \in Posts,
           BeginCycle(c) \/ StartRetries(c) \/ EndCycle(c) \/ Crash(c) \/ LockExpires(c)
    PROVE  Carries(p)
<1> USE DEF Typed, Holding, Working
<1>1. UNCHANGED <<row, text, req, remote>>
  BY DEF BeginCycle, StartRetries, EndCycle, Crash, LockExpires, peopleVars
<1>2. \A d \in Cycles : d # c => at'[d] = at[d] /\ copy'[d] = copy[d]
  BY DEF BeginCycle, StartRetries, EndCycle, Crash, LockExpires
<1>3. \/ at'[c][p] \in {"idle", "due"}
      \/ copy'[c][p] = [row |-> row[p], text |-> text[p]]
      \/ at'[c][p] = at[c][p] /\ copy'[c][p] = copy[c][p]
  BY DEF BeginCycle, StartRetries, EndCycle, Crash, LockExpires
<1> QED BY <1>1, <1>2, <1>3 DEF Carries, SameGate

LEMMA WorldCarries ==
    ASSUME Typed, NEW q \in Posts, NEW p \in Posts,
           \/ ScheduledTimeComes(q) \/ BackoffElapses(q) \/ SubmissionSettles(q)
           \/ ReconcileList(q) \/ ReconcileSave(q) \/ ReconcileMisses(q)
    PROVE  Carries(p)
<1> USE DEF Typed, engineVars, peopleVars
<1>1. UNCHANGED <<at, copy, text, req>>
  BY DEF ScheduledTimeComes, BackoffElapses, SubmissionSettles, ReconcileList,
         ReconcileSave, ReconcileMisses
<1>2. ASSUME SameGate(row'[p], row[p]), UNCHANGED remote
      PROVE  Carries(p)
  BY <1>1, <1>2 DEF Carries, SameGate
<1>3. CASE ScheduledTimeComes(q) \/ ReconcileList(q) \/ ReconcileMisses(q)
  BY <1>2, <1>3 DEF ScheduledTimeComes, ReconcileList, ReconcileMisses, SameGate
<1>4. CASE BackoffElapses(q)
  <2>1. SameGate(row'[p], row[p])
    BY <1>4 DEF BackoffElapses, Row, SameGate
  <2> QED BY <1>2, <1>4, <2>1 DEF BackoffElapses
<1>5. CASE SubmissionSettles(q)
  <2>1. PICK i \in DOMAIN remote[q], outcome \in {"published", "failed"} :
          remote' = [remote EXCEPT ![q][i].state = outcome]
    BY <1>5 DEF SubmissionSettles
  <2>2. /\ remote[p] \in Seq(Submission) /\ DOMAIN remote[p] = 1..Len(remote[p])
        /\ \A j \in DOMAIN remote[p] : remote[p][j] \in Submission
    BY ElementOfSeq, LenProperties
  <2>3. /\ DOMAIN remote'[p] = DOMAIN remote[p]
        /\ \A j \in DOMAIN remote[p] : \/ remote'[p][j] = remote[p][j]
                                      \/ remote'[p][j] = [remote[p][j] EXCEPT !.state = outcome]
    BY <2>1
  <2>4. \A j \in DOMAIN remote[p] : /\ remote'[p][j].text = remote[p][j].text
                                   /\ remote'[p][j].gated = remote[p][j].gated
    BY <2>2, <2>3 DEF Submission
  <2> QED BY <1>1, <1>5, <2>3, <2>4 DEF SubmissionSettles, Carries, SameGate
<1>6. CASE ReconcileSave(q)
  <2>1. \/ row'[p] = row[p]
        \/ row'[p] = [row[p] EXCEPT !.status = remote[q][recon[q]].state]
        \/ row'[p] = [row[p] EXCEPT !.status = remote[q][recon[q]].state, !.sub = 0]
    BY <1>6 DEF ReconcileSave
  <2>2. SameGate(row'[p], row[p])
    BY <2>1 DEF Row, SameGate
  <2> QED BY <1>2, <1>6, <2>2 DEF ReconcileSave
<1> QED BY <1>3, <1>4, <1>5, <1>6

Half(u, p) == req[u].op \in {"autosave", "compose", "compose_row"} /\ p \in req[u].posts

\* A statement of the request of u: what it may do to row p and its caption.
Turns(u, p) ==
    /\ UNCHANGED <<at, copy, remote>>
    /\ \A v \in Users \ {u} : req'[v] = req[v]
    /\ row[p].bypass => row'[p].bypass
    /\ \/ /\ SameGate(row'[p], row[p]) /\ text'[p] = text[p]
          /\ Half(u, p) => Half(u, p)'
       \/ Half(u, p)'
       \/ Fits(row'[p], text'[p])
    /\ AskFits(u, p)'

LEMMA TurnsVouched ==
    ASSUME Inv, History, NEW u \in Users, NEW p \in Posts, p \notin raced',
           Vouched(p), Turns(u, p)
    PROVE  Vouched(p)'
<1>1. HalfEdited(p)' \/ (Fits(row'[p], text'[p]) /\ ~Half(u, p)')
  <2> SUFFICES ASSUME ~HalfEdited(p)' PROVE Fits(row'[p], text'[p]) /\ ~Half(u, p)'
    OBVIOUS
  <2>1. ~Half(u, p)' /\ \A v \in Users \ {u} : ~Half(v, p)
    BY DEF HalfEdited, Half, Turns
  <2>2. Half(u, p) => Fits(row'[p], text'[p])
    BY <2>1 DEF Turns
  <2>3. ~Half(u, p) => Fits(row[p], text[p])
    BY <2>1 DEF HalfEdited, Half, Vouched, RowFits
  <2> QED BY <2>1, <2>2, <2>3, SameFits DEF Turns
<1>2. RowFits(p)'
  BY <1>1 DEF RowFits, Fits, GateOk
<1>3. HeldFits(p)'
  <2> SUFFICES ASSUME NEW c \in Cycles, at'[c][p] \in Holding
               PROVE  /\ ~HalfEdited(p)' /\ copy'[c][p].text = text'[p]
                      /\ Fits(copy'[c][p].row, text'[p])
    BY DEF HeldFits, Fits, GateOk
  <2>1. at' = at /\ copy' = copy /\ InFlight(p) /\ InFlight(p)'
    BY DEF Turns, InFlight
  <2>2. text'[p] = text[p] /\ ~HalfEdited(p)'
    BY <2>1, NotRaced
  <2> QED BY <2>1, <2>2 DEF Vouched, HeldFits
<1>4. SentFits(p)'
  BY DEF Vouched, SentFits, Turns
<1>5. ASSUME NEW v \in Users, v # u
      PROVE  AskFits(v, p)'
  <2>1. AskFits(v, p) /\ req'[v] = req[v]
    BY <1>5 DEF Vouched, Turns
  <2>2. req[v].op = "console" /\ p \in req[v].posts => text'[p] = text[p]
    BY NotRaced DEF GateInHand
  <2> QED BY <2>1, <2>2 DEF AskFits, Turns
<1> QED BY <1>2, <1>3, <1>4, <1>5 DEF Vouched, Turns

\* Fields of a request that is being made, or is over.
LEMMA NoRequestFields ==
    NoRequest.op = "none" /\ NoRequest.posts = {} /\ NoRequest.left = {}
BY DEF NoRequest

LEMMA ClosesAsk ==
    ASSUME Typed, NEW u \in Users, NEW p \in Posts, req'[u] = NoRequest
    PROVE  AskFits(u, p)' /\ ~Half(u, p)'
BY NoRequestFields DEF AskFits, Half

\* A row whose gate was cleared asks the gate again.
LEMMA ClearedFits ==
    ASSUME Typed, NEW G, ClearGates(G), NEW p \in Posts
    PROVE  /\ p \in G => row'[p].gate = None /\ Fits(row'[p], text'[p])
           /\ p \notin G => row'[p] = row[p]
           /\ row'[p].bypass = row[p].bypass
<1>1. row[p] \in Row /\ None \notin Cleared
  BY EngineAssumption DEF Typed
<1>2. row'[p] = IF p \in G /\ row[p].gate # None
                THEN [row[p] EXCEPT !.gate = None, !.hash = None] ELSE row[p]
  BY DEF ClearGates
<1>3. p \in G => row'[p].gate = None
  BY <1>1, <1>2 DEF Row
<1>4. row'[p].bypass = row[p].bypass
  BY <1>1, <1>2 DEF Row
<1> QED BY <1>1, <1>2, <1>3, <1>4 DEF Fits, GateOk

LEMMA EditTurns ==
    ASSUME Typed, NEW u \in Users, NEW p \in Posts, Vouched(p),
           \/ \E G \in Groups, t \in Texts : PatchOpens(u, G, t) \/ AutosaveText(u, G, t)
           \/ PatchCommits(u) \/ AutosaveClears(u)
    PROVE  Turns(u, p)
<1> USE DEF Typed, engineVars
<1>1. /\ UNCHANGED <<at, copy, remote>>
      /\ \A v \in Users \ {u} : req'[v] = req[v]
  BY DEF PatchOpens, AutosaveText, PatchCommits, AutosaveClears, Closes
<1>2. ASSUME NEW G \in Groups, NEW t \in Texts, PatchOpens(u, G, t)
      PROVE  Turns(u, p)
  <2>1. req[u] = NoRequest /\ UNCHANGED <<row, text>>
    BY <1>2 DEF PatchOpens, Opens
  <2>2. req'[u] = [NoRequest EXCEPT !.op = "patch", !.posts = G, !.text = t]
    BY <1>2 DEF PatchOpens
  <2>3. req'[u].op = "patch" /\ req'[u].left = {}
    BY <2>2 DEF NoRequest
  <2> QED BY <1>1, <2>1, <2>3, NoRequestFields DEF Turns, SameGate, Half, AskFits
<1>3. ASSUME NEW G \in Groups, NEW t \in Texts, AutosaveText(u, G, t)
      PROVE  Turns(u, p)
  <2>1. req[u] = NoRequest /\ UNCHANGED row /\ (p \notin G => text'[p] = text[p])
    BY <1>3 DEF AutosaveText, Opens, WriteText
  <2>2. req'[u] = [NoRequest EXCEPT !.op = "autosave", !.posts = G]
    BY <1>3 DEF AutosaveText
  <2>3. req'[u].op = "autosave" /\ req'[u].posts = G /\ req'[u].left = {}
    BY <2>2 DEF NoRequest
  <2> QED BY <1>1, <2>1, <2>3, NoRequestFields DEF Turns, SameGate, Half, AskFits
<1>4. CASE PatchCommits(u)
  <2>1. /\ req[u].op = "patch" /\ ClearGates(req[u].posts) /\ req'[u] = NoRequest
        /\ p \notin req[u].posts => text'[p] = text[p]
    BY <1>4 DEF PatchCommits, Closes, WriteText
  <2> QED BY <1>1, <2>1, ClosesAsk, ClearedFits DEF Turns, SameGate, Half
<1>5. CASE AutosaveClears(u)
  <2>1. ClearGates(req[u].posts) /\ req'[u] = NoRequest /\ UNCHANGED text
    BY <1>5 DEF AutosaveClears, Closes
  <2> QED BY <1>1, <2>1, ClosesAsk, ClearedFits DEF Turns, SameGate, Half
<1> QED BY <1>2, <1>3, <1>4, <1>5

LEMMA ComposeTurns ==
    ASSUME Typed, NEW u \in Users, NEW p \in Posts, Vouched(p),
           \/ \E G \in Groups, t \in Texts, target \in {"draft", "scheduled"} :
                 ComposeText(u, G, t, target)
           \/ \E q \in Posts : ComposeReads(u, q) \/ ComposeMoves(u, q)
           \/ ComposeSaves(u) \/ ComposeSchedules(u)
    PROVE  Turns(u, p)
<1> USE DEF Typed, engineVars
<1>1. /\ UNCHANGED <<at, copy, remote>>
      /\ \A v \in Users \ {u} : req'[v] = req[v]
  BY DEF ComposeText, ComposeReads, ComposeMoves, ComposeSaves, ComposeSchedules
<1>2. req[u] \in Request /\ row[p] \in Row /\ AskFits(u, p)
  BY DEF Vouched
<1>3. ASSUME NEW G \in Groups, NEW t \in Texts, NEW target \in {"draft", "scheduled"},
             ComposeText(u, G, t, target)
      PROVE  Turns(u, p)
  <2>1. req[u] = NoRequest /\ UNCHANGED row /\ (p \notin G => text'[p] = text[p])
    BY <1>3 DEF ComposeText, Opens, WriteText
  <2>2. req'[u] = [NoRequest EXCEPT !.op = "compose", !.posts = G, !.left = G,
                                    !.target = target]
    BY <1>3 DEF ComposeText
  <2>3. req'[u].op = "compose" /\ req'[u].posts = G /\ req'[u].left = G
    BY <2>2 DEF NoRequest
  <2> QED BY <1>1, <2>1, <2>3, NoRequestFields DEF Turns, SameGate, Half, AskFits
<1>4. ASSUME NEW q \in Posts, ComposeReads(u, q)
      PROVE  Turns(u, p)
  <2>1. /\ req[u].op = "compose" /\ req'[u].op = "compose_row"
        /\ req'[u].posts = req[u].posts /\ req'[u].left = req[u].left
        /\ UNCHANGED <<row, text>>
    BY <1>2, <1>4 DEF ComposeReads, Request
  <2> QED BY <1>1, <1>2, <2>1 DEF Turns, SameGate, Half, AskFits
<1>5. CASE ComposeSaves(u)
  <2> DEFINE q == req[u].post
             left == req[u].left \ {q}
  <2>1. /\ req[u].op = "compose_row" /\ UNCHANGED text
        /\ row' = [row EXCEPT ![q] = [req[u].seen[q] EXCEPT !.bypass = TRUE]]
    BY <1>5 DEF ComposeSaves
  <2>2. \/ left = {} /\ req'[u] = NoRequest
        \/ req'[u].op = "compose" /\ req'[u].posts = req[u].posts /\ req'[u].left = left
    BY <1>2, <1>5 DEF ComposeSaves, Request
  <2>3. p = q => row'[p].bypass = TRUE
    <3>1. p = q => req[u].seen[q] \in Row
      BY <1>2 DEF Request
    <3> QED BY <2>1, <3>1 DEF Row
  <2>4. p # q => row'[p] = row[p]
    BY <2>1
  <2> HIDE DEF q, left
  <2>5. p \in left => p \in req[u].left
    BY DEF left
  <2>6. p \in req[u].left => p = q \/ p \in left
    BY DEF left
  <2>7. p \in req[u].posts => p \in left \/ row'[p].bypass
    BY <1>2, <2>1, <2>3, <2>4, <2>6 DEF AskFits
  <2>8. AskFits(u, p)'
    BY <1>2, <2>2, <2>5, <2>7, ClosesAsk DEF AskFits
  <2>9. row[p].bypass => row'[p].bypass
    BY <2>3, <2>4
  <2>10. row'[p].bypass => Fits(row'[p], text'[p])
    BY DEF Fits
  <2>11. CASE p \in req[u].posts
    BY <1>1, <2>2, <2>7, <2>8, <2>9, <2>10, <2>11 DEF Turns, Half
  <2>12. CASE p \notin req[u].posts
    <3>1. ~Half(u, p)
      BY <2>12 DEF Half
    <3>2. p = q => Fits(row'[p], text'[p])
      BY <2>3, <2>10
    <3> QED BY <1>1, <2>1, <2>4, <2>8, <2>9, <3>1, <3>2 DEF Turns, SameGate
  <2> QED BY <2>11, <2>12
<1>6. CASE ComposeSchedules(u)
  <2>1. /\ req[u].op = "compose" /\ req[u].left = {} /\ UNCHANGED <<row, text>>
        /\ req'[u].op = "move" /\ req'[u].left = req[u].posts
        /\ req'[u].posts = req[u].posts
    BY <1>2, <1>6 DEF ComposeSchedules, Request
  <2>2. p \in req[u].posts => Fits(row'[p], text'[p])
    BY <1>2, <2>1 DEF AskFits, Fits
  <2> QED BY <1>1, <2>1, <2>2 DEF Turns, SameGate, Half, AskFits
<1>7. ASSUME NEW q \in Posts, ComposeMoves(u, q)
      PROVE  Turns(u, p)
  <2>1. /\ req[u].op = "move" /\ UNCHANGED text
        /\ \/ req'[u] = NoRequest
           \/ /\ req'[u].op = "move" /\ req'[u].posts = req[u].posts
              /\ req'[u].left = req[u].left \ {q}
    BY <1>2, <1>7 DEF ComposeMoves, Request
  <2>2. SameGate(row'[p], row[p])
    <3>1. row'[p] = row[p] \/ row'[p] = [row[p] EXCEPT !.status = "scheduled"]
      BY <1>7 DEF ComposeMoves
    <3> QED BY <1>2, <3>1 DEF Row, SameGate
  <2>3. AskFits(u, p)'
    BY <1>2, <2>1, ClosesAsk DEF AskFits
  <2> QED BY <1>1, <2>1, <2>2, <2>3 DEF Turns, SameGate, Half
<1> QED BY <1>3, <1>4, <1>5, <1>6, <1>7

LEMMA DecisionTurns ==
    ASSUME Typed, NEW u \in Users, NEW p \in Posts, Vouched(p),
           crashes' # crashes => ~HalfEdited(p),
           \/ \E G \in Groups : ConsoleGates(u, G)
           \/ \E q \in Posts : ConsoleStamps(u, q)
           \/ \E q \in Posts, target \in Statuses : TransitionReads(u, q, target)
           \/ TransitionSaves(u) \/ RequestDies(u)
    PROVE  Turns(u, p)
<1> USE DEF Typed, engineVars
<1>1. /\ UNCHANGED <<at, copy, remote, text>>
      /\ \A v \in Users \ {u} : req'[v] = req[v]
  BY DEF ConsoleGates, ConsoleStamps, TransitionReads, TransitionSaves, RequestDies, Closes
<1>2. req[u] \in Request /\ row[p] \in Row /\ AskFits(u, p)
  BY DEF Vouched
<1>3. ASSUME NEW G \in Groups, ConsoleGates(u, G)
      PROVE  Turns(u, p)
  <2>1. PICK t \in Cleared :
          /\ \A q \in G : text[q] = t
          /\ req' = [req EXCEPT ![u] = [NoRequest EXCEPT !.op = "console", !.posts = G,
                                                         !.left = G, !.text = t]]
    BY <1>3 DEF ConsoleGates
  <2>2. req[u] = NoRequest /\ UNCHANGED row
    BY <1>3 DEF ConsoleGates, Opens
  <2>3. /\ req'[u].op = "console" /\ req'[u].posts = G /\ req'[u].left = G
        /\ req'[u].text = t
    BY <2>1 DEF NoRequest
  <2> QED BY <1>1, <2>1, <2>2, <2>3, NoRequestFields DEF Turns, SameGate, Half, AskFits
<1>4. ASSUME NEW q \in Posts, ConsoleStamps(u, q)
      PROVE  Turns(u, p)
  <2>1. /\ req[u].op = "console" /\ q \in req[u].left
        /\ \/ req'[u] = NoRequest
           \/ /\ req'[u].op = "console" /\ req'[u].posts = req[u].posts
              /\ req'[u].left = req[u].left \ {q} /\ req'[u].text = req[u].text
    BY <1>2, <1>4 DEF ConsoleStamps, Request
  <2>2. AskFits(u, p)' /\ ~Half(u, p)
    BY <1>1, <1>2, <2>1, ClosesAsk DEF AskFits, Half
  <2>3. CASE p = q
    <3>1. row'[p] = [row[p] EXCEPT !.gate = req[u].text, !.hash = req[u].text,
                                   !.status = "scheduled"]
      BY <1>4, <2>3 DEF ConsoleStamps
    <3>2. row'[p].bypass = row[p].bypass
      BY <1>2, <3>1 DEF Row
    <3>3. text[p] \in Cleared
      BY <1>2, <2>1, <2>3 DEF AskFits
    <3> QED BY <1>1, <2>2, <3>2, <3>3 DEF Turns, Fits
  <2>4. CASE p # q
    <3>1. row'[p] = row[p]
      BY <1>4, <2>4 DEF ConsoleStamps
    <3> QED BY <1>1, <2>2, <3>1 DEF Turns, SameGate
  <2> QED BY <2>3, <2>4
<1>5. ASSUME NEW q \in Posts, NEW target \in Statuses, TransitionReads(u, q, target)
      PROVE  Turns(u, p)
  <2>1. req[u] = NoRequest /\ UNCHANGED row
    BY <1>5 DEF TransitionReads, Opens
  <2>2. req'[u] = [NoRequest EXCEPT !.op = "transition", !.post = q, !.target = target]
    BY <1>5 DEF TransitionReads
  <2>3. req'[u].op = "transition" /\ req'[u].posts = {} /\ req'[u].left = {}
    BY <2>2 DEF NoRequest
  <2> QED BY <1>1, <2>1, <2>3, NoRequestFields DEF Turns, SameGate, Half, AskFits
<1>6. CASE TransitionSaves(u)
  <2>1. req[u].op = "transition" /\ req'[u] = NoRequest
    BY <1>6 DEF TransitionSaves, Closes
  <2>2. SameGate(row'[p], row[p])
    <3>1. row'[p] = row[p] \/ row'[p] = [row[p] EXCEPT !.status = req[u].target]
      BY <1>6 DEF TransitionSaves
    <3> QED BY <1>2, <3>1 DEF Row, SameGate
  <2> QED BY <1>1, <2>1, <2>2, ClosesAsk DEF Turns, SameGate, Half
<1>7. CASE RequestDies(u)
  <2>1. UNCHANGED row /\ req'[u] = NoRequest /\ ~HalfEdited(p)
    BY <1>7 DEF RequestDies, Closes
  <2>2. ~Half(u, p)
    BY <2>1 DEF HalfEdited, Half
  <2> QED BY <1>1, <2>1, <2>2, ClosesAsk DEF Turns, SameGate
<1> QED BY <1>3, <1>4, <1>5, <1>6, <1>7

LEMMA NextVouched ==
    ASSUME Inv, [Next]_vars, NEW p \in Posts, p \notin raced => Vouched(p), p \notin raced'
    PROVE  Vouched(p)'
<1>1. Typed
  BY DEF Inv
<1>2. CASE UNCHANGED vars
  <2>1. UNCHANGED <<row, text, remote, at, copy, req, raced>>
    BY <1>2 DEF vars, engineVars, peopleVars, historyVars
  <2> QED BY <2>1 DEF Vouched, RowFits, HeldFits, SentFits, AskFits, HalfEdited, Fits, GateOk
<1>3. CASE Next
  <2>1. History /\ Vouched(p) /\ (crashes' # crashes => ~HalfEdited(p))
    BY <1>3, NotRaced DEF Next
  <2>2. ASSUME NEW c \in Cycles, NEW q \in Posts, WorkerStep(c, q)
        PROVE  Carries(p)
    <3>1. CASE p = q
      BY <1>1, <2>2, <3>1, WorkerCarries
    <3>2. CASE p # q
      <4>1. UNCHANGED <<text, req>>
        BY <1>1, <2>2, WorkerCarries DEF Carries
      <4> QED BY <1>1, <2>2, <3>2, <4>1, WorkerElsewhere, ElsewhereCarries
    <3> QED BY <3>1, <3>2
  <2>3. ASSUME NEW c \in Cycles, BeginCycle(c) \/ CycleStep(c) \/ Crash(c) \/ LockExpires(c)
        PROVE  Carries(p)
    BY <1>1, <2>2, <2>3, CycleStepCases, GroupCarries, CycleCarries
  <2>4. ASSUME NEW u \in Users, RequestStep(u)
        PROVE  Turns(u, p)
    BY <1>1, <2>1, <2>4, EditTurns, ComposeTurns, DecisionTurns DEF RequestStep
  <2>5. Carries(p) \/ \E u \in Users : Turns(u, p)
    BY <1>1, <1>3, <2>3, <2>4, WorldCarries DEF Next
  <2> QED BY <2>1, <2>5, CarriesVouched, TurnsVouched
<1> QED BY <1>2, <1>3

LEMMA InitVouched ==
    ASSUME Init, NEW p \in Posts
    PROVE  Vouched(p)
<1> DEFINE scheduled == [BlankRow EXCEPT !.status = "scheduled"]
<1>1. row[p] \in InitialRow(text[p]) /\ None \notin Cleared
  BY EngineAssumption DEF Init
<1>2. \/ row[p] = scheduled \/ row[p] = [scheduled EXCEPT !.bypass = TRUE]
      \/ \E g \in Texts : row[p] = [scheduled EXCEPT !.gate = g, !.hash = text[p]]
  BY <1>1 DEF InitialRow
<1>3. row[p].bypass \/ row[p].gate = None \/ row[p].hash = text[p]
  BY <1>2 DEF BlankRow
<1>4. Fits(row[p], text[p])
  BY <1>1, <1>3 DEF Fits, GateOk
<1>5. \A u \in Users : AskFits(u, p)
  BY NoRequestFields DEF Init, AskFits
<1> QED BY <1>4, <1>5 DEF Init, Vouched, RowFits, HeldFits, SentFits, Holding, Working

\* For any rows, cycles, people, edits, crashes and faults, a caption the gate did not
\* clear goes out on a gate verdict only if it was edited while a cycle or a request held
\* the row.
THEOREM OnlyRacesSlip == Spec => []UnclearedOnlyByRace
<1> DEFINE AllVouched == \A p \in Posts : p \notin raced => Vouched(p)
<1>1. Init => AllVouched
  BY InitVouched
<1>2. Inv /\ AllVouched /\ [Next]_vars => AllVouched'
  BY NextVouched
<1>3. AllVouched => UnclearedOnlyByRace
  BY DEF Vouched, SentFits, UnclearedOnlyByRace
<1> HIDE DEF AllVouched
<1> QED BY InitTyped, NextTyped, <1>1, <1>2, <1>3, PTL DEF Spec

-----------------------------------------------------------------------------
(* The specifications the engine implements: the ledger of submissions ...    *)

StatesOf(s) == [i \in DOMAIN s |-> s[i].state]

\* The submissions of each row, as the ledger sees them.
Sent == [p \in Posts |-> StatesOf(remote[p])]

LEMMA StatesTyped ==
    ASSUME NEW s \in Seq(Submission)
    PROVE  /\ Len(s) \in Nat /\ DOMAIN s = 1..Len(s)
           /\ DOMAIN StatesOf(s) = 1..Len(s) /\ Len(StatesOf(s)) = Len(s)
           /\ StatesOf(s) \in Seq({"pending", "published", "failed"})
<1>1. Len(s) \in Nat /\ DOMAIN s = 1..Len(s) /\ \A i \in 1..Len(s) : s[i] \in Submission
  BY LenProperties, ElementOfSeq
<1>2. StatesOf(s) \in [1..Len(s) -> {"pending", "published", "failed"}]
  BY <1>1 DEF StatesOf, Submission
<1>3. StatesOf(s) \in Seq({"pending", "published", "failed"})
  BY <1>1, <1>2
<1>4. Len(StatesOf(s)) = Len(s)
  BY <1>1, <1>2
<1> QED BY <1>1, <1>2, <1>3, <1>4

LEMMA StatesAppended ==
    ASSUME NEW s \in Seq(Submission), NEW e \in Submission
    PROVE  StatesOf(Append(s, e)) = Append(StatesOf(s), e.state)
<1> DEFINE States == {"pending", "published", "failed"}
           left == StatesOf(Append(s, e))
           right == Append(StatesOf(s), e.state)
<1>1. /\ Append(s, e) \in Seq(Submission) /\ Len(Append(s, e)) = Len(s) + 1
      /\ \A i \in 1..Len(s) : Append(s, e)[i] = s[i]
      /\ Append(s, e)[Len(s) + 1] = e
      /\ Len(s) \in Nat
  BY AppendProperties, LenProperties
<1>2. e.state \in States
  BY DEF Submission
<1>3. StatesOf(s) \in Seq(States) /\ Len(StatesOf(s)) = Len(s)
  BY StatesTyped
<1>4. /\ right \in Seq(States) /\ Len(right) = Len(s) + 1
      /\ \A i \in 1..Len(s) : right[i] = StatesOf(s)[i]
      /\ right[Len(s) + 1] = e.state
  BY <1>2, <1>3, AppendProperties
<1>5. left \in Seq(States) /\ Len(left) = Len(s) + 1
  BY <1>1, StatesTyped
<1>6. \A i \in 1..(Len(s) + 1) : left[i] = right[i]
  <2> SUFFICES ASSUME NEW i \in 1..(Len(s) + 1) PROVE left[i] = right[i]
    OBVIOUS
  <2>1. left[i] = Append(s, e)[i].state
    BY <1>1, StatesTyped DEF StatesOf
  <2>2. CASE i \in 1..Len(s)
    <3>1. StatesOf(s)[i] = s[i].state
      BY <2>2, StatesTyped DEF StatesOf
    <3> QED BY <1>1, <1>4, <2>1, <2>2, <3>1
  <2>3. CASE i = Len(s) + 1
    <3>1. left[i] = e.state
      BY <1>1, <2>1, <2>3
    <3> HIDE DEF left, right
    <3> QED BY <1>4, <2>3, <3>1
  <2>4. i \in 1..Len(s) \/ i = Len(s) + 1
    BY <1>1
  <2> HIDE DEF left, right
  <2> QED BY <2>2, <2>3, <2>4
<1> HIDE DEF left, right, States
<1>7. \A i \in 1..Len(left) : left[i] = right[i]
  BY <1>5, <1>6
<1>8. left = right
  BY <1>4, <1>5, <1>7, SeqEqual
<1> QED BY <1>8 DEF left, right

\* A row enters "scheduled".
Enters(p) == row[p].status # "scheduled" /\ row'[p].status = "scheduled"

\* A cycle calls a platform on a claim it holds, and the row stays as it is.
Calls(p) ==
    /\ \E c \in Cycles : at[c][p] = "claimed"
    /\ \E e \in Submission : remote' = [remote EXCEPT ![p] = Append(@, e)]
    /\ UNCHANGED row

Settles(p) ==
    /\ UNCHANGED row
    /\ \E i \in DOMAIN remote[p], outcome \in {"published", "failed"} :
         /\ remote[p][i].state = "pending"
         /\ remote' = [remote EXCEPT ![p][i].state = outcome]

\* What a step does to the ledger: it settles or adds one submission, or at most
\* one row is scheduled.
LedgerMoves ==
    \/ \E p \in Posts : Calls(p) \/ Settles(p)
    \/ /\ UNCHANGED remote
       /\ \A p, q \in Posts : Enters(p) /\ Enters(q) => p = q

LEMMA WorkerMoves ==
    ASSUME Typed, IdsKnown, NEW c \in Cycles, NEW p \in Posts, WorkerStep(c, p)
    PROVE  LedgerMoves
<1>1. ASSUME UNCHANGED remote
      PROVE  LedgerMoves
  BY <1>1, WorkerElsewhere DEF Enters, LedgerMoves
<1>2. ASSUME NEW state \in {"pending", "published", "failed"}, Submit(c, p, state),
             MayCall(c, p), UNCHANGED row
      PROVE  LedgerMoves
  <2> DEFINE e == [text |-> copy[c][p].text, state |-> state,
                   gated |-> ~copy[c][p].row.bypass]
  <2>1. e \in Submission
    BY HeldTyped DEF InHand, Submission
  <2>2. remote' = [remote EXCEPT ![p] = Append(@, e)]
    BY <1>2 DEF Submit
  <2> HIDE DEF e
  <2> QED BY <1>2, <2>1, <2>2 DEF MayCall, Calls, LedgerMoves
<1>3. CASE ProviderPublishes(c, p)
  BY <1>2, <1>3 DEF ProviderPublishes
<1>4. CASE ProviderParks(c, p)
  BY <1>2, <1>4 DEF ProviderParks
<1>5. CASE ProviderRefuses(c, p)
  BY <1>1, <1>2, <1>5 DEF ProviderRefuses
<1>6. CASE AnswerLost(c, p)
  BY <1>2, <1>6 DEF AnswerLost
<1>7. CASE \/ ClaimRetry(c, p) \/ SkipRetry(c, p) \/ Block(c, p) \/ BlockUnlogged(c, p)
           \/ HoldForPrincipal(c, p) \/ RecordPublished(c, p) \/ LogPublished(c, p)
           \/ LogFails(c, p) \/ RecordParked(c, p) \/ RecordFailure(c, p)
           \/ FailureUnlogged(c, p)
  BY <1>1, <1>7 DEF ClaimRetry, SkipRetry, Block, BlockUnlogged, HoldForPrincipal,
     RecordPublished, LogPublished, LogFails, RecordParked, RecordFailure, FailureUnlogged
<1> QED BY <1>3, <1>4, <1>5, <1>6, <1>7 DEF WorkerStep

LEMMA CycleMoves ==
    ASSUME Typed, IdsKnown, NEW c \in Cycles,
           BeginCycle(c) \/ CycleStep(c) \/ Crash(c) \/ LockExpires(c)
    PROVE  LedgerMoves
<1>1. ASSUME NEW G \in Groups, ClaimGroup(c, G)
      PROVE  LedgerMoves
  <2>1. UNCHANGED remote /\ \A p \in Posts : ~Enters(p)
    BY <1>1 DEF ClaimGroup, Enters, Typed, Row
  <2> QED BY <2>1 DEF LedgerMoves
<1>2. CASE BeginCycle(c) \/ StartRetries(c) \/ EndCycle(c) \/ Crash(c) \/ LockExpires(c)
  <2>1. UNCHANGED <<row, remote>>
    BY <1>2 DEF BeginCycle, StartRetries, EndCycle, Crash, LockExpires
  <2> QED BY <2>1 DEF Enters, LedgerMoves
<1> QED BY <1>1, <1>2, WorkerMoves, CycleStepCases

LEMMA WorldMoves ==
    ASSUME Typed, NEW p \in Posts,
           \/ ScheduledTimeComes(p) \/ BackoffElapses(p) \/ SubmissionSettles(p)
           \/ ReconcileList(p) \/ ReconcileSave(p) \/ ReconcileMisses(p)
    PROVE  LedgerMoves
<1>1. CASE SubmissionSettles(p)
  BY <1>1 DEF SubmissionSettles, Settles, LedgerMoves
<1>2. CASE ScheduledTimeComes(p) \/ ReconcileList(p) \/ ReconcileMisses(p)
  <2>1. UNCHANGED <<row, remote>>
    BY <1>2 DEF ScheduledTimeComes, ReconcileList, ReconcileMisses
  <2> QED BY <2>1 DEF Enters, LedgerMoves
<1>3. CASE BackoffElapses(p) \/ ReconcileSave(p)
  <2>1. UNCHANGED remote /\ \A q \in Posts \ {p} : row'[q] = row[q]
    BY <1>3 DEF BackoffElapses, ReconcileSave, Typed
  <2> QED BY <2>1 DEF Enters, LedgerMoves
<1> QED BY <1>1, <1>2, <1>3

LEMMA RequestMoves ==
    ASSUME Typed, NEW u \in Users, RequestStep(u)
    PROVE  LedgerMoves
<1>1. UNCHANGED remote
  BY DEF RequestStep, PatchOpens, AutosaveText, ComposeText, ConsoleGates,
         TransitionReads, PatchCommits, AutosaveClears, ComposeReads, ComposeMoves,
         ConsoleStamps, ComposeSaves, ComposeSchedules, TransitionSaves, RequestDies
<1>2. ASSUME NEW q, \A p \in Posts \ {q} : row'[p] = row[p]
      PROVE  LedgerMoves
  BY <1>1, <1>2 DEF Enters, LedgerMoves
<1>3. ASSUME NEW G, ClearGates(G)
      PROVE  LedgerMoves
  <2>1. \A p \in Posts : row'[p].status = row[p].status
    BY <1>3 DEF ClearGates, Typed, Row
  <2> QED BY <1>1, <2>1 DEF Enters, LedgerMoves
<1>4. CASE PatchCommits(u) \/ AutosaveClears(u)
  BY <1>3, <1>4 DEF PatchCommits, AutosaveClears
<1>5. CASE ComposeSaves(u)
  <2>1. \A p \in Posts \ {req[u].post} : row'[p] = row[p]
    BY <1>5 DEF ComposeSaves, Typed
  <2> QED BY <1>2, <2>1
<1>6. CASE TransitionSaves(u)
  BY <1>2, <1>6 DEF TransitionSaves, Typed
<1>7. ASSUME NEW p \in Posts, ComposeMoves(u, p) \/ ConsoleStamps(u, p)
      PROVE  LedgerMoves
  <2>1. \A q \in Posts \ {p} : row'[q] = row[q]
    BY <1>7 DEF ComposeMoves, ConsoleStamps, Typed
  <2> QED BY <1>2, <2>1
<1>8. CASE UNCHANGED row
  BY <1>1, <1>8 DEF Enters, LedgerMoves
<1> QED
  BY <1>4, <1>5, <1>6, <1>7, <1>8
  DEF RequestStep, PatchOpens, AutosaveText, ComposeText, ConsoleGates, TransitionReads,
      ComposeReads, ComposeSchedules, RequestDies

LEMMA LedgerStep ==
    ASSUME Inv, SubmissionBudget, [Next]_vars
    PROVE  [Ledger!Next]_<<openings, Sent>>
<1>1. Typed /\ IdsKnown /\ openings \in [Posts -> Nat] /\ remote \in [Posts -> Seq(Submission)]
  BY DEF Inv, Typed
<1>2. CASE UNCHANGED vars
  BY <1>2 DEF vars, historyVars, Sent
<1>3. ASSUME Next
      PROVE  LedgerMoves /\ History
  BY <1>1, <1>3, CycleMoves, WorldMoves, RequestMoves DEF Next
<1>4. ASSUME History, UNCHANGED row
      PROVE  UNCHANGED openings
  BY <1>1, <1>4 DEF History
<1>5. ASSUME NEW p \in Posts, Calls(p), History
      PROVE  Ledger!Next
  <2>1. PICK e \in Submission : remote' = [remote EXCEPT ![p] = Append(@, e)]
    BY <1>5 DEF Calls
  <2>2. Sent' = [Sent EXCEPT ![p] = Append(@, e.state)]
    BY <1>1, <2>1, StatesAppended DEF Sent
  <2>3. Len(Sent[p]) < openings[p]
    <3>1. Claims(p) \in SUBSET Cycles /\ \E c \in Claims(p) : TRUE
      BY <1>5 DEF Calls, Claims
    <3>2. Cardinality(Claims(p)) \in Nat /\ Cardinality(Claims(p)) # 0
      BY <3>1, ClaimCount, FS_EmptySet
    <3>3. Len(remote[p]) \in Nat /\ Len(Sent[p]) = Len(remote[p])
      BY <1>1, StatesTyped DEF Sent
    <3>4. Budget(p) <= openings[p] /\ openings[p] \in Nat
      BY <1>1 DEF SubmissionBudget
    <3> QED BY <3>2, <3>3, <3>4 DEF Budget
  <2>4. UNCHANGED openings
    BY <1>4, <1>5 DEF Calls
  <2>5. e.state \in {"pending", "published", "failed"}
    BY DEF Submission
  <2> QED BY <2>2, <2>3, <2>4, <2>5 DEF Ledger!Next, Ledger!Submit, Sent, StatesOf
<1>6. ASSUME NEW p \in Posts, Settles(p), History
      PROVE  Ledger!Next
  <2>1. PICK i \in DOMAIN remote[p], outcome \in {"published", "failed"} :
          /\ remote[p][i].state = "pending"
          /\ remote' = [remote EXCEPT ![p][i].state = outcome]
    BY <1>6 DEF Settles
  <2>2. remote[p] \in Seq(Submission) /\ i \in 1..Len(remote[p]) /\ DOMAIN remote[p] = 1..Len(remote[p])
        /\ remote[p][i] \in Submission
    BY <1>1, LenProperties, ElementOfSeq
  <2>3. Sent' = [Sent EXCEPT ![p][i] = outcome]
    <3>1. remote'[p] = [remote[p] EXCEPT ![i] = [remote[p][i] EXCEPT !.state = outcome]]
          /\ \A q \in Posts \ {p} : remote'[q] = remote[q]
      BY <1>1, <2>1
    <3>2. StatesOf(remote'[p]) = [StatesOf(remote[p]) EXCEPT ![i] = outcome]
      BY <2>2, <3>1 DEF StatesOf, Submission
    <3> QED BY <3>1, <3>2 DEF Sent
  <2>4. Sent[p][i] = "pending" /\ i \in DOMAIN Sent[p]
    BY <2>1, <2>2 DEF Sent, StatesOf
  <2>5. UNCHANGED openings
    BY <1>4, <1>6 DEF Settles
  <2> QED BY <2>1, <2>3, <2>4, <2>5 DEF Ledger!Next, Ledger!Settle, Sent, StatesOf
<1>7. ASSUME UNCHANGED remote, \A p, q \in Posts : Enters(p) /\ Enters(q) => p = q, History
      PROVE  [Ledger!Next]_<<openings, Sent>>
  <2>1. UNCHANGED Sent
    BY <1>7 DEF Sent
  <2>2. openings' = [p \in Posts |-> IF Enters(p) THEN openings[p] + 1 ELSE openings[p]]
    BY <1>7 DEF History, Enters
  <2>3. CASE \A p \in Posts : ~Enters(p)
    BY <1>1, <2>1, <2>2, <2>3
  <2>4. ASSUME NEW p \in Posts, Enters(p)
        PROVE  Ledger!Next
    <3>1. openings' = [openings EXCEPT ![p] = @ + 1]
      BY <1>1, <1>7, <2>2, <2>4
    <3> QED BY <2>1, <3>1 DEF Ledger!Next, Ledger!Schedule, Sent, StatesOf
  <2> QED BY <2>3, <2>4
<1> QED BY <1>2, <1>3, <1>5, <1>6, <1>7 DEF LedgerMoves

LEMMA LedgerInit == Init => Ledger!Init
<1> SUFFICES ASSUME Init PROVE Ledger!Init
  OBVIOUS
<1>1. openings = [p \in Posts |-> 1] /\ remote = [p \in Posts |-> <<>>]
  BY DEF Init
<1>2. [i \in DOMAIN <<>> |-> <<>>[i].state] = <<>>
  OBVIOUS
<1> QED BY <1>1, <1>2 DEF Ledger!Init

\* Whatever cycles overlap, crash or race with any requests of people, the
\* submissions of the rows are a ledger: one more for each scheduling at most, none
\* withdrawn, each settled once.
THEOREM LedgerImplemented == Spec => ImplementsSubmissionLedger
<1>1. Inv /\ SubmissionBudget /\ [Next]_vars
        => [Ledger!Next]_<<openings, [p \in Posts |-> [i \in DOMAIN remote[p] |-> remote[p][i].state]]>>
  BY LedgerStep DEF Sent, StatesOf
<1> QED BY InitTyped, NextTyped, BudgetInit, BudgetStep, LedgerInit, <1>1, PTL
        DEF Spec, ImplementsSubmissionLedger, Ledger!Spec

-----------------------------------------------------------------------------
(* ... and what publishing promises the author of a post.                     *)

Final == {"published", "failed"}

\* Once a row was called published or failed nothing changes, and the step that
\* calls it so shows nothing.
LEMMA OutcomeKept ==
    ASSUME Answered, Single, Told, Awaited, NEW p \in Posts, Touches(p)
    PROVE  /\ Live(p) \subseteq Live(p)'
           /\ row[p].status \in Final =>
                  row'[p].status = row[p].status /\ (Live(p)' # {} => Live(p) # {})
           /\ row'[p].status \in Final /\ row[p].status \notin Final => Live(p)' = Live(p)
<1> USE DEF Working, Final
<1>1. /\ row[p].status = "published" => Live(p) # {}
      /\ row[p].status = "failed" => Taken(p) = {}
      /\ Live(p)' \subseteq Taken(p)'
  BY DEF Told, Live, Taken
<1>2. /\ \A c \in Cycles :
            /\ at[c][p] \in Working \ {"recorded"} =>
                   row[p].status \in {"publishing", "pending_client"}
            /\ at[c][p] = "recorded" => row[p].status = "published"
      /\ recon[p] # 0 => row[p].status = "publishing"
  BY DEF Awaited
<1>3. CASE Spares(p)
  BY <1>1, <1>3 DEF Spares
<1>4. CASE Decides(p)
  <2>1. Live(p)' = Live(p)
    BY <1>4 DEF Decides, Live
  <2> QED BY <1>2, <1>4, <2>1 DEF Decides
<1>5. ASSUME NEW c \in Cycles, Handles(c, p)
      PROVE  /\ Live(p) \subseteq Live(p)'
             /\ row[p].status \in Final =>
                    row'[p].status = row[p].status /\ (Live(p)' # {} => Live(p) # {})
             /\ row'[p].status \in Final /\ row[p].status \notin Final => Live(p)' = Live(p)
  <2>1. remote'[p] = remote[p] => Live(p)' = Live(p)
    BY DEF Live
  <2>2. CASE Takes(c, p)
    BY <2>1, <2>2 DEF Takes
  <2>3. CASE Rejects(c, p)
    BY <1>2, <2>1, <2>3 DEF Rejects
  <2>4. CASE Fails(c, p)
    BY <1>2, <2>4 DEF Fails, Answered
  <2>5. CASE Accepts(c, p)
    BY <1>2, <2>5 DEF Accepts
  <2>6. CASE Records(c, p)
    BY <1>2, <2>1, <2>6 DEF Records
  <2>7. CASE Ends(c, p)
    BY <1>2, <2>1, <2>7 DEF Ends, Answered
  <2> QED BY <1>5, <2>2, <2>3, <2>4, <2>5, <2>6, <2>7 DEF Handles
<1> QED BY <1>3, <1>4, <1>5 DEF Touches

ShownRows == {p \in Posts : Live(p) # {}}

ToldRows == [p \in Posts |-> IF row[p].status \in {"published", "failed"}
                             THEN row[p].status ELSE "open"]

LEMMA OutcomeStep ==
    ASSUME Unmoved, Answered, Clear, TakenOnce, Honest, Honest', [Next]_vars
    PROVE  [Outcome!Next]_<<ShownRows, ToldRows>>
<1> USE DEF Final
<1>1. Inv /\ Typed /\ IdsKnown
  BY DEF Clear, Inv
<1>2. \A p \in Posts :
        /\ Live(p) \subseteq Live(p)'
        /\ row[p].status \in Final =>
               row'[p].status = row[p].status /\ (Live(p)' # {} => Live(p) # {})
        /\ row'[p].status \in Final /\ row[p].status \notin Final => Live(p)' = Live(p)
  BY NextTouches, OutcomeKept DEF Clear, Honest
<1>3. \A p \in Posts : /\ row'[p].status = "published" => Live(p)' # {}
                       /\ row'[p].status = "failed" => Live(p)' = {}
  BY DEF Honest, Told, Live, Taken
<1>4. CASE UNCHANGED remote
  <2>1. UNCHANGED ShownRows
    BY <1>4 DEF ShownRows, Live
  <2> DEFINE S == {p \in Posts : row'[p].status \in Final /\ row[p].status \notin Final}
  <2>2. \A p \in S : ToldRows[p] = "open"
    BY DEF ToldRows
  <2>3. ToldRows' = [p \in Posts |-> IF p \notin S THEN ToldRows[p]
                                    ELSE IF p \in ShownRows THEN "published" ELSE "failed"]
    <3> SUFFICES ASSUME NEW p \in Posts
                 PROVE  (IF row'[p].status \in {"published", "failed"}
                         THEN row'[p].status ELSE "open")
                        = IF p \notin S THEN ToldRows[p]
                          ELSE IF p \in ShownRows THEN "published" ELSE "failed"
      BY DEF ToldRows
    <3>1. CASE row'[p].status \in Final /\ row[p].status \notin Final
      <4>1. Live(p)' = Live(p) /\ (p \in ShownRows <=> Live(p) # {}) /\ p \in S
        BY <1>2, <3>1 DEF ShownRows
      <4> HIDE DEF S
      <4> QED BY <1>3, <3>1, <4>1
    <3>2. CASE ~(row'[p].status \in Final /\ row[p].status \notin Final)
      <4>1. p \notin S
        BY <3>2
      <4> HIDE DEF S
      <4> QED BY <1>2, <3>2, <4>1 DEF ToldRows
    <3> QED BY <3>1, <3>2
  <2>4. PICK T \in SUBSET Posts : T = S
    OBVIOUS
  <2> HIDE DEF S
  <2>5. Outcome!Tell(T)
    BY <2>1, <2>2, <2>3, <2>4 DEF Outcome!Tell, ShownRows, ToldRows
  <2> QED BY <2>5 DEF Outcome!Next
<1>5. ASSUME NEW p \in Posts, Calls(p) \/ Settles(p)
      PROVE  [Outcome!Next]_<<ShownRows, ToldRows>>
  <2>1. UNCHANGED ToldRows
    BY <1>5 DEF Calls, Settles, ToldRows
  <2>2. \A q \in Posts \ {p} : remote'[q] = remote[q]
    BY <1>1, <1>5 DEF Calls, Settles, Typed
  <2>3. \A q \in Posts \ {p} : Live(q)' = Live(q)
    BY <2>2 DEF Live
  <2>4. CASE Live(p) = {} /\ Live(p)' # {}
    <3>1. ToldRows[p] = "open"
      BY <1>2, <2>4 DEF ToldRows
    <3>2. p \notin ShownRows /\ ShownRows' = ShownRows \cup {p}
      BY <2>3, <2>4 DEF ShownRows
    <3>3. Outcome!Show(p)
      BY <2>1, <3>1, <3>2 DEF Outcome!Show, ShownRows, ToldRows
    <3> QED BY <3>3 DEF Outcome!Next
  <2>5. CASE ~(Live(p) = {} /\ Live(p)' # {})
    <3>1. UNCHANGED ShownRows
      BY <1>2, <2>3, <2>5 DEF ShownRows
    <3> QED BY <2>1, <3>1
  <2> QED BY <2>4, <2>5
<1>6. CASE UNCHANGED vars
  BY <1>4, <1>6 DEF vars
<1>7. CASE Next
  <2>1. LedgerMoves
    BY <1>1, <1>7, CycleMoves, WorldMoves, RequestMoves DEF Next
  <2> QED BY <1>4, <1>5, <2>1 DEF LedgerMoves
<1> QED BY <1>6, <1>7

LEMMA OutcomeInit == Init => Outcome!Init
<1> SUFFICES ASSUME Init PROVE Outcome!Init
  OBVIOUS
<1>1. \A p \in Posts : row[p].status = "scheduled"
  BY InitRows
<1>2. \A p \in Posts : Live(p) = {}
  BY DEF Init, Live
<1> QED BY <1>1, <1>2 DEF Outcome!Init

\* For any rows, cycles, users, captions and crashes a row is called published or
\* failed once, truthfully and for good, as long as answers arrive, the log can be
\* written and nobody moves rows by hand.
THEOREM OutcomeImplemented ==
    ASSUME Unmoved, Answered
    PROVE  Spec => ImplementsPostOutcome
<1>1. Clear /\ [Next]_vars => Clear'
  BY NextClear
<1>2. Clear /\ TakenOnce /\ Honest /\ [Next]_vars => Honest'
  BY NextHonest
<1>3. Clear /\ TakenOnce /\ Honest /\ Honest' /\ [Next]_vars =>
        [Outcome!Next]_<<{p \in Posts : Live(p) # {}},
                         [p \in Posts |-> IF row[p].status \in {"published", "failed"}
                                          THEN row[p].status ELSE "open"]>>
  BY OutcomeStep DEF ShownRows, ToldRows
<1> QED BY InitClear, InitTaken, NextTaken, InitHonest, OutcomeInit, <1>1, <1>2, <1>3, PTL
        DEF Spec, ImplementsPostOutcome, Outcome!Spec

-----------------------------------------------------------------------------
(* 3.  The Redis lock, for any invocations and any hard limit within the time *)
(* to live.                                                                   *)

\* The key, the clock of the key and the clocks of the tasks stay in range.
THEOREM LockTypeCorrect == LockSpec => []LockTypeOK
<1> USE LockAssumption
<1>1. LockInit => LockTypeOK
  BY DEF LockInit, LockTypeOK
<1>2. LockTypeOK /\ [LockNext]_lockVars => LockTypeOK'
  <2> SUFFICES ASSUME LockTypeOK, [LockNext]_lockVars PROVE LockTypeOK'
    OBVIOUS
  <2> USE DEF LockTypeOK
  <2>1. ASSUME NEW t \in Tasks, TaskStep(t) PROVE LockTypeOK'
    BY <2>1 DEF TaskStep, Start, Acquire, AcquireLost, SetKey, NotAcquired, LeaveBlock,
                Release, ReleaseLost, Kill
  <2>2. CASE Expire
    BY <2>2 DEF Expire
  <2>3. CASE Tick
    <3>1. ttl' \in 0..TTL
      BY <2>3 DEF Tick
    <3>2. elapsed' \in [Tasks -> 0..HardLimit]
      BY <2>3 DEF Tick
    <3> QED BY <2>3, <3>1, <3>2 DEF Tick
  <2>4. CASE UNCHANGED lockVars
    BY <2>4 DEF lockVars
  <2> QED BY <2>1, <2>2, <2>3, <2>4 DEF LockNext
<1> QED BY <1>1, <1>2, PTL DEF LockSpec

\* Time cannot separate a bounded holder from its key: the key gains a time to
\* live that covers what is left of the holder's, and they run down together.
THEOREM HolderKeepsKey == LockSpec => []HolderOwnsKey
<1> USE LockAssumption
<1>1. LockInit => HolderOwnsKey
  BY DEF LockInit, HolderOwnsKey
<1>2. LockTypeOK /\ HolderOwnsKey /\ [LockNext]_lockVars => HolderOwnsKey'
  <2> SUFFICES ASSUME LockTypeOK, HolderOwnsKey, [LockNext]_lockVars,
                      NEW s \in Bounded, (pc[s] \in {"section", "releasing"})'
               PROVE  (key = s /\ ttl + elapsed[s] > TTL)'
    BY DEF HolderOwnsKey
  <2> s \in Tasks
    OBVIOUS
  <2> USE DEF LockTypeOK, HolderOwnsKey
  <2>1. ASSUME NEW t \in Tasks, TaskStep(t)
        PROVE  (key = s /\ ttl + elapsed[s] > TTL)'
    <3>1. CASE Start(t) \/ NotAcquired(t) \/ ReleaseLost(t) \/ Kill(t) \/ LeaveBlock(t)
      BY <3>1 DEF Start, NotAcquired, ReleaseLost, Kill, LeaveBlock
    <3>2. CASE Acquire(t)
      BY <3>2 DEF Acquire, SetKey
    <3>3. CASE AcquireLost(t)
      BY <3>3 DEF AcquireLost, SetKey
    <3>4. CASE Release(t)
      BY <3>4 DEF Release
    <3> QED BY <2>1, <3>1, <3>2, <3>3, <3>4 DEF TaskStep
  <2>2. CASE Expire
    <3>1. pc[s] \in {"section", "releasing"}
      BY <2>2 DEF Expire
    <3>2. elapsed[s] > TTL /\ elapsed[s] \in 0..HardLimit
      BY <2>2, <3>1 DEF Expire
    <3> QED BY <3>2
  <2>3. CASE Tick
    <3>1. key = s /\ ttl + elapsed[s] > TTL /\ Alive(s)
      BY <2>3 DEF Tick, Alive
    <3>2. ttl > 0 /\ ttl' = ttl - 1 /\ key' = key
      BY <2>3, <3>1 DEF Tick
    <3>3. elapsed'[s] = elapsed[s] + 1
      BY <2>3, <3>1 DEF Tick
    <3> QED BY <3>1, <3>2, <3>3
  <2>4. CASE UNCHANGED lockVars
    BY <2>4 DEF lockVars
  <2> QED BY <2>1, <2>2, <2>3, <2>4 DEF LockNext
<1> QED BY <1>1, <1>2, LockTypeCorrect, PTL DEF LockSpec

\* No two invocations under the hard limit are in the block together.
THEOREM LockExclusion == LockSpec => []MutualExclusion
<1>1. HolderOwnsKey => MutualExclusion
  BY DEF HolderOwnsKey, MutualExclusion
<1> QED BY <1>1, HolderKeepsKey, PTL

\* Every step of the lock is a step of ExclusiveSection for the invocations
\* under the hard limit, or leaves who is in the block alone.
THEOREM LockRefinement == LockSpec => ImplementsExclusiveSection
<1> DEFINE inside == {t \in Bounded : pc[t] = "section"}
<1> USE LockAssumption
<1>1. LockInit => Section!Init
  BY DEF LockInit, Section!Init
<1>2. LockTypeOK /\ HolderOwnsKey /\ [LockNext]_lockVars => [Section!Next]_inside
  <2> SUFFICES ASSUME LockTypeOK, HolderOwnsKey, [LockNext]_lockVars
               PROVE  Section!Next \/ inside' = inside
    OBVIOUS
  <2> USE DEF LockTypeOK
  <2>1. ASSUME NEW t \in Tasks, TaskStep(t) PROVE Section!Next \/ inside' = inside
    <3>1. CASE Start(t) \/ AcquireLost(t) \/ NotAcquired(t) \/ Release(t) \/ ReleaseLost(t)
      <4> inside' = inside
        BY <3>1 DEF Start, AcquireLost, SetKey, NotAcquired, Release, ReleaseLost
      <4> QED OBVIOUS
    <3>2. CASE Acquire(t)
      <4>1. inside = {}
        BY <3>2 DEF Acquire, SetKey, HolderOwnsKey
      <4>2. CASE t \in Bounded
        <5> inside' = {t}
          BY <3>2, <4>1, <4>2 DEF Acquire, SetKey
        <5> QED BY <4>1, <4>2 DEF Section!Next, Section!Enter
      <4>3. CASE t \notin Bounded
        <5> inside' = inside
          BY <3>2, <4>3 DEF Acquire, SetKey
        <5> QED OBVIOUS
      <4> QED BY <4>2, <4>3
    <3>3. CASE LeaveBlock(t) \/ Kill(t)
      <4>1. pc' = [pc EXCEPT ![t] = pc'[t]] /\ pc'[t] # "section"
        BY <3>3 DEF LeaveBlock, Kill
      <4>2. CASE t \in inside
        <5>1. inside = {t}
          BY <4>2 DEF HolderOwnsKey
        <5>2. inside' = {}
          BY <4>1, <5>1
        <5> QED BY <4>2, <5>1, <5>2 DEF Section!Next, Section!Leave
      <4>3. CASE t \notin inside
        <5> inside' = inside
          BY <4>1, <4>3
        <5> QED OBVIOUS
      <4> QED BY <4>2, <4>3
    <3> QED BY <2>1, <3>1, <3>2, <3>3 DEF TaskStep
  <2>2. CASE Expire \/ Tick \/ UNCHANGED lockVars
    BY <2>2 DEF Expire, Tick, lockVars
  <2> QED BY <2>1, <2>2 DEF LockNext
<1> QED BY <1>1, <1>2, LockTypeCorrect, HolderKeepsKey, PTL
        DEF LockSpec, ImplementsExclusiveSection, Section!Spec

\* A tick at work owns the lock.
TickOwnsLock == \A c \in Ticks : phase[c] # "off" => lock = c

\* What a step does to the lock and to who is at work.
LEMMA LockStep ==
  ASSUME Typed, Next
  PROVE  \/ \E c \in Cycles :
              /\ phase[c] = "off" /\ phase'[c] # "off"
              /\ phase' = [phase EXCEPT ![c] = phase'[c]]
              /\ c \in Ticks => lock = None /\ lock' = c
              /\ c \notin Ticks => lock' = lock
         \/ \E c \in Cycles :
              /\ phase[c] # "off" /\ phase'[c] = "off"
              /\ phase' = [phase EXCEPT ![c] = "off"]
              /\ \/ lock' = lock
                 \/ lock = c /\ lock' = None
         \/ /\ lock' = lock
            /\ DOMAIN phase' = DOMAIN phase
            /\ \A c \in Cycles : phase[c] = "off" <=> phase'[c] = "off"
         \/ \E c \in Cycles : lock = c /\ phase[c] = "off" /\ lock' = None /\ phase' = phase
<1> USE DEF Typed
<1>1. ASSUME NEW c \in Cycles, BeginCycle(c)
      PROVE  /\ phase[c] = "off" /\ phase'[c] # "off"
             /\ phase' = [phase EXCEPT ![c] = phase'[c]]
             /\ c \in Ticks => lock = None /\ lock' = c
             /\ c \notin Ticks => lock' = lock
  BY <1>1, EngineAssumption DEF BeginCycle, Cycles
<1>2. ASSUME NEW c \in Cycles, EndCycle(c) \/ Crash(c)
      PROVE  /\ phase[c] # "off" /\ phase'[c] = "off"
             /\ phase' = [phase EXCEPT ![c] = "off"]
             /\ \/ lock' = lock
                \/ lock = c /\ lock' = None
  <2>1. CASE EndCycle(c)
    BY <2>1 DEF EndCycle
  <2>2. CASE Crash(c)
    BY <2>2 DEF Crash
  <2> QED BY <1>2, <2>1, <2>2
<1>3. ASSUME NEW c \in Cycles, StartRetries(c)
      PROVE  /\ lock' = lock
             /\ DOMAIN phase' = DOMAIN phase
             /\ \A d \in Cycles : phase[d] = "off" <=> phase'[d] = "off"
  BY <1>3 DEF StartRetries
<1>4. ASSUME NEW c \in Cycles, CycleStep(c), ~StartRetries(c), ~EndCycle(c)
      PROVE  UNCHANGED <<lock, phase>>
  <2>1. ASSUME NEW G \in Groups, ClaimGroup(c, G) PROVE UNCHANGED <<lock, phase>>
    BY <2>1, Zenon DEF ClaimGroup
  <2>2. ASSUME NEW p \in Posts,
             ClaimRetry(c, p) \/ SkipRetry(c, p)
             \/ Block(c, p) \/ BlockUnlogged(c, p)
        PROVE  UNCHANGED <<lock, phase>>
    BY <2>2, Zenon DEF ClaimRetry, SkipRetry, Block, BlockUnlogged
  <2>3. ASSUME NEW p \in Posts,
             HoldForPrincipal(c, p) \/ ProviderPublishes(c, p)
             \/ ProviderParks(c, p) \/ ProviderRefuses(c, p)
        PROVE  UNCHANGED <<lock, phase>>
    BY <2>3, Zenon DEF HoldForPrincipal, ProviderPublishes, ProviderParks, ProviderRefuses
  <2>4. ASSUME NEW p \in Posts,
             AnswerLost(c, p) \/ RecordPublished(c, p)
             \/ LogPublished(c, p) \/ LogFails(c, p)
        PROVE  UNCHANGED <<lock, phase>>
    BY <2>4, Zenon DEF AnswerLost, RecordPublished, LogPublished, LogFails
  <2>5. ASSUME NEW p \in Posts,
             RecordParked(c, p) \/ RecordFailure(c, p)
             \/ FailureUnlogged(c, p)
        PROVE  UNCHANGED <<lock, phase>>
    BY <2>5, Zenon DEF RecordParked, RecordFailure, FailureUnlogged
  <2> QED BY <1>4, <2>1, <2>2, <2>3, <2>4, <2>5, Zenon DEF CycleStep
<1>5. ASSUME NEW c \in Cycles, LockExpires(c)
      PROVE  lock = c /\ phase[c] = "off" /\ lock' = None /\ phase' = phase
  BY <1>5 DEF LockExpires
<1>6. ASSUME NEW p \in Posts,
             \/ ScheduledTimeComes(p) \/ BackoffElapses(p) \/ SubmissionSettles(p)
             \/ ReconcileList(p) \/ ReconcileSave(p) \/ ReconcileMisses(p)
      PROVE  UNCHANGED <<lock, phase>>
  BY <1>6 DEF ScheduledTimeComes, BackoffElapses, SubmissionSettles, ReconcileList,
       ReconcileSave, ReconcileMisses, engineVars
<1>7. ASSUME NEW u \in Users, RequestStep(u)
      PROVE  UNCHANGED <<lock, phase>>
  <2>1. ASSUME NEW G \in Groups, NEW t \in Texts,
               PatchOpens(u, G, t) \/ AutosaveText(u, G, t)
        PROVE  UNCHANGED <<lock, phase>>
    BY <2>1, Zenon DEF PatchOpens, AutosaveText, engineVars
  <2>2. ASSUME NEW G \in Groups, NEW t \in Texts, NEW target \in {"draft", "scheduled"},
               ComposeText(u, G, t, target)
        PROVE  UNCHANGED <<lock, phase>>
    BY <2>2, Zenon DEF ComposeText, engineVars
  <2>3. ASSUME NEW G \in Groups,
               ConsoleGates(u, G)
        PROVE  UNCHANGED <<lock, phase>>
    BY <2>3, Zenon DEF ConsoleGates, engineVars
  <2>4. ASSUME NEW p \in Posts, NEW target \in Statuses,
               TransitionReads(u, p, target)
        PROVE  UNCHANGED <<lock, phase>>
    BY <2>4, Zenon DEF TransitionReads, engineVars
  <2>5. ASSUME NEW p \in Posts,
               ComposeReads(u, p) \/ ComposeMoves(u, p) \/ ConsoleStamps(u, p)
        PROVE  UNCHANGED <<lock, phase>>
    BY <2>5, Zenon DEF ComposeReads, ComposeMoves, ConsoleStamps, engineVars
  <2>6. ASSUME PatchCommits(u) \/ AutosaveClears(u) \/ ComposeSaves(u) \/ ComposeSchedules(u)
        PROVE  UNCHANGED <<lock, phase>>
    BY <2>6, Zenon DEF PatchCommits, AutosaveClears, ComposeSaves, ComposeSchedules, engineVars
  <2>7. ASSUME TransitionSaves(u) \/ RequestDies(u)
        PROVE  UNCHANGED <<lock, phase>>
    BY <2>7, Zenon DEF TransitionSaves, RequestDies, engineVars
  <2> QED BY <1>7, <2>1, <2>2, <2>3, <2>4, <2>5, <2>6, <2>7, Zenon DEF RequestStep
<1> QED BY <1>1, <1>2, <1>3, <1>4, <1>5, <1>6, <1>7 DEF Next

\* The lock as the engine takes, keeps and loses it gives the ticks what RedisLock
\* gives its invocations (LockRefinement): one of them at work at a time, whatever
\* crashes, and whatever cycles run beside them without the lock.
THEOREM TurnsTaken == Spec => TicksTakeTurns
<1> DEFINE working == {c \in Ticks : phase[c] # "off"}
<1>1. Init => TickSection!Init /\ TickOwnsLock
  BY DEF Init, TickSection!Init, TickOwnsLock, Cycles
<1>2. Typed /\ TickOwnsLock /\ [Next]_vars => TickOwnsLock' /\ [TickSection!Next]_working
  <2> SUFFICES ASSUME Typed, TickOwnsLock, [Next]_vars
               PROVE  TickOwnsLock' /\ (TickSection!Next \/ working' = working)
    OBVIOUS
  <2> USE EngineAssumption DEF Typed, TickOwnsLock, Cycles
  <2>1. ASSUME NEW c \in Cycles,
               phase[c] = "off", phase'[c] # "off",
               phase' = [phase EXCEPT ![c] = phase'[c]],
               c \in Ticks => lock = None /\ lock' = c,
               c \notin Ticks => lock' = lock
        PROVE  TickOwnsLock' /\ (TickSection!Next \/ working' = working)
    <3>1. CASE c \in Ticks
      <4>1. working = {}
        BY <2>1, <3>1
      <4>2. working' = {c}
        BY <2>1, <3>1, <4>1
      <4>3. TickOwnsLock'
        BY <2>1, <3>1, <4>1
      <4> QED BY <3>1, <4>1, <4>2, <4>3 DEF TickSection!Next, TickSection!Enter
    <3>2. CASE c \notin Ticks
      BY <2>1, <3>2
    <3> QED BY <3>1, <3>2
  <2>2. ASSUME NEW c \in Cycles,
               phase[c] # "off", phase'[c] = "off",
               phase' = [phase EXCEPT ![c] = "off"],
               lock' = lock \/ (lock = c /\ lock' = None)
        PROVE  TickOwnsLock' /\ (TickSection!Next \/ working' = working)
    <3>1. CASE c \in Ticks
      <4>1. working = {c}
        BY <2>2, <3>1
      <4>2. working' = {}
        BY <2>2, <3>1, <4>1
      <4>3. TickOwnsLock'
        BY <4>2
      <4> QED BY <3>1, <4>1, <4>2, <4>3 DEF TickSection!Next, TickSection!Leave
    <3>2. CASE c \notin Ticks
      BY <2>2, <3>2
    <3> QED BY <3>1, <3>2
  <2>3. ASSUME lock' = lock, DOMAIN phase' = DOMAIN phase,
               \A c \in Cycles : phase[c] = "off" <=> phase'[c] = "off"
        PROVE  TickOwnsLock' /\ (TickSection!Next \/ working' = working)
    BY <2>3
  <2>4. ASSUME NEW c \in Cycles,
               lock = c, phase[c] = "off", lock' = None, phase' = phase
        PROVE  TickOwnsLock' /\ (TickSection!Next \/ working' = working)
    BY <2>4
  <2>5. CASE UNCHANGED vars
    BY <2>5 DEF vars, engineVars
  <2>6. CASE Next
    BY <2>6, <2>1, <2>2, <2>3, <2>4, LockStep
  <2> QED BY <2>5, <2>6
<1>3. Spec => []Typed
  <2>1. Inv => Typed
    BY DEF Inv
  <2> QED BY InitTyped, NextTyped, <2>1, PTL DEF Spec
<1> QED BY <1>1, <1>2, <1>3, PTL DEF Spec, TicksTakeTurns, TickSection!Spec
===============================================================================
