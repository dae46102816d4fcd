--------------------------- MODULE LivePosts_proofs ---------------------------
(***************************************************************************)
(* Theorems about LivePosts for any number of requests, posts, moves and   *)
(* lost answers, with a provider of either kind.                           *)
(***************************************************************************)
EXTENDS LivePosts, FiniteSetTheorems, TLAPS

\* Who has deleted the post, or is to make it.
Owing == {s \in Requests : job[s].at \in {"deleted", "calling"}}

Recording == {s \in Requests : job[s].at = "recording"}

\* A person can schedule the row again.
Open == status \notin {"published", "publishing", "gone"}

Claim == IF Open THEN 1 ELSE 0

Clean == \A e \in Events : events[e] = 0

\* Ids are those of posts that were made, and only an edit and a cycle make one.
Known ==
    /\ online \subseteq 1..made
    /\ postId # None => postId <= made
    /\ \A s \in Requests :
        /\ job[s].post # None => job[s].post <= made
        /\ job[s].at \in {"calling", "recording"} => job[s].kind \in {"edit", "cycle"}
        /\ job[s].at = "recording" => job[s].post # None

\* What ShownOnce allows: the post, and one more for each of these events.
Raising == {"goneAnswer", "retaken", "outdated", "repeated"}
Allowance ==
    1 + events["goneAnswer"] + events["retaken"] + events["outdated"] + events["repeated"]

\* A post is shown, or owed by a process, or the row may be scheduled for one:
\* the three together stay within what ShownOnce allows.
OnePlace == Cardinality(online) + Cardinality(Owing) + Claim <= Allowance

\* The post that is shown is the one the row names or the one an edit or a cycle is
\* about to record; that process holds the row, and no other has its post.
Order ==
    /\ online \subseteq {postId} \cup {job[s].post : s \in Recording}
    /\ status # "published" => postId \notin online
    /\ \A s \in Requests :
        /\ job[s].at = "dropping" => job[s].post \notin online
        /\ job[s].at \in {"calling", "recording"} => status = "publishing"
    /\ \A s \in Recording :
        /\ job[s].post \in online
        /\ \A t \in Requests : t # s => job[t].post # job[s].post

\* As long as nothing happened that can leave a stray post.
Tidy == Clean => Order

-----------------------------------------------------------------------------
(* What a step does to the requests *)

LEMMA NoJobTyped == NoJob \in Job /\ NoJob.at = "off" /\ NoJob.post = None
BY DEF NoJob, Job, Stages, Kinds, Statuses

\* Only the request s goes on.
Alone(s) == \A t \in Requests : t # s => job'[t] = job[t]

LEMMA DoneJob ==
  ASSUME TypeOK, NEW s \in Requests, Done(s)
  PROVE  job' \in [Requests -> Job] /\ job'[s] = NoJob /\ Alone(s)
BY NoJobTyped DEF TypeOK, Done, Alone

LEMMA SetJob ==
  ASSUME TypeOK, NEW s \in Requests, NEW j \in Job, job' = [job EXCEPT ![s] = j]
  PROVE  job' \in [Requests -> Job] /\ job'[s] = j /\ Alone(s)
BY DEF TypeOK, Alone

LEMMA GoesJob ==
  ASSUME TypeOK, NEW s \in Requests, NEW stage \in Stages, Goes(s, stage)
  PROVE  /\ job' \in [Requests -> Job] /\ Alone(s)
         /\ job'[s].at = stage /\ job'[s].kind = job[s].kind /\ job'[s].post = job[s].post
<1>1. [job[s] EXCEPT !.at = stage] \in Job
  BY DEF TypeOK, Job
<1>2. job' = [job EXCEPT ![s] = [job[s] EXCEPT !.at = stage]]
  BY DEF Goes, TypeOK
<1> QED BY <1>1, <1>2, SetJob DEF TypeOK, Job

\* A process that starts holds the id it read.
LEMMA StartJob ==
  ASSUME TypeOK, NEW s \in Requests, NEW kind \in Kinds, NEW stage \in Stages,
         NEW id \in Posts \cup {None},
         job' = [job EXCEPT ![s] = [NoJob EXCEPT !.at = stage, !.kind = kind, !.post = id]]
  PROVE  /\ job' \in [Requests -> Job] /\ Alone(s)
         /\ job'[s].at = stage /\ job'[s].kind = kind /\ job'[s].post = id
<1> DEFINE j == [NoJob EXCEPT !.at = stage, !.kind = kind, !.post = id]
<1>1. j \in Job /\ j.at = stage /\ j.kind = kind /\ j.post = id
  BY NoJobTyped DEF Job
<1>2. job' = [job EXCEPT ![s] = j]
  OBVIOUS
<1> HIDE DEF j
<1> QED BY <1>1, <1>2, SetJob

LEMMA BeginJob ==
  ASSUME TypeOK, NEW s \in Requests, NEW kind \in Kinds, NEW stage \in Stages,
         Begin(s, kind, stage)
  PROVE  /\ job' \in [Requests -> Job] /\ Alone(s)
         /\ job'[s].at = stage /\ job'[s].kind = kind /\ job'[s].post = postId
         /\ job[s].at = "off" /\ begun' \in Nat
         /\ UNCHANGED <<status, postId, online, made, moves, events>>
<1>1. job[s].at = "off" /\ begun' \in Nat
      /\ UNCHANGED <<status, postId, online, made, moves, events>>
  BY DEF Begin, TypeOK
<1>2. postId \in Posts \cup {None}
  BY DEF TypeOK
<1> QED BY <1>1, <1>2, StartJob DEF Begin

LEMMA CycleClaimsJob ==
  ASSUME TypeOK, NEW s \in Requests, CycleClaims(s)
  PROVE  /\ job' \in [Requests -> Job] /\ Alone(s)
         /\ job'[s].at = "calling" /\ job'[s].kind = "cycle" /\ job'[s].post = postId
         /\ job[s].at = "off" /\ status = "scheduled" /\ status' = "publishing"
         /\ UNCHANGED <<postId, online, made, begun, moves, events>>
<1>1. postId \in Posts \cup {None} /\ "cycle" \in Kinds /\ "calling" \in Stages
  BY DEF TypeOK, Kinds, Stages
<1> QED BY <1>1, StartJob DEF CycleClaims

LEMMA MoveReadsJob ==
  ASSUME TypeOK, NEW s \in Requests, MoveReads(s)
  PROVE  /\ job' \in [Requests -> Job] /\ Alone(s)
         /\ job'[s].at = "moving" /\ job'[s].post = postId
         /\ job[s].at = "off" /\ moves' \in Nat
         /\ UNCHANGED <<status, postId, online, made, begun, events>>
<1> DEFINE j == [NoJob EXCEPT !.at = "moving", !.kind = "move", !.post = postId, !.seen = status]
<1>1. /\ status \in Statuses /\ postId \in Posts \cup {None}
      /\ job[s].at = "off" /\ moves' \in Nat
      /\ UNCHANGED <<status, postId, online, made, begun, events>>
      /\ job' = [job EXCEPT ![s] = j]
  BY DEF MoveReads, TypeOK
<1>2. j \in Job /\ j.at = "moving" /\ j.post = postId
  BY <1>1, NoJobTyped DEF Job, NoJob, Stages, Kinds
<1> HIDE DEF j
<1> QED BY <1>1, <1>2, SetJob

LEMMA PublishJob ==
  ASSUME TypeOK, NEW s \in Requests, Publish(s)
  PROVE  /\ job' \in [Requests -> Job] /\ Alone(s)
         /\ job'[s].at = "recording" /\ job'[s].kind = job[s].kind
         /\ job'[s].post = NewPost /\ NewPost \in Posts
         /\ job[s].at = "calling" /\ Makes
         /\ UNCHANGED <<status, postId, begun, moves, events>>
<1>1. NewPost \in Posts /\ Makes /\ job[s].at = "calling"
      /\ UNCHANGED <<status, postId, begun, moves, events>>
  BY LivePostsAssumption DEF Publish, Makes, NewPost, Posts, TypeOK
<1> DEFINE j == [job[s] EXCEPT !.at = "recording", !.post = NewPost]
<1>2. j \in Job /\ j.at = "recording" /\ j.kind = job[s].kind /\ j.post = NewPost
  BY <1>1 DEF Job, Stages, TypeOK
<1>3. job' = [job EXCEPT ![s] = j]
  BY DEF Publish, TypeOK
<1> HIDE DEF j
<1> QED BY <1>1, <1>2, <1>3, SetJob

LEMMA MakesTyped ==
  ASSUME TypeOK, Makes
  PROVE  made' \in 0..MaxPosts /\ NewPost \in Posts /\ online' \subseteq Posts
BY LivePostsAssumption DEF Makes, NewPost, Posts, TypeOK

LEMMA CountedTyped ==
  ASSUME TypeOK, NEW e \in Events, events' = Counted(e)
  PROVE  /\ events' \in [Events -> Nat]
         /\ events'[e] = events[e] + 1
         /\ \A d \in Events : events'[d] >= events[d]
         /\ ~Clean'
<1>1. events' = [events EXCEPT ![e] = @ + 1]
  BY DEF Counted
<1>2. events'[e] = events[e] + 1 /\ events' \in [Events -> Nat]
  BY <1>1 DEF TypeOK
<1> QED BY <1>1, <1>2 DEF TypeOK, Clean

LEMMA AfterErrorJob ==
  ASSUME TypeOK, NEW s \in Requests, AfterError(s)
  PROVE  /\ job' \in [Requests -> Job] /\ Alone(s)
         /\ job'[s].at \in {"off", "dropping"}
         /\ job[s].kind # "remove" => job'[s].at = "off"
         /\ job'[s].post \in {None, job[s].post}
<1>1. CASE job[s].kind = "remove"
  BY <1>1, GoesJob DEF AfterError, Stages
<1>2. CASE job[s].kind # "remove"
  BY <1>2, DoneJob, NoJobTyped DEF AfterError
<1> QED BY <1>1, <1>2

\* A cycle that takes its call for a failure.
LEMMA PutBackJob ==
  ASSUME TypeOK, NEW s \in Requests, PutBack(s)
  PROVE  /\ Done(s) /\ status' \in Statuses \cup {"gone"}
         /\ postId' \in {postId, job[s].post} /\ postId' \in Posts \cup {None}
         /\ \/ status' \in {"scheduled", "failed"} /\ postId' = job[s].post
            \/ status' = "gone" /\ status = "gone" /\ postId' = postId
<1>1. PICK to \in {"scheduled", "failed"} : SavesInstance(to, job[s].post)
  BY DEF PutBack
<1> QED BY <1>1 DEF PutBack, SavesInstance, Statuses, TypeOK, Job

\* What a move saves: a status, over the row as it is, unless that is gone.
LEMMA MoveSavesRow ==
  ASSUME TypeOK, NEW s \in Requests, MoveSaves(s)
  PROVE  /\ Done(s) /\ status' \in Statuses \cup {"gone"}
         /\ UNCHANGED <<postId, online, made, begun, moves>>
         /\ \/ status = "gone" /\ status' = "gone" /\ events' = events
            \/ status \notin {"gone", "publishing", "published"} /\ status' # "gone"
               /\ events' = events
            \/ status \in {"publishing", "published"}
               /\ \E e \in {"retaken", "outdated"} : events' = Counted(e)
<1>1. job[s].seen \in Statuses
  BY DEF TypeOK, Job
<1>2. Targets(job[s].seen) \subseteq Moved
  BY <1>1 DEF Targets, Moved
<1>3. Targets(job[s].seen) \subseteq Statuses /\ "gone" \notin Statuses
  BY <1>2 DEF Moved, Statuses
<1>4. CASE status = "gone"
  BY <1>4 DEF MoveSaves
<1>5. CASE status \notin {"gone", "publishing", "published"}
  BY <1>3, <1>5 DEF MoveSaves
<1>6. CASE status \in {"publishing", "published"}
  BY <1>3, <1>6 DEF MoveSaves
<1> QED BY <1>4, <1>5, <1>6

\* What a composer save writes: the row as it was read, which is an event when the
\* row had become live or gone; otherwise a person could schedule it before.
LEMMA ComposerSavesRow ==
  ASSUME TypeOK, NEW s \in Requests, ComposerSaves(s)
  PROVE  /\ Done(s) /\ status' \in Statuses \cup {"gone"}
         /\ postId' \in {postId, job[s].post} /\ postId' \in Posts \cup {None}
         /\ UNCHANGED <<online, made, begun, moves>>
         /\ \/ events' = Counted("outdated")
            \/ events' = events /\ UNCHANGED <<status, postId>>
            \/ events' = events /\ status \notin {"gone", "publishing", "published"}
               /\ status' # "gone"
<1>1. job[s].seen \in Statuses /\ job[s].post \in Posts \cup {None}
  BY DEF TypeOK, Job
<1>2. "gone" \notin Statuses
  BY DEF Statuses
<1>3. \/ status' = job[s].seen /\ postId' = job[s].post
      \/ status = "gone" /\ UNCHANGED <<status, postId>>
  BY DEF ComposerSaves, SavesInstance
<1> QED BY <1>1, <1>2, <1>3 DEF ComposerSaves, TypeOK

\* A row that the composer leaves out is gone; its post is kept, or is being made.
LEMMA LeavesOutRow ==
  ASSUME TypeOK, LeavesOut
  PROVE  /\ status' = "gone" /\ postId' = None /\ moves' \in Nat
         /\ UNCHANGED <<online, made, job, begun>>
         /\ \/ \E e \in {"kept", "overtaken"} : events' = Counted(e)
            \/ events' = events /\ postId \notin online /\ \A s \in Requests : ~Making(s)
BY DEF LeavesOut, TypeOK

-----------------------------------------------------------------------------
(* Types *)

LEMMA TypeStep == TypeOK /\ [Next]_vars => TypeOK'
<1> SUFFICES ASSUME TypeOK, [Next]_vars PROVE TypeOK'
  OBVIOUS
<1>a. {"draft", "publishing", "published"} \subseteq Statuses
  BY DEF Statuses
<1>b. /\ status \in Statuses \cup {"gone"}
      /\ postId \in Posts \cup {None}
      /\ online \subseteq Posts
      /\ made \in 0..MaxPosts
      /\ job \in [Requests -> Job]
      /\ begun \in Nat /\ moves \in Nat
      /\ events \in [Events -> Nat]
      /\ \A s \in Requests : job[s].post \in Posts \cup {None} /\ job[s].kind \in Kinds
  BY DEF TypeOK, Job
<1>c. {"deleting", "deleted", "calling", "recording", "logging", "dropping"} \subseteq Stages
      /\ {"delete", "edit", "remove"} \subseteq Kinds
      /\ {"unanswered", "repeated", "goneAnswer", "retaken", "outdated", "kept", "overtaken"}
           \subseteq Events
  BY DEF Stages, Kinds, Events
<1>1. ASSUME NEW s \in Requests, NEW kind \in {"delete", "edit"}, Operation(s, kind)
      PROVE  TypeOK'
  BY <1>1, <1>b, <1>c, BeginJob DEF Operation, TypeOK
<1>2. ASSUME NEW s \in Requests, Remove(s) PROVE TypeOK'
  <2> DEFINE stage == IF Live THEN "deleting" ELSE "dropping"
  <2>1. stage \in Stages /\ Begin(s, "remove", stage)
    BY <1>2, <1>c DEF Remove
  <2> HIDE DEF stage
  <2> QED BY <2>1, <1>b, <1>c, BeginJob DEF TypeOK
<1>3. ASSUME NEW s \in Requests, PostDeleted(s) PROVE TypeOK'
  BY <1>3, <1>b, <1>c, GoesJob DEF PostDeleted, TypeOK
<1>4. ASSUME NEW s \in Requests, PostAlreadyGone(s) PROVE TypeOK'
  BY <1>4, <1>b, <1>c, GoesJob, CountedTyped DEF PostAlreadyGone, TypeOK
<1>5. ASSUME NEW s \in Requests, DeletionRefused(s) PROVE TypeOK'
  BY <1>5, <1>b, <1>c, AfterErrorJob, CountedTyped DEF DeletionRefused, TypeOK
<1>6. ASSUME NEW s \in Requests, DeletionUnanswered(s) PROVE TypeOK'
  BY <1>6, <1>b, <1>c, AfterErrorJob, CountedTyped DEF DeletionUnanswered, TypeOK
<1>7. ASSUME NEW s \in Requests, RecordDeletion(s) PROVE TypeOK'
  BY <1>7, <1>a, <1>b, <1>c, GoesJob, DoneJob DEF RecordDeletion, TypeOK
<1>8. ASSUME NEW s \in Requests, DropRecord(s) PROVE TypeOK'
  BY <1>8, <1>b, <1>c, DoneJob, CountedTyped DEF DropRecord, TypeOK
<1>9. ASSUME NEW s \in Requests, MarkPublishing(s) PROVE TypeOK'
  BY <1>9, <1>a, <1>b, <1>c, GoesJob, DoneJob DEF MarkPublishing, TypeOK
<1>10. ASSUME NEW s \in Requests, Publish(s) PROVE TypeOK'
  BY <1>10, <1>b, PublishJob, MakesTyped DEF TypeOK
<1>11. ASSUME NEW s \in Requests, RepublishRefused(s) PROVE TypeOK'
  BY <1>11, <1>b, DoneJob DEF RepublishRefused, TypeOK
<1>12. ASSUME NEW s \in Requests, RepublishUnanswered(s) PROVE TypeOK'
  BY <1>12, <1>b, <1>c, DoneJob, MakesTyped, CountedTyped DEF RepublishUnanswered, TypeOK
<1>13. ASSUME NEW s \in Requests, RecordEdit(s) PROVE TypeOK'
  BY <1>13, <1>a, <1>b, DoneJob DEF RecordEdit, TypeOK
<1>14. ASSUME NEW s \in Requests, Crash(s) PROVE TypeOK'
  BY <1>14, <1>b, <1>c, DoneJob, CountedTyped DEF Crash, TypeOK
<1>15. ASSUME NEW s \in Requests, CycleClaims(s) PROVE TypeOK'
  BY <1>15, <1>a, <1>b, CycleClaimsJob DEF TypeOK
<1>16. ASSUME NEW s \in Requests, CycleRefused(s) PROVE TypeOK'
  BY <1>16, <1>b, DoneJob, PutBackJob DEF CycleRefused, TypeOK
<1>17. ASSUME NEW s \in Requests, CycleUnanswered(s) PROVE TypeOK'
  BY <1>17, <1>b, <1>c, DoneJob, PutBackJob, MakesTyped, CountedTyped DEF CycleUnanswered, TypeOK
<1>18. ASSUME NEW s \in Requests, CycleSaves(s) PROVE TypeOK'
  BY <1>18, <1>a, <1>b, <1>c, GoesJob DEF CycleSaves, SavesInstance, TypeOK
<1>19. ASSUME NEW s \in Requests, Logged(s) PROVE TypeOK'
  BY <1>19, <1>b, DoneJob DEF Logged, TypeOK
<1>20. ASSUME NEW s \in Requests, LogFails(s) PROVE TypeOK'
  BY <1>20, <1>b, <1>c, DoneJob, PutBackJob, CountedTyped DEF LogFails, TypeOK
<1>21. ASSUME NEW s \in Requests, MoveReads(s) PROVE TypeOK'
  BY <1>21, <1>b, MoveReadsJob DEF TypeOK
<1>22. ASSUME NEW s \in Requests, MoveSaves(s) PROVE TypeOK'
  <2>1. events' \in [Events -> Nat]
    BY <1>22, <1>b, <1>c, MoveSavesRow, CountedTyped
  <2> QED BY <1>22, <2>1, <1>b, DoneJob, MoveSavesRow DEF TypeOK
<1>23. CASE UNCHANGED vars
  BY <1>23, <1>b DEF vars, TypeOK
<1>24. ASSUME NEW s \in Requests, ComposerSaves(s) PROVE TypeOK'
  <2>1. events' \in [Events -> Nat]
    BY <1>24, <1>b, <1>c, ComposerSavesRow, CountedTyped
  <2> QED BY <1>24, <2>1, <1>b, DoneJob, ComposerSavesRow DEF TypeOK
<1>25. CASE LeavesOut
  <2>1. events' \in [Events -> Nat]
    BY <1>25, <1>b, <1>c, LeavesOutRow, CountedTyped
  <2> QED BY <1>25, <2>1, <1>b, LeavesOutRow DEF TypeOK
<1> QED BY <1>1, <1>2, <1>3, <1>4, <1>5, <1>6, <1>7, <1>8, <1>9, <1>10, <1>11, <1>12,
           <1>13, <1>14, <1>15, <1>16, <1>17, <1>18, <1>19, <1>20, <1>21, <1>22, <1>23,
           <1>24, <1>25
        DEF Next

LEMMA TypeInit == Init => TypeOK
<1> SUFFICES ASSUME Init PROVE TypeOK
  OBVIOUS
<1>1. 1 \in Posts /\ 1 \in 0..MaxPosts
  BY LivePostsAssumption DEF Posts
<1> QED BY <1>1, NoJobTyped DEF Init, TypeOK, Statuses

\* Every row, call and counter of a live post stays within its type.
THEOREM TypeCorrect == Spec => []TypeOK
BY TypeInit, TypeStep, PTL DEF Spec

-----------------------------------------------------------------------------
(* Ids *)

\* What Known says of the request s.
KnownJob(s) ==
    /\ job[s].post # None => job[s].post <= made
    /\ job[s].at \in {"calling", "recording"} => job[s].kind \in {"edit", "cycle"}
    /\ job[s].at = "recording" => job[s].post # None

\* A process that goes on keeps Known, when it alone goes on and ids are kept.
LEMMA KnownKept ==
  ASSUME TypeOK, Known, TypeOK', NEW s \in Requests, Alone(s), KnownJob(s)',
         made <= made', online' \subseteq 1..made',
         postId' # None => postId' <= made'
  PROVE  Known'
<1>1. ASSUME NEW t \in Requests, t # s PROVE KnownJob(t)'
  <2>1. KnownJob(t) /\ job'[t] = job[t] /\ job[t].post \in Posts \cup {None}
    BY <1>1 DEF Known, KnownJob, Alone, TypeOK, Job
  <2>2. made \in Int /\ made' \in Int /\ Posts \subseteq Int
    BY LivePostsAssumption DEF TypeOK, Posts
  <2>3. job[t].post # None => job[t].post \in Int /\ job[t].post <= made'
    <3> HAVE job[t].post # None
    <3>1. job[t].post \in Int /\ job[t].post <= made
      BY <2>1, <2>2 DEF KnownJob
    <3> QED BY <3>1, <2>2
  <2> QED BY <2>1, <2>3 DEF KnownJob
<1> QED BY <1>1 DEF Known, KnownJob

LEMMA KnownStep == TypeOK /\ Known /\ [Next]_vars => Known'
<1> SUFFICES ASSUME TypeOK, Known, [Next]_vars PROVE Known'
  OBVIOUS
<1>t. TypeOK'
  BY TypeStep
<1>b. /\ made \in Int /\ made <= made
      /\ online \subseteq 1..made
      /\ postId # None => postId <= made
      /\ \A s \in Requests : KnownJob(s)
  BY DEF TypeOK, Known, KnownJob
<1>n. ASSUME Makes
      PROVE  /\ made' = NewPost /\ NewPost = made + 1 /\ made <= made'
             /\ online' \subseteq 1..made'
             /\ \A x \in Posts : x <= made => x <= made'
  BY <1>n, <1>b DEF Makes, NewPost, Posts, TypeOK
<1>d. ASSUME NEW s \in Requests, Done(s) PROVE KnownJob(s)' /\ Alone(s)
  BY <1>d, DoneJob, NoJobTyped DEF KnownJob
<1>g. ASSUME NEW s \in Requests, NEW stage \in {"deleted", "dropping", "logging"}, Goes(s, stage),
             made' = made
      PROVE  KnownJob(s)' /\ Alone(s)
  BY <1>g, <1>b, GoesJob DEF KnownJob, Stages
<1>e. ASSUME NEW s \in Requests, AfterError(s), made' = made
      PROVE  KnownJob(s)' /\ Alone(s)
  BY <1>d, <1>e, <1>g DEF AfterError
<1>1. ASSUME NEW s \in Requests, NEW kind \in Kinds, NEW stage \in {"deleting", "dropping"},
             Begin(s, kind, stage)
      PROVE  Known'
  <2>1. KnownJob(s)' /\ Alone(s) /\ UNCHANGED <<made, online, postId>>
    BY <1>1, <1>b, BeginJob DEF KnownJob, Stages
  <2> QED BY <2>1, <1>t, <1>b, KnownKept
<1>2. ASSUME NEW s \in Requests, NEW kind \in {"delete", "edit"}, Operation(s, kind)
      PROVE  Known'
  BY <1>1, <1>2 DEF Operation, Kinds
<1>3. ASSUME NEW s \in Requests, Remove(s) PROVE Known'
  BY <1>1, <1>3 DEF Remove, Kinds
<1>4. ASSUME NEW s \in Requests,
             \/ PostDeleted(s) \/ PostAlreadyGone(s) \/ DeletionRefused(s)
             \/ DeletionUnanswered(s) \/ RecordDeletion(s) \/ DropRecord(s)
             \/ RepublishRefused(s) \/ CycleRefused(s) \/ CycleSaves(s) \/ Logged(s)
             \/ LogFails(s) \/ MoveSaves(s) \/ ComposerSaves(s) \/ Crash(s)
      PROVE  Known'
  <2>1. /\ made' = made /\ online' \subseteq online /\ postId' \in {None, postId, job[s].post}
        /\ Done(s) \/ AfterError(s) \/ \E stage \in {"deleted", "dropping", "logging"} : Goes(s, stage)
    BY <1>4, PutBackJob DEF PostDeleted, PostAlreadyGone, DeletionRefused, DeletionUnanswered,
         RecordDeletion, DropRecord, RepublishRefused, CycleRefused, CycleSaves, SavesInstance,
         Logged, LogFails, MoveSaves, ComposerSaves, Crash
  <2>2. KnownJob(s)' /\ Alone(s)
    BY <2>1, <1>d, <1>e, <1>g
  <2>3. postId' # None => postId' <= made'
    BY <2>1, <1>b DEF KnownJob
  <2> QED BY <2>1, <2>2, <2>3, <1>t, <1>b, KnownKept
<1>5. ASSUME NEW s \in Requests, MarkPublishing(s) PROVE Known'
  <2>1. made' = made /\ online' = online /\ postId' \in {None, postId}
    BY <1>5 DEF MarkPublishing
  <2>2. KnownJob(s)' /\ Alone(s)
    <3>1. CASE Done(s)
      BY <3>1, <1>d
    <3>2. CASE Goes(s, "calling") /\ job[s].kind = "edit"
      BY <3>2, <2>1, <1>b, GoesJob DEF KnownJob, Stages
    <3> QED BY <1>5, <3>1, <3>2 DEF MarkPublishing
  <2> QED BY <2>1, <2>2, <1>t, <1>b, KnownKept
<1>6. ASSUME NEW s \in Requests, Publish(s) PROVE Known'
  <2>1. Makes /\ postId' = postId
    BY <1>6, PublishJob
  <2>2. NewPost # None
    BY <1>6, PublishJob, LivePostsAssumption
  <2>3. KnownJob(s)' /\ Alone(s)
    BY <1>6, <1>b, <1>n, <2>1, <2>2, PublishJob DEF KnownJob
  <2>4. postId' # None => postId' <= made'
    BY <2>1, <1>b, <1>n DEF TypeOK
  <2> QED BY <2>1, <2>3, <2>4, <1>t, <1>n, KnownKept
<1>7. ASSUME NEW s \in Requests, RepublishUnanswered(s) PROVE Known'
  <2>1. Makes /\ postId' = postId /\ Done(s)
    BY <1>7 DEF RepublishUnanswered
  <2>2. postId' # None => postId' <= made'
    BY <2>1, <1>b, <1>n DEF TypeOK
  <2> QED BY <2>1, <2>2, <1>d, <1>t, <1>n, KnownKept
<1>8. ASSUME NEW s \in Requests, RecordEdit(s) PROVE Known'
  BY <1>8, <1>b, <1>d, <1>t, KnownKept DEF RecordEdit, KnownJob
<1>9. ASSUME UNCHANGED vars PROVE Known'
  BY <1>9 DEF Known, vars
<1>10. ASSUME NEW s \in Requests, CycleClaims(s) PROVE Known'
  <2>1. KnownJob(s)' /\ Alone(s) /\ UNCHANGED <<made, online, postId>>
    BY <1>10, <1>b, CycleClaimsJob DEF KnownJob
  <2> QED BY <2>1, <1>t, <1>b, KnownKept
<1>11. ASSUME NEW s \in Requests, MoveReads(s) PROVE Known'
  <2>1. KnownJob(s)' /\ Alone(s) /\ UNCHANGED <<made, online, postId>>
    BY <1>11, <1>b, MoveReadsJob DEF KnownJob
  <2> QED BY <2>1, <1>t, <1>b, KnownKept
<1>12. ASSUME NEW s \in Requests, CycleUnanswered(s) PROVE Known'
  <2>1. Makes /\ PutBack(s) /\ Done(s)
    BY <1>12, PutBackJob DEF CycleUnanswered
  <2>2. postId' # None => postId' \in Posts /\ postId' <= made
    BY <2>1, <1>b, PutBackJob DEF KnownJob
  <2>3. postId' # None => postId' <= made'
    BY <2>1, <2>2, <1>n
  <2> QED BY <2>1, <2>3, <1>d, <1>t, <1>n, KnownKept
<1>13. CASE LeavesOut
  <2>1. UNCHANGED <<made, online, job>> /\ postId' = None
    BY <1>13, LeavesOutRow
  <2> QED BY <2>1 DEF Known
<1> QED BY <1>2, <1>3, <1>4, <1>5, <1>6, <1>7, <1>8, <1>9, <1>10, <1>11, <1>12, <1>13 DEF Next

LEMMA KnownInit == Init => Known
BY NoJobTyped DEF Init, Known

-----------------------------------------------------------------------------
(* One place at a time *)

LEMMA OnlineCount ==
  ASSUME TypeOK
  PROVE  IsFiniteSet(online) /\ Cardinality(online) \in Nat
<1>1. IsFiniteSet(Posts)
  BY LivePostsAssumption, FS_Interval DEF Posts
<1> QED BY <1>1, FS_Subset, FS_CardinalityType DEF TypeOK

LEMMA OwingCount == IsFiniteSet(Owing) /\ Cardinality(Owing) \in Nat
BY LivePostsAssumption, FS_Subset, FS_CardinalityType DEF Owing

Owes(s) == job[s].at \in {"deleted", "calling"}

\* A step of one request changes its own debt only.
LEMMA OwingStep ==
  ASSUME NEW s \in Requests, Alone(s)
  PROVE  /\ (Owes(s) <=> Owes(s)') => Owing' = Owing
         /\ ~Owes(s) /\ Owes(s)' => Cardinality(Owing') = Cardinality(Owing) + 1
         /\ Owes(s) /\ ~Owes(s)' => Cardinality(Owing') = Cardinality(Owing) - 1
<1>1. \A t \in Requests : t # s => (t \in Owing' <=> t \in Owing)
  BY DEF Owing, Alone
<1>2. /\ s \in Owing <=> Owes(s)
      /\ s \in Owing' <=> Owes(s)'
  BY DEF Owing, Owes
<1>3. Owing \subseteq Requests /\ Owing' \subseteq Requests
  BY DEF Owing
<1>4. (Owes(s) <=> Owes(s)') => Owing' = Owing
  BY <1>1, <1>2, <1>3
<1>5. ASSUME ~Owes(s), Owes(s)' PROVE Cardinality(Owing') = Cardinality(Owing) + 1
  <2>1. Owing' = Owing \cup {s} /\ s \notin Owing
    BY <1>1, <1>2, <1>3, <1>5
  <2> QED BY <2>1, OwingCount, FS_AddElement
<1>6. ASSUME Owes(s), ~Owes(s)' PROVE Cardinality(Owing') = Cardinality(Owing) - 1
  <2>1. Owing' = Owing \ {s} /\ s \in Owing
    BY <1>1, <1>2, <1>3, <1>6
  <2> QED BY <2>1, OwingCount, FS_RemoveElement
<1> QED BY <1>4, <1>5, <1>6

LEMMA MakesCount ==
  ASSUME TypeOK, Makes
  PROVE  Cardinality(online') <= Cardinality(online) + 1 /\ Cardinality(online') \in Nat
<1>1. online' = online \cup {NewPost}
  BY DEF Makes
<1>2. IsFiniteSet(online) /\ Cardinality(online) \in Nat
  BY OnlineCount
<1>3. Cardinality(online') \in {Cardinality(online), Cardinality(online) + 1}
  BY <1>1, <1>2, FS_AddElement
<1> QED BY <1>2, <1>3

LEMMA TakenDown ==
  ASSUME TypeOK, NEW x \in online, online' = online \ {x}
  PROVE  Cardinality(online') = Cardinality(online) - 1
BY OnlineCount, FS_RemoveElement

\* The allowance only grows, and by one with each event that raises it.
LEMMA AllowanceStep ==
  ASSUME TypeOK, TypeOK', events' = events \/ \E e \in Events : events' = Counted(e)
  PROVE  /\ Allowance' >= Allowance /\ Allowance \in Nat /\ Allowance' \in Nat
         /\ (\E e \in Raising : events' = Counted(e)) => Allowance' = Allowance + 1
<1>1. Raising \subseteq Events
  BY DEF Events, Raising
<1>2. \A e \in Raising : events[e] \in Nat /\ events'[e] \in Nat /\ events'[e] >= events[e]
  BY <1>1, CountedTyped DEF TypeOK
<1>3. Allowance' >= Allowance /\ Allowance \in Nat /\ Allowance' \in Nat
  BY <1>2 DEF Allowance, Raising
<1>4. ASSUME NEW e \in Raising, events' = Counted(e)
      PROVE  Allowance' = Allowance + 1
  <2>1. events'[e] = events[e] + 1 /\ \A d \in Raising : d # e => events'[d] = events[d]
    BY <1>1, <1>4 DEF Counted, TypeOK
  <2> QED BY <1>2, <2>1 DEF Allowance, Raising
<1> QED BY <1>3, <1>4

Sum == Cardinality(online) + Cardinality(Owing) + Claim

\* What a step does to the sum.
LEMMA SumTyped ==
  ASSUME TypeOK
  PROVE  Sum \in Nat
BY OnlineCount, OwingCount DEF Sum, Claim

LEMMA SumKept ==
  ASSUME TypeOK, TypeOK', OnePlace, events' = events \/ \E e \in Events : events' = Counted(e),
         Sum' <= Sum
  PROVE  OnePlace'
<1>1. Sum \in Nat /\ Sum' \in Nat
  <2>1. IsFiniteSet(Posts) /\ IsFiniteSet(Requests)
    BY LivePostsAssumption, FS_Interval DEF Posts
  <2>2. online' \subseteq Posts /\ Owing' \subseteq Requests
    BY DEF TypeOK, Owing
  <2>3. Cardinality(online') \in Nat /\ Cardinality(Owing') \in Nat
    BY <2>1, <2>2, FS_Subset, FS_CardinalityType
  <2> QED BY <2>3, SumTyped DEF Sum, Claim
<1> QED BY <1>1, AllowanceStep DEF OnePlace, Sum

LEMMA SumRaised ==
  ASSUME TypeOK, TypeOK', OnePlace, NEW e \in Raising, events' = Counted(e),
         Sum' <= Sum + 1, Sum' \in Int
  PROVE  OnePlace'
<1>1. e \in Events
  BY DEF Raising, Events
<1> QED BY <1>1, SumTyped, AllowanceStep DEF OnePlace, Sum

LEMMA OnePlaceStep == TypeOK /\ OnePlace /\ [Next]_vars => OnePlace'
<1> SUFFICES ASSUME TypeOK, OnePlace, [Next]_vars PROVE OnePlace'
  OBVIOUS
<1>t. TypeOK'
  BY TypeStep
<1>b. /\ Cardinality(online) \in Nat /\ Cardinality(Owing) \in Nat /\ Claim \in {0, 1}
      /\ Claim' \in {0, 1}
  BY OnlineCount, OwingCount DEF Claim
<1>c. /\ {"unanswered", "repeated", "goneAnswer", "retaken", "outdated", "kept", "overtaken"}
           \subseteq Events
      /\ {"repeated", "goneAnswer", "retaken", "outdated"} \subseteq Raising
  BY DEF Events, Raising
<1>d. ASSUME NEW s \in Requests, Done(s) PROVE Alone(s) /\ ~Owes(s)'
  BY <1>d, DoneJob, NoJobTyped DEF Owes
<1>g. ASSUME NEW s \in Requests, NEW stage \in Stages, Goes(s, stage)
      PROVE  Alone(s) /\ (Owes(s)' <=> stage \in {"deleted", "calling"})
  BY <1>g, GoesJob DEF Owes
<1>e. ASSUME NEW s \in Requests, AfterError(s) PROVE Alone(s) /\ ~Owes(s)'
  BY <1>d, <1>e, <1>g DEF AfterError, Stages
<1>o. ASSUME NEW s \in Requests, Alone(s), ~Owes(s)'
      PROVE  /\ Cardinality(Owing') <= Cardinality(Owing) /\ Cardinality(Owing') \in Int
             /\ Owes(s) => Cardinality(Owing') = Cardinality(Owing) - 1
  BY <1>o, <1>b, OwingStep
<1>1. ASSUME NEW s \in Requests, NEW kind \in Kinds, NEW stage \in {"deleting", "dropping"},
             Begin(s, kind, stage)
      PROVE  OnePlace'
  <2>1. Alone(s) /\ ~Owes(s)' /\ UNCHANGED <<status, online, events>>
    BY <1>1, BeginJob DEF Owes, Stages
  <2>2. Claim' = Claim
    BY <2>1 DEF Claim, Open
  <2> QED BY <2>1, <2>2, <1>o, <1>b, <1>t, SumKept DEF Sum
<1>2. ASSUME NEW s \in Requests, NEW kind \in {"delete", "edit"}, Operation(s, kind)
      PROVE  OnePlace'
  BY <1>1, <1>2 DEF Operation, Kinds
<1>3. ASSUME NEW s \in Requests, Remove(s) PROVE OnePlace'
  BY <1>1, <1>3 DEF Remove, Kinds
<1>4. ASSUME NEW s \in Requests, PostDeleted(s) PROVE OnePlace'
  <2>1. /\ Alone(s) /\ ~Owes(s) /\ Owes(s)'
        /\ Claim' = Claim /\ events' = events
        /\ Cardinality(online') = Cardinality(online) - 1
    BY <1>4, <1>g, TakenDown DEF PostDeleted, Stages, Owes, Claim, Open
  <2> QED BY <2>1, <1>b, <1>t, OwingStep, SumKept DEF Sum
<1>5. ASSUME NEW s \in Requests, PostAlreadyGone(s) PROVE OnePlace'
  <2>1. /\ Alone(s) /\ ~Owes(s) /\ Owes(s)' /\ Claim' = Claim /\ online' = online
        /\ events' = Counted("goneAnswer")
    BY <1>5, <1>g DEF PostAlreadyGone, Stages, Owes, Claim, Open
  <2>2. Sum' = Sum + 1
    BY <2>1, <1>b, OwingStep DEF Sum
  <2> QED BY <2>1, <2>2, <1>c, <1>t, SumTyped, SumRaised
<1>6. ASSUME NEW s \in Requests, DeletionRefused(s) \/ DeletionUnanswered(s) PROVE OnePlace'
  <2>1. /\ AfterError(s) /\ status' = status
        /\ online' = online \/ (job[s].post \in online /\ online' = online \ {job[s].post})
        /\ events' = events \/ \E e \in Events : events' = Counted(e)
    BY <1>6, <1>c DEF DeletionRefused, DeletionUnanswered
  <2>2. Cardinality(online') <= Cardinality(online) /\ Cardinality(online') \in Int
    BY <2>1, <1>b, TakenDown
  <2>3. Claim' = Claim
    BY <2>1 DEF Claim, Open
  <2> QED BY <2>1, <2>2, <2>3, <1>e, <1>o, <1>b, <1>t, SumKept DEF Sum
<1>7. ASSUME NEW s \in Requests, RecordDeletion(s) PROVE OnePlace'
  <2>1. /\ Owes(s) /\ Alone(s) /\ ~Owes(s)' /\ online' = online /\ events' = events
    BY <1>7, <1>d, <1>g DEF RecordDeletion, Owes, Stages
  <2> QED BY <2>1, <1>o, <1>b, <1>t, SumKept DEF Sum
<1>8. ASSUME NEW s \in Requests, DropRecord(s) PROVE OnePlace'
  <2>1. /\ Done(s) /\ online' = online /\ status' = "gone"
        /\ events' = events \/ \E e \in Events : events' = Counted(e)
    BY <1>8, <1>c DEF DropRecord
  <2>2. Claim' = 0
    BY <2>1 DEF Claim, Open
  <2> QED BY <2>1, <2>2, <1>d, <1>o, <1>b, <1>t, SumKept DEF Sum
<1>9. ASSUME NEW s \in Requests, MarkPublishing(s) PROVE OnePlace'
  <2>1. /\ Owes(s) /\ Alone(s) /\ online' = online /\ events' = events
        /\ ~Owes(s)' \/ Owes(s)'
    BY <1>9, <1>d, <1>g DEF MarkPublishing, Owes, Stages
  <2>2. Claim' <= Claim
    BY <1>9, <1>b DEF MarkPublishing, Claim, Open
  <2>3. Cardinality(Owing') <= Cardinality(Owing) /\ Cardinality(Owing') \in Int
    BY <2>1, <1>b, OwingStep
  <2> QED BY <2>1, <2>2, <2>3, <1>b, <1>t, SumKept DEF Sum
<1>10. ASSUME NEW s \in Requests, Publish(s) PROVE OnePlace'
  <2>1. Owes(s) /\ Alone(s) /\ ~Owes(s)' /\ events' = events /\ Makes /\ Claim' = Claim
    BY <1>10, PublishJob DEF Owes, Claim, Open
  <2> QED BY <2>1, <1>o, <1>b, <1>t, MakesCount, SumKept DEF Sum
<1>11. ASSUME NEW s \in Requests, RepublishRefused(s) \/ Crash(s) PROVE OnePlace'
  <2>1. /\ Done(s) /\ UNCHANGED <<status, online>>
        /\ events' = events \/ \E e \in Events : events' = Counted(e)
    BY <1>11, <1>c DEF RepublishRefused, Crash
  <2>2. Claim' = Claim
    BY <2>1 DEF Claim, Open
  <2> QED BY <2>1, <2>2, <1>d, <1>o, <1>b, <1>t, SumKept DEF Sum
<1>12. ASSUME NEW s \in Requests, RepublishUnanswered(s) PROVE OnePlace'
  <2>1. /\ Owes(s) /\ Done(s) /\ Makes /\ Claim' = Claim
        /\ \E e \in Events : events' = Counted(e)
    BY <1>12, <1>c DEF RepublishUnanswered, Owes, Claim, Open
  <2> QED BY <2>1, <1>d, <1>o, <1>b, <1>t, MakesCount, SumKept DEF Sum
<1>13. ASSUME NEW s \in Requests, RecordEdit(s) PROVE OnePlace'
  <2>1. Done(s) /\ online' = online /\ events' = events
    BY <1>13 DEF RecordEdit
  <2>2. Claim' = 0
    BY <1>13 DEF RecordEdit, Claim, Open
  <2> QED BY <2>1, <2>2, <1>d, <1>o, <1>b, <1>t, SumKept DEF Sum
<1>14. ASSUME NEW s \in Requests, CycleClaims(s) PROVE OnePlace'
  <2>1. /\ Alone(s) /\ ~Owes(s) /\ Owes(s)' /\ online' = online /\ events' = events
        /\ Claim = 1 /\ Claim' = 0
    BY <1>14, CycleClaimsJob DEF Owes, Claim, Open
  <2> QED BY <2>1, <1>b, <1>t, OwingStep, SumKept DEF Sum
<1>15. ASSUME NEW s \in Requests, CycleRefused(s) PROVE OnePlace'
  <2>1. Owes(s) /\ Done(s) /\ online' = online /\ events' = events
    BY <1>15, PutBackJob DEF CycleRefused, Owes
  <2>2. Cardinality(Owing') = Cardinality(Owing) - 1
    BY <2>1, <1>d, <1>o
  <2>3. Claim \in Nat /\ Claim' <= 1 /\ Claim' \in Nat
    BY DEF Claim
  <2> QED BY <2>1, <2>2, <2>3, <1>b, <1>t, SumKept DEF Sum
<1>16. ASSUME NEW s \in Requests, CycleUnanswered(s) PROVE OnePlace'
  <2>1. /\ Owes(s) /\ Done(s) /\ Makes /\ events' = Counted("repeated")
    BY <1>16, PutBackJob DEF CycleUnanswered, Owes
  <2>2. Cardinality(Owing') = Cardinality(Owing) - 1
    BY <2>1, <1>d, <1>o
  <2>3. Cardinality(online') <= Cardinality(online) + 1 /\ Cardinality(online') \in Nat
    BY <2>1, MakesCount
  <2>4. Sum' <= Sum + 1 /\ Sum' \in Int
    BY <2>2, <2>3, <1>b DEF Sum
  <2> QED BY <2>1, <2>4, <1>c, <1>t, SumRaised
<1>17. ASSUME NEW s \in Requests, CycleSaves(s) PROVE OnePlace'
  <2>1. Alone(s) /\ ~Owes(s)' /\ online' = online /\ events' = events
    BY <1>17, <1>g DEF CycleSaves, Stages
  <2>2. Claim' = 0
    BY <1>17 DEF CycleSaves, SavesInstance, Claim, Open
  <2> QED BY <2>1, <2>2, <1>o, <1>b, <1>t, SumKept DEF Sum
<1>18. ASSUME NEW s \in Requests, Logged(s) PROVE OnePlace'
  <2>1. Done(s) /\ UNCHANGED <<status, online, events>>
    BY <1>18 DEF Logged
  <2>2. Claim' = Claim
    BY <2>1 DEF Claim, Open
  <2> QED BY <2>1, <2>2, <1>d, <1>o, <1>b, <1>t, SumKept DEF Sum
<1>19. ASSUME NEW s \in Requests, LogFails(s) PROVE OnePlace'
  <2>1. Done(s) /\ online' = online /\ events' = Counted("repeated")
    BY <1>19, PutBackJob DEF LogFails
  <2>2. Cardinality(Owing') <= Cardinality(Owing) /\ Cardinality(Owing') \in Int
    BY <2>1, <1>d, <1>o
  <2>3. Sum' <= Sum + 1 /\ Sum' \in Int
    BY <2>1, <2>2, <1>b DEF Sum
  <2> QED BY <2>1, <2>3, <1>c, <1>t, SumRaised
<1>20. ASSUME NEW s \in Requests, MoveReads(s) PROVE OnePlace'
  <2>1. Alone(s) /\ ~Owes(s)' /\ UNCHANGED <<status, online, events>>
    BY <1>20, MoveReadsJob DEF Owes
  <2>2. Claim' = Claim
    BY <2>1 DEF Claim, Open
  <2> QED BY <2>1, <2>2, <1>o, <1>b, <1>t, SumKept DEF Sum
<1>21. ASSUME NEW s \in Requests, MoveSaves(s) PROVE OnePlace'
  <2>1. Done(s) /\ online' = online
    BY <1>21, MoveSavesRow
  <2>2. Cardinality(Owing') <= Cardinality(Owing) /\ Cardinality(Owing') \in Int
    BY <2>1, <1>d, <1>o
  <2>3. CASE status \in {"publishing", "published"}
    <3>1. PICK e \in {"retaken", "outdated"} : events' = Counted(e)
      BY <1>21, <2>3, MoveSavesRow
    <3>2. Sum' <= Sum + 1 /\ Sum' \in Int
      BY <2>1, <2>2, <1>b DEF Sum
    <3> QED BY <3>1, <3>2, <1>c, <1>t, SumRaised
  <2>4. CASE status \notin {"publishing", "published"}
    <3>1. events' = events /\ (status' = "gone" \/ Open)
      BY <1>21, <2>4, MoveSavesRow DEF Open
    <3>2. Claim' <= Claim
      BY <3>1, <1>b DEF Claim, Open
    <3> QED BY <2>1, <2>2, <3>1, <3>2, <1>b, <1>t, SumKept DEF Sum
  <2> QED BY <2>3, <2>4
<1>22. CASE UNCHANGED vars
  BY <1>22 DEF vars, OnePlace, Allowance, Owing, Claim, Open
<1>23. ASSUME NEW s \in Requests, ComposerSaves(s) PROVE OnePlace'
  <2>1. Done(s) /\ online' = online
    BY <1>23, ComposerSavesRow
  <2>2. Cardinality(Owing') <= Cardinality(Owing) /\ Cardinality(Owing') \in Int
    BY <2>1, <1>d, <1>o
  <2>3. CASE events' = Counted("outdated")
    <3>1. Sum' <= Sum + 1 /\ Sum' \in Int
      BY <2>1, <2>2, <1>b DEF Sum
    <3> QED BY <2>3, <3>1, <1>c, <1>t, SumRaised
  <2>4. CASE events' = events /\ (status' = status \/ Open)
    <3>1. Claim' <= Claim
      BY <2>4, <1>b DEF Claim, Open
    <3> QED BY <2>1, <2>2, <2>4, <3>1, <1>b, <1>t, SumKept DEF Sum
  <2> QED BY <1>23, <2>3, <2>4, ComposerSavesRow DEF Open
<1>24. CASE LeavesOut
  <2>1. /\ online' = online /\ Owing' = Owing /\ status' = "gone"
        /\ events' = events \/ \E e \in Events : events' = Counted(e)
    BY <1>24, <1>c, LeavesOutRow DEF Owing
  <2>2. Claim' = 0
    BY <2>1 DEF Claim, Open
  <2> QED BY <2>1, <2>2, <1>b, <1>t, SumKept DEF Sum
<1> QED BY <1>2, <1>3, <1>4, <1>5, <1>6, <1>7, <1>8, <1>9, <1>10, <1>11, <1>12, <1>13,
           <1>14, <1>15, <1>16, <1>17, <1>18, <1>19, <1>20, <1>21, <1>22, <1>23, <1>24 DEF Next

LEMMA OnePlaceInit == Init => OnePlace
<1> SUFFICES ASSUME Init PROVE OnePlace
  OBVIOUS
<1>1. Owing = {} /\ Claim = 0
  BY NoJobTyped DEF Init, Owing, Claim, Open
<1>2. Cardinality(online) = 1 /\ Cardinality(Owing) = 0
  BY <1>1, FS_Singleton, FS_EmptySet DEF Init
<1>3. Allowance = 1
  BY DEF Init, Events, Allowance
<1> QED BY <1>1, <1>2, <1>3 DEF OnePlace

\* The platform shows the post once, and once more at most for each deletion that
\* took 404 for success, each time a person took the row out of "publishing", each
\* late move over a row that was being or had been published, and each time a cycle
\* put the row back after its post.
THEOREM PostShownOnce == Spec => []ShownOnce
<1>1. TypeOK /\ OnePlace => ShownOnce
  <2> SUFFICES ASSUME TypeOK, OnePlace PROVE ShownOnce
    OBVIOUS
  <2>1. Claim \in Nat /\ Allowance \in Nat
    BY DEF Claim, Allowance, TypeOK, Events
  <2> QED BY <2>1, OnlineCount, OwingCount DEF OnePlace, ShownOnce, Allowance
<1> QED BY <1>1, TypeInit, TypeStep, OnePlaceInit, OnePlaceStep, PTL DEF Spec

-----------------------------------------------------------------------------
(* No stray post *)

\* What OnePlace says while nothing odd happened.
LEMMA CleanPlace ==
  ASSUME TypeOK, OnePlace, Clean
  PROVE  /\ \A s \in Requests : Owes(s) =>
              online = {} /\ ~Open /\ \A t \in Requests : Owes(t) => t = s
         /\ Open => online = {} /\ \A s \in Requests : ~Owes(s)
         /\ \A x, y \in online : x = y
<1>1. Cardinality(online) + Cardinality(Owing) + Claim <= 1
  BY DEF OnePlace, Allowance, Clean, Events
<1>2. /\ Cardinality(online) \in Nat /\ Cardinality(Owing) \in Nat
      /\ IsFiniteSet(online) /\ IsFiniteSet(Owing)
      /\ Claim = IF Open THEN 1 ELSE 0
  BY OnlineCount, OwingCount DEF Claim
<1>3. Cardinality(online) = 0 => online = {}
  BY <1>2, FS_EmptySet
<1>4. Cardinality(Owing) = 0 => Owing = {}
  BY <1>2, FS_EmptySet
<1>5. ASSUME NEW S, IsFiniteSet(S), NEW x \in S, NEW y \in S, x # y
      PROVE  Cardinality(S) \in Nat /\ Cardinality(S) >= 2
  <2>1. Cardinality({x}) = 1 /\ IsFiniteSet({x})
    BY FS_Singleton
  <2>2. Cardinality({x} \cup {y}) = 2
    BY <1>5, <2>1, FS_AddElement
  <2>3. ({x} \cup {y}) \in SUBSET S
    BY <1>5
  <2> QED BY <1>5, <2>2, <2>3, FS_Subset, FS_CardinalityType
<1>6. \A x, y \in online : x = y
  BY <1>1, <1>2, <1>5
<1>7. \A s, t \in Owing : s = t
  BY <1>1, <1>2, <1>5
<1>8. ASSUME NEW s \in Requests, Owes(s) PROVE online = {} /\ ~Open
  <2>1. Owing # {}
    BY <1>8 DEF Owing, Owes
  <2>2. Cardinality(Owing) >= 1
    BY <2>1, <1>2, <1>4
  <2> QED BY <2>2, <1>1, <1>2, <1>3
<1>9. ASSUME Open PROVE online = {} /\ Owing = {}
  BY <1>1, <1>2, <1>3, <1>4, <1>9
<1> QED BY <1>6, <1>7, <1>8, <1>9 DEF Owing, Owes

\* Events are only ever counted.
LEMMA EventsStep ==
  ASSUME TypeOK, [Next]_vars
  PROVE  events' = events \/ \E e \in Events : events' = Counted(e)
<1> USE DEF Events
<1>1. ASSUME NEW s \in Requests,
             \/ \E kind \in {"delete", "edit"} : Operation(s, kind)
             \/ Remove(s) \/ PostDeleted(s) \/ PostAlreadyGone(s)
             \/ DeletionRefused(s) \/ DeletionUnanswered(s)
      PROVE  events' = events \/ \E e \in Events : events' = Counted(e)
  BY <1>1 DEF Operation, Remove, Begin, PostDeleted, PostAlreadyGone, DeletionRefused,
       DeletionUnanswered
<1>2. ASSUME NEW s \in Requests,
             \/ RecordDeletion(s) \/ DropRecord(s) \/ MarkPublishing(s)
             \/ Publish(s) \/ RepublishRefused(s) \/ RepublishUnanswered(s)
             \/ RecordEdit(s) \/ Crash(s)
      PROVE  events' = events \/ \E e \in Events : events' = Counted(e)
  BY <1>2 DEF RecordDeletion, DropRecord, MarkPublishing, Publish, RepublishRefused,
       RepublishUnanswered, RecordEdit, Crash
<1>3. ASSUME NEW s \in Requests,
             \/ CycleClaims(s) \/ CycleRefused(s) \/ CycleUnanswered(s) \/ CycleSaves(s)
             \/ Logged(s) \/ LogFails(s) \/ MoveReads(s)
      PROVE  events' = events \/ \E e \in Events : events' = Counted(e)
  BY <1>3 DEF CycleClaims, CycleRefused, CycleUnanswered, CycleSaves, Logged, LogFails, MoveReads
<1>4. ASSUME NEW s \in Requests, MoveSaves(s)
      PROVE  events' = events \/ \E e \in Events : events' = Counted(e)
  BY <1>4, MoveSavesRow
<1>5. ASSUME \/ LeavesOut
             \/ \E s \in Requests : ComposerSaves(s)
      PROVE  events' = events \/ \E e \in Events : events' = Counted(e)
  BY <1>5, ComposerSavesRow, LeavesOutRow
<1> QED BY <1>1, <1>2, <1>3, <1>4, <1>5 DEF Next, vars

\* Nothing is shown and nothing is about to be recorded: the rest is what the
\* row and the processes that make a post again say of each other.
LEMMA OrderEmpty ==
  ASSUME online = {}, Recording = {},
         \A s \in Requests : job[s].at = "calling" => status = "publishing"
  PROVE  Order
BY DEF Order, Recording

LEMMA OrderStep ==
  ASSUME TypeOK, Known, OnePlace, Clean, Order, [Next]_vars, Clean'
  PROVE  Order'
<1>t. TypeOK'
  BY TypeStep
<1>q. \A e \in Events : events' # Counted(e)
  BY CountedTyped
<1>c. {"unanswered", "repeated", "goneAnswer", "retaken", "outdated", "kept", "overtaken"}
         \subseteq Events
  BY DEF Events
<1>n. None \notin online /\ None \notin Posts
  BY LivePostsAssumption DEF TypeOK
<1>r. ASSUME online = {} PROVE Recording = {}
  BY <1>r DEF Order
<1>o. ASSUME NEW s \in Requests, Owes(s)
      PROVE  online = {} /\ Recording = {} /\ \A t \in Requests : Owes(t) => t = s
  BY <1>o, <1>r, CleanPlace
<1>w. ASSUME Open PROVE online = {} /\ Recording = {} /\ \A s \in Requests : ~Owes(s)
  BY <1>w, <1>r, CleanPlace
\* Posts made so far are not the next one.
<1>m. ASSUME Makes
      PROVE  /\ NewPost \in Posts /\ NewPost # postId /\ online' = online \cup {NewPost}
             /\ \A s \in Requests : job[s].post # NewPost
  <2>1. NewPost = made + 1 /\ made \in Nat /\ NewPost \in Posts
    BY <1>m, MakesTyped DEF NewPost, TypeOK
  <2>2. \A s \in Requests : job[s].post # None => job[s].post <= made
    BY DEF Known
  <2> QED BY <1>m, <1>n, <2>1, <2>2 DEF Makes, Known
\* One request goes on; it was not about to record an edit, and is not after.
<1>s. ASSUME NEW s \in Requests, Alone(s), job[s].at # "recording",
             job'[s].at \notin {"calling", "recording"},
             job'[s].post \in {None, postId, job[s].post},
             job'[s].at = "dropping" => job'[s].post \notin online,
             UNCHANGED <<status, postId, online>>
      PROVE  Order'
  <2>1. Recording' = Recording
    BY <1>s DEF Recording, Alone
  <2>2. \A t \in Recording : t # s /\ job'[t] = job[t]
    BY <1>s DEF Recording, Alone
  <2>3. \A t \in Recording : job[t].post # postId /\ job[t].post # None
    BY <1>n DEF Order, Recording
  <2>4. \A t \in Recording :
          /\ job'[t].post \in online
          /\ \A u \in Requests : u # t => job'[u].post # job'[t].post
    BY <1>s, <2>2, <2>3 DEF Order, Alone
  <2>5. {job'[t].post : t \in Recording} = {job[t].post : t \in Recording}
    BY <2>2
  <2>6. \A t \in Requests :
          /\ job'[t].at = "dropping" => job'[t].post \notin online
          /\ job'[t].at \in {"calling", "recording"} => status = "publishing"
    BY <1>s DEF Order, Alone
  <2> QED BY <1>s, <2>1, <2>4, <2>5, <2>6 DEF Order
<1>1. ASSUME NEW s \in Requests, NEW kind \in {"delete", "edit"}, Operation(s, kind)
      PROVE  Order'
  <2>1. Begin(s, kind, "deleting")
    BY <1>1 DEF Operation
  <2> QED BY <2>1, <1>s, BeginJob DEF Kinds, Stages
<1>2. ASSUME NEW s \in Requests, Remove(s) PROVE Order'
  <2>1. CASE Live
    BY <1>2, <2>1, <1>s, BeginJob DEF Remove, Kinds, Stages
  <2>2. CASE ~Live
    <3>1. postId \notin online
      BY <2>2, <1>n DEF Live, Order
    <3> QED BY <1>2, <2>2, <3>1, <1>s, BeginJob DEF Remove, Kinds, Stages
  <2> QED BY <2>1, <2>2
<1>3. ASSUME NEW s \in Requests, PostDeleted(s) PROVE Order'
  <2>1. /\ Alone(s) /\ job[s].at = "deleting" /\ job'[s].at = "deleted"
        /\ job[s].post \in online /\ online' = online \ {job[s].post}
        /\ UNCHANGED <<status, postId>>
    BY <1>3, GoesJob DEF PostDeleted, Stages
  <2>2. online' = {}
    BY <2>1, CleanPlace
  <2>3. Recording = {}
    <3> SUFFICES ASSUME NEW t \in Recording PROVE FALSE
      OBVIOUS
    <3>1. job[t].post = job[s].post /\ t # s
      BY <2>1, CleanPlace DEF Order, Recording
    <3> QED BY <3>1 DEF Order
  <2>4. Recording' = {}
    BY <2>1, <2>3 DEF Recording, Alone
  <2>5. \A t \in Requests : job'[t].at = "calling" => status' = "publishing"
    BY <2>1 DEF Alone, Order
  <2> QED BY <2>2, <2>4, <2>5 DEF Order, Recording
<1>4. ASSUME NEW s \in Requests,
             \/ PostAlreadyGone(s) \/ DeletionUnanswered(s) \/ RepublishUnanswered(s)
             \/ CycleUnanswered(s) \/ LogFails(s) \/ Crash(s)
      PROVE  Order'
  BY <1>4, <1>q, <1>c DEF PostAlreadyGone, DeletionUnanswered, RepublishUnanswered,
       CycleUnanswered, LogFails, Crash
<1>5. ASSUME NEW s \in Requests, DeletionRefused(s) PROVE Order'
  <2>1. /\ job[s].at = "deleting" /\ AfterError(s) /\ UNCHANGED <<status, postId, online>>
        /\ job[s].kind = "remove" => job[s].post \notin online
    BY <1>5, <1>q, <1>c DEF DeletionRefused
  <2>2. /\ Alone(s) /\ job'[s].at \in {"off", "dropping"}
        /\ job'[s].post \in {None, job[s].post}
        /\ job'[s].at = "dropping" => job[s].kind = "remove"
    BY <2>1, AfterErrorJob
  <2> QED BY <2>1, <2>2, <1>n, <1>s
<1>6. ASSUME NEW s \in Requests, RecordDeletion(s) PROVE Order'
  <2>1. /\ Owes(s) /\ Alone(s) /\ online' = online /\ job[s].at = "deleted"
        /\ job'[s].at \in {"off", "dropping"}
    BY <1>6, GoesJob, DoneJob, NoJobTyped DEF RecordDeletion, Owes, Stages
  <2>2. Recording' = {} /\ online' = {}
    BY <2>1, <1>o DEF Recording, Alone
  <2>3. \A t \in Requests : job'[t].at # "calling"
    BY <2>1, <1>o DEF Alone, Owes
  <2> QED BY <2>2, <2>3 DEF Order, Recording
<1>7. ASSUME NEW s \in Requests, DropRecord(s) PROVE Order'
  <2>1. /\ job[s].at = "dropping" /\ Done(s) /\ online' = online
        /\ postId \in {None, job[s].post} /\ \A t \in Requests : ~Making(t)
    BY <1>7, <1>q, <1>c DEF DropRecord
  <2>2. \A t \in Requests : job[t].at \notin {"calling", "recording"}
    BY <2>1 DEF Making, Known
  <2>3. online = {}
    BY <2>1, <2>2, <1>n DEF Order, Recording
  <2>4. \A t \in Requests : job'[t].at \notin {"calling", "recording"}
    BY <2>1, <2>2, DoneJob, NoJobTyped DEF Alone
  <2> QED BY <2>1, <2>3, <2>4 DEF Order, Recording
<1>8. ASSUME NEW s \in Requests, MarkPublishing(s) PROVE Order'
  <2>1. /\ Owes(s) /\ online' = online /\ job[s].at = "deleted"
    BY <1>8 DEF MarkPublishing, Owes
  <2>2. \/ Alone(s) /\ job'[s].at = "off"
        \/ Alone(s) /\ job'[s].at = "calling" /\ status' = "publishing"
    BY <1>8, GoesJob, DoneJob, NoJobTyped DEF MarkPublishing, Stages
  <2>3. Recording' = {} /\ online' = {}
    BY <2>1, <2>2, <1>o DEF Recording, Alone
  <2>4. \A t \in Requests : job'[t].at = "calling" => status' = "publishing"
    BY <2>1, <2>2, <1>o DEF Alone, Owes
  <2> QED BY <2>3, <2>4 DEF Order, Recording
<1>9. ASSUME NEW s \in Requests, Publish(s) PROVE Order'
  <2>1. /\ Owes(s) /\ Alone(s) /\ job[s].at = "calling"
        /\ job'[s].at = "recording" /\ job'[s].post = NewPost
        /\ Makes /\ UNCHANGED <<status, postId>>
    BY <1>9, PublishJob DEF Owes
  <2>2. online' = {NewPost}
    BY <2>1, <1>o, <1>m
  <2>3. Recording' = {s}
    BY <2>1, <1>o DEF Recording, Alone
  <2>4. {job'[t].post : t \in Recording'} = {NewPost}
    BY <2>1, <2>3
  <2>5. status' = "publishing" /\ postId' # NewPost
    BY <2>1, <1>m DEF Order
  <2>6. \A t \in Requests : t # s => job'[t].post # NewPost
    BY <2>1, <1>m DEF Alone
  <2> QED BY <2>1, <2>2, <2>3, <2>4, <2>5, <2>6 DEF Order
<1>10. ASSUME NEW s \in Requests, RepublishRefused(s) PROVE Order'
  <2>1. /\ Owes(s) /\ Alone(s) /\ job[s].at = "calling" /\ job'[s].at = "off"
        /\ job'[s].post = None /\ UNCHANGED <<status, postId, online>>
    BY <1>10, DoneJob, NoJobTyped DEF RepublishRefused, Owes
  <2> QED BY <2>1, <1>s
\* An edit and a cycle record what they made alike.
<1>11. ASSUME NEW s \in Requests, RecordEdit(s) \/ CycleSaves(s) PROVE Order'
  <2>1. s \in Recording /\ status = "publishing" /\ job[s].post \in online
    BY <1>11 DEF RecordEdit, CycleSaves, Recording, Order
  <2>2. status' = "published" /\ postId' = job[s].post /\ online' = online
    BY <1>11, <2>1 DEF RecordEdit, CycleSaves, SavesInstance
  <2>3. Alone(s) /\ job'[s].at \in {"off", "logging"}
    BY <1>11, DoneJob, GoesJob, NoJobTyped DEF RecordEdit, CycleSaves, Stages
  <2>4. online = {job[s].post}
    BY <2>1, CleanPlace
  <2>5. \A t \in Requests : t # s => job[t].at \notin {"calling", "recording"}
    <3>1. \A t \in Requests : job[t].at # "calling"
      BY <2>4, <1>o DEF Owes
    <3>2. ASSUME NEW t \in Recording, t # s PROVE FALSE
      BY <2>1, <2>4, <3>2 DEF Order, Recording
    <3> QED BY <3>1, <3>2 DEF Recording
  <2>6. \A t \in Requests : job'[t].at \notin {"calling", "recording"}
    BY <2>3, <2>5 DEF Alone
  <2>7. \A t \in Requests : job'[t].at = "dropping" => job'[t].post \notin online
    BY <2>3 DEF Alone, Order
  <2> QED BY <2>2, <2>4, <2>6, <2>7 DEF Order, Recording
\* A row that is neither live nor about to be can be saved with any status and id.
<1>i. ASSUME NEW s \in Requests, Done(s), online' = online,
             status \notin {"publishing", "published"}
      PROVE  Order'
  <2>1. Alone(s) /\ job'[s].at = "off" /\ job'[s].post = None
    BY <1>i, DoneJob, NoJobTyped
  <2>2. \A t \in Requests : job[t].at \notin {"calling", "recording"}
    BY <1>i DEF Order
  <2>3. \A t \in Requests : job'[t].at \notin {"calling", "recording"}
    BY <2>1, <2>2 DEF Alone
  <2>4. Recording = {} /\ Recording' = {}
    BY <2>2, <2>3 DEF Recording
  <2>5. postId \notin online /\ online \subseteq {postId}
    BY <1>i, <2>4 DEF Order
  <2> QED BY <1>i, <2>3, <2>4, <2>5, OrderEmpty DEF Order
<1>12. ASSUME NEW s \in Requests, MoveSaves(s) PROVE Order'
  BY <1>12, <1>i, <1>q, <1>c, MoveSavesRow
<1>13. ASSUME NEW s \in Requests, CycleClaims(s) PROVE Order'
  <2>1. /\ Open /\ online' = online /\ status' = "publishing" /\ Alone(s)
        /\ job'[s].at = "calling"
    BY <1>13, CycleClaimsJob DEF Open
  <2>2. online = {} /\ Recording' = {}
    BY <2>1, <1>w DEF Recording, Alone
  <2>3. \A t \in Requests : job'[t].at = "calling" => status' = "publishing"
    BY <2>1
  <2> QED BY <2>1, <2>2, <2>3 DEF Order, Recording
<1>14. ASSUME NEW s \in Requests, CycleRefused(s) PROVE Order'
  <2>1. /\ Owes(s) /\ Alone(s) /\ job'[s].at = "off" /\ online' = online
    BY <1>14, PutBackJob, DoneJob, NoJobTyped DEF CycleRefused, Owes
  <2>2. Recording' = {} /\ online' = {}
    BY <2>1, <1>o DEF Recording, Alone
  <2>3. \A t \in Requests : job'[t].at # "calling"
    BY <2>1, <1>o DEF Alone, Owes
  <2> QED BY <2>2, <2>3 DEF Order, Recording
<1>15. ASSUME NEW s \in Requests, Logged(s) \/ MoveReads(s) PROVE Order'
  <2>1. /\ Alone(s) /\ job[s].at \in {"off", "logging"} /\ job'[s].at \in {"off", "moving"}
        /\ job'[s].post \in {None, postId} /\ UNCHANGED <<status, postId, online>>
    BY <1>15, DoneJob, NoJobTyped, MoveReadsJob DEF Logged
  <2> QED BY <2>1, <1>s
<1>16. CASE UNCHANGED vars
  BY <1>16 DEF vars, Order, Recording
<1>17. ASSUME NEW s \in Requests, ComposerSaves(s) PROVE Order'
  <2>1. CASE UNCHANGED <<status, postId>>
    <3>1. Done(s) /\ job[s].at = "moving" /\ online' = online
      BY <1>17, ComposerSavesRow DEF ComposerSaves
    <3> QED BY <2>1, <3>1, <1>s, DoneJob, NoJobTyped
  <2>2. CASE status \notin {"publishing", "published"}
    BY <1>17, <2>2, <1>i, ComposerSavesRow
  <2> QED BY <1>17, <2>1, <2>2, <1>q, <1>c, ComposerSavesRow
<1>18. CASE LeavesOut
  <2>1. /\ postId \notin online /\ status' = "gone" /\ UNCHANGED <<online, job>>
        /\ \A s \in Requests : ~Making(s)
    BY <1>18, <1>q, <1>c, LeavesOutRow
  <2>2. \A s \in Requests : job[s].at \notin {"calling", "recording"}
    BY <2>1 DEF Making, Known
  <2>3. Recording = {} /\ online = {}
    BY <2>1, <2>2 DEF Recording, Order
  <2>4. online' = {} /\ Recording' = {} /\ \A s \in Requests : job'[s].at # "calling"
    BY <2>1, <2>2, <2>3 DEF Recording
  <2> QED BY <2>4 DEF Order, Recording
<1> QED BY <1>1, <1>2, <1>3, <1>4, <1>5, <1>6, <1>7, <1>8, <1>9, <1>10, <1>11, <1>12,
           <1>13, <1>14, <1>15, <1>16, <1>17, <1>18 DEF Next

LEMMA TidyStep == TypeOK /\ Known /\ OnePlace /\ Tidy /\ [Next]_vars => Tidy'
<1> SUFFICES ASSUME TypeOK, Known, OnePlace, Tidy, [Next]_vars, Clean' PROVE Order'
  BY DEF Tidy
<1>1. Clean
  BY EventsStep, CountedTyped DEF Clean
<1> QED BY <1>1, OrderStep DEF Tidy

LEMMA TidyInit == Init => Tidy
BY NoJobTyped DEF Init, Tidy, Order, Recording

\* What the platform shows is what the row says or what an edit or a cycle is about
\* to record, unless one of the named events happened: a lost answer or log, a post
\* kept or found gone, a row retaken or saved late, a record deleted under a post.
THEOREM StrayPostFree == Spec => []NoStrayPost
<1>1. Known /\ Tidy => NoStrayPost
  BY DEF Known, Tidy, Clean, Order, Recording, NoStrayPost, Making
<1> QED BY <1>1, TypeInit, TypeStep, KnownInit, KnownStep, OnePlaceInit, OnePlaceStep,
           TidyInit, TidyStep, PTL DEF Spec
===============================================================================
