------------------------------ MODULE LivePosts ------------------------------
(***************************************************************************)
(* Deleting and editing a post that is live, and deleting its record.      *)
(*   src/apps/publisher/operations.py   delete_published_post,             *)
(*                                      edit_published_post                *)
(*   src/apps/composer/views.py         platform_post_operation,           *)
(*                                      post_delete, save_post, the menu   *)
(*   src/apps/calendar/views.py         reschedule_post                    *)
(*   src/apps/composer/console_publish.py   publish_content_item           *)
(*   src/apps/publisher/engine.py       a publish cycle                    *)
(*   src/providers/linkedin.py, ghost.py   delete_post                     *)
(* One PlatformPost and what its platform shows.  An edit is a deletion    *)
(* followed by a new post; the row is saved after each call.  A process    *)
(* works on the instance it read; a cycle locks the row to claim it, and   *)
(* nothing else takes a lock.  Posts parked at Blotato and the gate are    *)
(* left to PublishEngine.                                                  *)
(***************************************************************************)
EXTENDS Integers, FiniteSets, PostStatus

CONSTANTS
    Requests,   \* web processes and workers
    GoneIsOk,   \* the provider takes 404 to a deletion for success (Ghost) or not (LinkedIn)
    MaxPosts,   \* bound: posts made on the platform
    MaxBegun,   \* bound: operations
    MaxMoves,   \* bound: moves and saves by people who edit or schedule the row
    MaxFaults,  \* bound: unanswered calls and processes that die
    None

Posts == 1..MaxPosts

ASSUME LivePostsAssumption ==
    /\ IsFiniteSet(Requests)
    /\ GoneIsOk \in BOOLEAN
    /\ MaxPosts \in Nat \ {0} /\ MaxBegun \in Nat /\ MaxMoves \in Nat /\ MaxFaults \in Nat
    /\ None \notin Posts

VARIABLES
    status,   \* PlatformPost.status, "gone" once the record is deleted
    postId,   \* PlatformPost.platform_post_id
    online,   \* the posts the platform shows
    made,     \* posts made so far
    job,      \* what each process is doing
    begun,    \* operations so far
    moves,    \* moves begun so far
    events    \* history: how often each thing happened that can leave a stray post

vars == <<status, postId, online, made, job, begun, moves, events>>

-----------------------------------------------------------------------------
(* Types *)

Kinds == {"delete", "edit", "remove", "move", "cycle"}
Stages == {"off", "deleting", "deleted", "calling", "recording", "logging", "dropping", "moving"}

\* "post" is the id the process holds: the one it read, then the one it made;
\* "seen" is the status a move or a composer save read.
Job == [at : Stages, kind : Kinds, post : Posts \cup {None}, seen : Statuses]
NoJob == [at |-> "off", kind |-> "delete", post |-> None, seen |-> "draft"]

Events == {
    "unanswered",  \* an operation's call took effect and no answer came, or a process died
    "repeated",    \* a cycle put the row back after making its post: the answer or the log failed
    "goneAnswer",  \* a deletion found the post gone and went on
    "retaken",     \* a person who saw the row in "publishing" or "published" moved it
    "outdated",    \* an instance read before the row came to "publishing" or "published",
                   \* or before it was deleted, was saved
    "kept",        \* the record is deleted although the platform kept the post
    "overtaken"}   \* the record is deleted while the post is being made again

TypeOK ==
    /\ status \in Statuses \cup {"gone"}
    /\ postId \in Posts \cup {None}
    /\ online \subseteq Posts
    /\ made \in 0..MaxPosts
    /\ job \in [Requests -> Job]
    /\ begun \in Nat /\ moves \in Nat
    /\ events \in [Events -> Nat]

-----------------------------------------------------------------------------
(* Helpers.  A definition named Slip... is the one after it with a plausible  *)
(* mistake; no specification uses it, it shows that a property can fail.      *)

Done(s) == job' = [job EXCEPT ![s] = NoJob]
Goes(s, stage) == job' = [job EXCEPT ![s].at = stage]

Counted(e) == [events EXCEPT ![e] = @ + 1]
Faults == events["unanswered"] + events["repeated"]

Live == status = "published" /\ postId # None

\* Who is making a post: an edit from the deletion on, a cycle from its claim.
Making(s) == job[s].kind \in {"edit", "cycle"} /\ job[s].at \in {"deleted", "calling", "recording"}

\* save() of a whole instance: a row that is gone is inserted again, unless its
\* Post went with it and the save raises.
SavesInstance(to, id) ==
    \/ status' = to /\ postId' = id
    \/ status = "gone" /\ UNCHANGED <<status, postId>>

-----------------------------------------------------------------------------
(* The requests *)

Begin(s, kind, stage) ==
    /\ job[s].at = "off"
    /\ begun < MaxBegun /\ begun' = begun + 1
    /\ job' = [job EXCEPT ![s] = [NoJob EXCEPT !.at = stage, !.kind = kind, !.post = postId]]
    /\ UNCHANGED <<status, postId, online, made, moves, events>>

\* platform_post_operation.
Operation(s, kind) == Live /\ Begin(s, kind, "deleting")

\* post_delete: the platform is asked only for a live post.
Remove(s) ==
    /\ status # "gone"
    /\ Begin(s, "remove", IF Live THEN "deleting" ELSE "dropping")

-----------------------------------------------------------------------------
(* delete_post *)

PostDeleted(s) ==
    /\ job[s].at = "deleting"
    /\ job[s].post \in online
    /\ online' = online \ {job[s].post}
    /\ Goes(s, "deleted")
    /\ UNCHANGED <<status, postId, made, begun, moves, events>>

PostAlreadyGone(s) ==
    /\ job[s].at = "deleting"
    /\ job[s].post \notin online /\ GoneIsOk
    /\ events' = Counted("goneAnswer")
    /\ Goes(s, "deleted")
    /\ UNCHANGED <<status, postId, online, made, begun, moves>>

\* An error ends the operation; post_delete goes on.
AfterError(s) == IF job[s].kind = "remove" THEN Goes(s, "dropping") ELSE Done(s)

SlipDeletionRefused(s) ==
    /\ job[s].at = "deleting"
    /\ Goes(s, "deleted")
    /\ UNCHANGED <<status, postId, online, made, begun, moves, events>>

DeletionRefused(s) ==
    /\ job[s].at = "deleting"
    /\ events' = IF job[s].kind = "remove" /\ job[s].post \in online
                 THEN Counted("kept") ELSE events
    /\ AfterError(s)
    /\ UNCHANGED <<status, postId, online, made, begun, moves>>

\* The post is deleted and the answer is lost.
DeletionUnanswered(s) ==
    /\ job[s].at = "deleting"
    /\ job[s].post \in online
    /\ Faults < MaxFaults
    /\ events' = Counted("unanswered")
    /\ online' = online \ {job[s].post}
    /\ AfterError(s)
    /\ UNCHANGED <<status, postId, made, begun, moves>>

-----------------------------------------------------------------------------
(* After the deletion.  A save with update_fields raises if the row is gone.  *)

\* delete_published_post saves the row.
RecordDeletion(s) ==
    /\ job[s].at = "deleted" /\ job[s].kind # "edit"
    /\ status' = IF status = "gone" THEN "gone" ELSE "draft"
    /\ postId' = None
    /\ IF job[s].kind = "remove" THEN Goes(s, "dropping") ELSE Done(s)
    /\ UNCHANGED <<online, made, begun, moves, events>>

\* pp.delete() and post.delete().
DropRecord(s) ==
    /\ job[s].at = "dropping"
    /\ status' = "gone" /\ postId' = None
    /\ events' = IF \/ \E e \in Requests : Making(e)
                    \/ postId \notin {None, job[s].post}
                 THEN Counted("overtaken") ELSE events
    /\ Done(s)
    /\ UNCHANGED <<online, made, begun, moves>>

\* edit_published_post saves the caption and "publishing".
MarkPublishing(s) ==
    /\ job[s].at = "deleted" /\ job[s].kind = "edit"
    /\ IF status = "gone"
       THEN Done(s) /\ UNCHANGED <<status, postId>>
       ELSE status' = "publishing" /\ postId' = None /\ Goes(s, "calling")
    /\ UNCHANGED <<online, made, begun, moves, events>>

NewPost == made + 1
Makes == made < MaxPosts /\ made' = NewPost /\ online' = online \cup {NewPost}

\* publish_post of an edit, or of a cycle (_dispatch_to_provider).
Publish(s) ==
    /\ job[s].at = "calling"
    /\ Makes
    /\ job' = [job EXCEPT ![s] = [@ EXCEPT !.at = "recording", !.post = NewPost]]
    /\ UNCHANGED <<status, postId, begun, moves, events>>

\* publish_post raises: the row keeps what MarkPublishing saved.
RepublishRefused(s) ==
    /\ job[s].at = "calling" /\ job[s].kind = "edit"
    /\ Done(s)
    /\ UNCHANGED <<status, postId, online, made, begun, moves, events>>

RepublishUnanswered(s) ==
    /\ job[s].at = "calling" /\ job[s].kind = "edit"
    /\ Faults < MaxFaults
    /\ Makes
    /\ events' = Counted("unanswered")
    /\ Done(s)
    /\ UNCHANGED <<status, postId, begun, moves>>

SlipRecordEdit(s) ==
    /\ job[s].at = "recording" /\ job[s].kind = "edit"
    /\ status' = IF status = "gone" THEN "gone" ELSE "published"
    /\ Done(s)
    /\ UNCHANGED <<postId, online, made, begun, moves, events>>

RecordEdit(s) ==
    /\ job[s].at = "recording" /\ job[s].kind = "edit"
    /\ IF status = "gone"
       THEN UNCHANGED <<status, postId>>
       ELSE status' = "published" /\ postId' = job[s].post
    /\ Done(s)
    /\ UNCHANGED <<online, made, begun, moves, events>>

-----------------------------------------------------------------------------
(* A publish cycle *)

\* _publish_post_group: the locked row is read and taken to "publishing".
CycleClaims(s) ==
    /\ job[s].at = "off" /\ status = "scheduled"
    /\ status' = "publishing"
    /\ job' = [job EXCEPT ![s] = [NoJob EXCEPT !.at = "calling", !.kind = "cycle", !.post = postId]]
    /\ UNCHANGED <<postId, online, made, begun, moves, events>>

\* _schedule_retry: the row is put back, or failed after the last retry.
PutBack(s) ==
    /\ \E to \in {"scheduled", "failed"} : SavesInstance(to, job[s].post)
    /\ Done(s)

CycleRefused(s) ==
    /\ job[s].at = "calling" /\ job[s].kind = "cycle"
    /\ PutBack(s)
    /\ UNCHANGED <<online, made, begun, moves, events>>

\* The post is made and the answer is lost: the cycle takes it for a failure.
CycleUnanswered(s) ==
    /\ job[s].at = "calling" /\ job[s].kind = "cycle"
    /\ Faults < MaxFaults
    /\ Makes
    /\ events' = Counted("repeated")
    /\ PutBack(s)
    /\ UNCHANGED <<begun, moves>>

CycleSaves(s) ==
    /\ job[s].at = "recording" /\ job[s].kind = "cycle"
    /\ SavesInstance("published", job[s].post)
    /\ Goes(s, "logging")
    /\ UNCHANGED <<online, made, begun, moves, events>>

Logged(s) ==
    /\ job[s].at = "logging"
    /\ Done(s)
    /\ UNCHANGED <<status, postId, online, made, begun, moves, events>>

\* PublishLog.objects.create raises after the save and is taken for a failure too.
LogFails(s) ==
    /\ job[s].at = "logging"
    /\ Faults < MaxFaults
    /\ events' = Counted("repeated")
    /\ PutBack(s)
    /\ UNCHANGED <<online, made, begun, moves>>

-----------------------------------------------------------------------------
(* People who edit and schedule: the account menu (transition_platform_post), *)
(* the calendar (reschedule_post), publish_content_item, the API's schedule   *)
(* and cancel, and the composer, whose save writes the whole row              *)

Moved == {"draft", "scheduled", "publishing", "published", "failed"}

\* The menu and the API go by the machine; the calendar saves "scheduled" as it
\* read it, and publish_content_item asks for no status.
Targets(seen) == {to \in Moved : CanTransition(seen, to)} \cup {"scheduled"}

MoveReads(s) ==
    /\ job[s].at = "off"
    /\ moves < MaxMoves /\ moves' = moves + 1
    /\ status \in Statuses
    /\ job' = [job EXCEPT ![s] = [NoJob EXCEPT !.at = "moving", !.kind = "move",
                                             !.post = postId, !.seen = status]]
    /\ UNCHANGED <<status, postId, online, made, begun, events>>

\* The status is saved whatever the row has become, unless it is gone.
MoveSaves(s) ==
    /\ job[s].at = "moving"
    /\ IF status = "gone"
       THEN UNCHANGED <<status, events>>
       ELSE /\ status' \in Targets(job[s].seen)
            /\ events' = IF status \notin {"publishing", "published"} THEN events
                         ELSE Counted(IF job[s].seen = status THEN "retaken" ELSE "outdated")
    /\ Done(s)
    /\ UNCHANGED <<postId, online, made, begun, moves>>

\* _sync_platform_posts saves the row as it was read.
ComposerSaves(s) ==
    /\ job[s].at = "moving"
    /\ SavesInstance(job[s].seen, job[s].post)
    /\ events' = IF /\ status \in {"publishing", "published", "gone"}
                    /\ status' # status \/ postId' # postId
                 THEN Counted("outdated") ELSE events
    /\ Done(s)
    /\ UNCHANGED <<online, made, begun, moves>>

\* It, and autosave, deletes the row of an account left out, and asks no platform.
LeavesOut ==
    /\ moves < MaxMoves /\ moves' = moves + 1
    /\ status # "gone"
    /\ status' = "gone" /\ postId' = None
    /\ events' = IF postId \in online THEN Counted("kept")
                 ELSE IF \E e \in Requests : Making(e) THEN Counted("overtaken") ELSE events
    /\ UNCHANGED <<online, made, job, begun>>

-----------------------------------------------------------------------------
(* Processes that die *)

Crash(s) ==
    /\ job[s].at # "off"
    /\ Faults < MaxFaults
    /\ events' = Counted("unanswered")
    /\ Done(s)
    /\ UNCHANGED <<status, postId, online, made, begun, moves>>

-----------------------------------------------------------------------------

Next ==
    \/ \E s \in Requests :
        \/ \E kind \in {"delete", "edit"} : Operation(s, kind)
        \/ Remove(s)
        \/ PostDeleted(s) \/ PostAlreadyGone(s)
        \/ DeletionRefused(s) \/ DeletionUnanswered(s)
        \/ RecordDeletion(s) \/ DropRecord(s) \/ MarkPublishing(s)
        \/ Publish(s) \/ RepublishRefused(s) \/ RepublishUnanswered(s) \/ RecordEdit(s)
        \/ CycleClaims(s) \/ CycleRefused(s) \/ CycleUnanswered(s) \/ CycleSaves(s)
        \/ Logged(s) \/ LogFails(s)
        \/ MoveReads(s) \/ MoveSaves(s) \/ ComposerSaves(s)
        \/ Crash(s)
    \/ LeavesOut

Init ==
    /\ status = "published" /\ postId = 1 /\ online = {1} /\ made = 1
    /\ job = [s \in Requests |-> NoJob]
    /\ begun = 0 /\ moves = 0
    /\ events = [e \in Events |-> 0]

Spec == Init /\ [][Next]_vars

-----------------------------------------------------------------------------
(* Properties *)

\* The platform shows the post once, however operations, cycles, moves and composer
\* saves overlap; once more at most for each deletion that took 404 for success, each
\* time a person took the row out of "publishing" or "published", each instance saved
\* late over a row that was being or had been published or was deleted, and each time
\* a cycle put the row back after its post.
ShownOnce ==
    Cardinality(online)
        <= 1 + events["goneAnswer"] + events["retaken"] + events["outdated"] + events["repeated"]

\* What the platform shows is what the row says, or what an edit or a cycle is about
\* to record, unless one of the named events happened.
NoStrayPost ==
    (\A e \in Events : events[e] = 0) =>
        online \subseteq {postId} \cup {job[s].post : s \in {t \in Requests : Making(t)}}
=============================================================================
