-------------------------------- MODULE Intake --------------------------------
(***************************************************************************)
(* A row of the planning sheet, the intake item it becomes, its gating     *)
(* condition, its HERALD draft and its post.                               *)
(*   src/apps/content_intake/sheets_sync.py, tasks.py   the sync           *)
(*   src/apps/content_intake/herald_bridge.py           the draft          *)
(*   src/apps/content_intake/draft_post.py, intake_calendar.py   the post  *)
(*   src/apps/content_intake/views.py                   the board          *)
(* Every statement commits by itself.  A sync works on the rows it fetched *)
(* and a request on the instance it read; the saves name their columns.    *)
(***************************************************************************)
EXTENDS Integers, FiniteSets

CONSTANTS
    Syncs,      \* workers that run sync_intake_sheet
    Users,      \* processes that serve the board or run the draft task
    Rows,       \* what the sheet's row may say: [status, hold, gated]
    MaxEdits,   \* bound: edits of the sheet
    MaxBegun,   \* bound: requests (syncs and draft tasks are not bounded)
    MaxFaults,  \* bound: exceptions, lost answers and processes that die
    None

SheetStatuses == {"accepted", "held", "review_queue"}

ASSUME IntakeAssumption ==
    /\ IsFiniteSet(Users)
    /\ Rows \subseteq [status : SheetStatuses, hold : BOOLEAN, gated : BOOLEAN]
    /\ None \notin Rows
    /\ MaxEdits \in Nat /\ MaxBegun \in Nat /\ MaxFaults \in Nat

VARIABLES
    sheet,    \* the row of the sheet
    edits,    \* edits so far
    item,     \* the ContentIntake row
    cond,     \* its UnblockCondition
    queued,   \* a draft task waits in the broker
    sync,     \* what each sync worker is doing
    work,     \* what each other process is doing
    begun,    \* requests so far
    asked,    \* drafts HERALD made
    posts,    \* Posts made for the item
    faults    \* faults so far

vars == <<sheet, edits, item, cond, queued, sync, work, begun, asked, posts, faults>>

-----------------------------------------------------------------------------
(* Types *)

\* row_hash stands for the row it was computed from; post 0 is no post.
Item == [hash : Rows \cup {None},
         status : SheetStatuses \cup {"drafting", "approved", "scheduled"},
         hold : BOOLEAN, drafted : BOOLEAN, post : Nat]

SyncStages == {"off", "comparing", "writing", "adding", "finishing"}
Stages == {"off", "asking", "keeping", "posting", "linking", "moving"}
Kinds == {"task", "now", "calendar", "todo", "in_progress", "done"}

NoSync == [at |-> "off", row |-> None]

\* "post" is the post of the instance it read, then the one it made.
Work == [at : Stages, kind : Kinds, post : Nat]
NoItem == [hash |-> None, status |-> "held", hold |-> TRUE, drafted |-> FALSE, post |-> 0]
NoWork == [at |-> "off", kind |-> "task", post |-> 0]

TypeOK ==
    /\ sheet \in Rows /\ edits \in Nat
    /\ item \in Item
    /\ cond \in {"none", "open", "closed"}
    /\ queued \in BOOLEAN
    /\ sync \in [Syncs -> [at : SyncStages, row : Rows \cup {None}]]
    /\ work \in [Users -> Work]
    /\ begun \in Nat /\ asked \in Nat /\ posts \in Nat /\ faults \in Nat

-----------------------------------------------------------------------------
(* Helpers.  A definition named Slip... is the one after it with a plausible  *)
(* mistake; no specification uses it, it shows that a property can fail.      *)

Exists == item.hash # None
Gated == Exists /\ item.hash.gated

\* map_status and normalize_sensitivity: what is not understood is put on hold.
OnHold(row) == row.hold \/ row.status = "review_queue"

Schedulable == Exists /\ ~item.hold /\ cond # "open"

SlipEligible == Schedulable /\ item.status = "accepted"

\* _is_eligible, and the query of the draft task.
Eligible == Schedulable /\ item.status = "accepted" /\ ~item.drafted

IsDone(i) == i.status = "scheduled"

SyncGoes(w, stage) == sync' = [sync EXCEPT ![w].at = stage]
Goes(u, stage) == work' = [work EXCEPT ![u].at = stage]
Ends(u) == work' = [work EXCEPT ![u] = NoWork]
Faulty == faults < MaxFaults /\ faults' = faults + 1

-----------------------------------------------------------------------------
(* sync_intake_sheet *)

SyncFetch(w) ==
    /\ sync[w].at = "off"
    /\ sync' = [sync EXCEPT ![w] = [at |-> "comparing", row |-> sheet]]
    /\ UNCHANGED <<sheet, edits, item, cond, queued, work, begun, asked, posts, faults>>

SlipSyncCompare(w) ==
    /\ sync[w].at = "comparing"
    /\ SyncGoes(w, IF Exists THEN "finishing" ELSE "writing")
    /\ UNCHANGED <<sheet, edits, item, cond, queued, work, begun, asked, posts, faults>>

SyncCompare(w) ==
    /\ sync[w].at = "comparing"
    /\ SyncGoes(w, IF item.hash = sync[w].row THEN "finishing" ELSE "writing")
    /\ UNCHANGED <<sheet, edits, item, cond, queued, work, begun, asked, posts, faults>>

SlipSyncUpsert(w) ==
    /\ sync[w].at = "writing"
    /\ item' = [item EXCEPT !.hash = sync[w].row, !.status = sync[w].row.status,
                            !.hold = OnHold(sync[w].row)]
    /\ SyncGoes(w, IF Exists THEN "finishing" ELSE "adding")
    /\ UNCHANGED <<sheet, edits, cond, queued, work, begun, asked, posts, faults>>

SyncUpsert(w) ==
    /\ sync[w].at = "writing"
    /\ item' = [item EXCEPT !.hash = sync[w].row, !.status = sync[w].row.status,
                            !.hold = OnHold(sync[w].row)]
    /\ SyncGoes(w, "adding")
    /\ UNCHANGED <<sheet, edits, cond, queued, work, begun, asked, posts, faults>>

\* A condition that exists, open or closed, stays as it is.
SyncAddConditions(w) ==
    /\ sync[w].at = "adding"
    /\ cond' = IF sync[w].row.gated /\ cond = "none" THEN "open" ELSE cond
    /\ SyncGoes(w, "finishing")
    /\ UNCHANGED <<sheet, edits, item, queued, work, begun, asked, posts, faults>>

\* An exception in a row is logged and the sync goes on.
SyncRowFails(w) ==
    /\ sync[w].at \in {"writing", "adding"}
    /\ Faulty
    /\ SyncGoes(w, "finishing")
    /\ UNCHANGED <<sheet, edits, item, cond, queued, work, begun, asked, posts>>

SyncFinish(w) ==
    /\ sync[w].at = "finishing"
    /\ queued' = TRUE
    /\ sync' = [sync EXCEPT ![w] = NoSync]
    /\ UNCHANGED <<sheet, edits, item, cond, work, begun, asked, posts, faults>>

SyncDies(w) ==
    /\ sync[w].at # "off"
    /\ Faulty
    /\ sync' = [sync EXCEPT ![w] = NoSync]
    /\ UNCHANGED <<sheet, edits, item, cond, queued, work, begun, asked, posts>>

-----------------------------------------------------------------------------
(* Requests and the draft task: reading *)

Reads(u, kind, stage) ==
    /\ work[u].at = "off"
    /\ work' = [work EXCEPT ![u] = [at |-> stage, kind |-> kind, post |-> item.post]]
    /\ UNCHANGED <<sheet, edits, item, cond, sync, asked, posts, faults>>

\* request_herald_drafts_for_workspace.
DraftTask(u) ==
    /\ queued /\ queued' = FALSE
    /\ IF Eligible THEN Reads(u, "task", "asking")
       ELSE UNCHANGED <<sheet, edits, item, cond, sync, work, asked, posts, faults>>
    /\ UNCHANGED begun

Request(u, kind, stage) ==
    /\ begun < MaxBegun /\ begun' = begun + 1
    /\ Reads(u, kind, stage)
    /\ UNCHANGED queued

DraftNow(u) == Eligible /\ Request(u, "now", "asking")

\* schedule_intake_item.
AddToCalendar(u) == Schedulable /\ Request(u, "calendar", "posting")

\* move_stage: an item on the calendar stays there.
Move(u, stage) ==
    /\ Exists /\ ~IsDone(item)
    /\ stage = "done" => Schedulable
    /\ Request(u, stage, "moving")

CloseCondition ==
    /\ cond = "open" /\ cond' = "closed"
    /\ UNCHANGED <<sheet, edits, item, queued, sync, work, begun, asked, posts, faults>>

-----------------------------------------------------------------------------
(* Requests and the draft task: calling and saving *)

HeraldAnswers(u) ==
    /\ work[u].at = "asking"
    /\ asked' = asked + 1
    /\ Goes(u, "keeping")
    /\ UNCHANGED <<sheet, edits, item, cond, queued, sync, begun, posts, faults>>

HeraldFails(u) ==
    /\ work[u].at = "asking"
    /\ Ends(u)
    /\ UNCHANGED <<sheet, edits, item, cond, queued, sync, begun, asked, posts, faults>>

HeraldUnanswered(u) ==
    /\ work[u].at = "asking"
    /\ Faulty
    /\ asked' = asked + 1
    /\ Ends(u)
    /\ UNCHANGED <<sheet, edits, item, cond, queued, sync, begun, posts>>

\* draft_now goes on to ensure_draft_post with the instance it has.
KeepDraft(u) ==
    /\ work[u].at = "keeping"
    /\ item' = [item EXCEPT !.status = "drafting", !.drafted = TRUE]
    /\ IF work[u].kind = "now" THEN Goes(u, "posting") ELSE Ends(u)
    /\ UNCHANGED <<sheet, edits, cond, queued, sync, begun, asked, posts, faults>>

\* ensure_draft_post, create_post_from_content, schedule_intake_item: an instance
\* with a post makes no other.
EnsurePost(u) ==
    /\ work[u].at = "posting"
    /\ IF work[u].post # 0
       THEN posts' = posts /\ Goes(u, "linking")
       ELSE /\ posts' = posts + 1
            /\ work' = [work EXCEPT ![u] = [at |-> "linking", kind |-> @.kind, post |-> posts + 1]]
    /\ UNCHANGED <<sheet, edits, item, cond, queued, sync, begun, asked, faults>>

LinkPost(u) ==
    /\ work[u].at = "linking"
    /\ item' = [item EXCEPT !.post = work[u].post,
                            !.status = IF work[u].kind = "calendar" THEN "scheduled" ELSE @]
    /\ Ends(u)
    /\ UNCHANGED <<sheet, edits, cond, queued, sync, begun, asked, posts, faults>>

LaneStatus == [todo |-> "accepted", in_progress |-> "drafting", done |-> "approved"]

MoveSaves(u) ==
    /\ work[u].at = "moving"
    /\ item' = [item EXCEPT !.status = LaneStatus[work[u].kind]]
    /\ Ends(u)
    /\ UNCHANGED <<sheet, edits, cond, queued, sync, begun, asked, posts, faults>>

UserDies(u) ==
    /\ work[u].at # "off"
    /\ Faulty
    /\ Ends(u)
    /\ UNCHANGED <<sheet, edits, item, cond, queued, sync, begun, asked, posts>>

EditSheet(row) ==
    /\ edits < MaxEdits /\ edits' = edits + 1
    /\ row # sheet /\ sheet' = row
    /\ UNCHANGED <<item, cond, queued, sync, work, begun, asked, posts, faults>>

-----------------------------------------------------------------------------

SyncStep(w) ==
    SyncCompare(w) \/ SyncUpsert(w) \/ SyncAddConditions(w) \/ SyncFinish(w)

Next ==
    \/ \E w \in Syncs : SyncFetch(w) \/ SyncStep(w) \/ SyncRowFails(w) \/ SyncDies(w)
    \/ \E u \in Users :
        \/ DraftTask(u) \/ DraftNow(u) \/ AddToCalendar(u)
        \/ \E stage \in {"todo", "in_progress", "done"} : Move(u, stage)
        \/ HeraldAnswers(u) \/ HeraldFails(u) \/ HeraldUnanswered(u)
        \/ KeepDraft(u) \/ EnsurePost(u) \/ LinkPost(u) \/ MoveSaves(u)
        \/ UserDies(u)
    \/ CloseCondition
    \/ \E row \in Rows : EditSheet(row)

Init ==
    /\ sheet \in Rows /\ edits = 0
    /\ item = NoItem /\ cond = "none" /\ queued = FALSE
    /\ sync = [w \in Syncs |-> NoSync]
    /\ work = [u \in Users |-> NoWork]
    /\ begun = 0 /\ asked = 0 /\ posts = 0 /\ faults = 0

\* The beat runs the sync every 15 minutes, and a sync that runs goes on.
Fairness ==
    /\ WF_vars(\E w \in Syncs : SyncFetch(w))
    /\ \A w \in Syncs : WF_vars(SyncStep(w))

Spec == Init /\ [][Next]_vars /\ Fairness

-----------------------------------------------------------------------------
(* Properties *)

\* An item whose notes name a condition has the condition, or the sync that saved
\* the notes is about to add it, unless an exception or a crash came in between.
ConditionRecorded ==
    Gated /\ cond = "none" =>
        faults > 0 \/ \E w \in Syncs : sync[w].at = "adding" /\ sync[w].row.gated

\* HERALD drafts an item once per process that found it without a draft, however
\* often it is synced, and once more for each answer or process that is lost.
DraftsBounded == asked <= Cardinality(Users) + faults

\* The item comes to mirror the sheet, also when a sync with older rows finishes
\* after one with newer rows.
MirrorsSheet == <>[](item.hash = sheet)
=============================================================================
