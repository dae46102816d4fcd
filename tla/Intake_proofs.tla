----------------------------- MODULE Intake_proofs -----------------------------
(***************************************************************************)
(* Theorems about Intake for any workers, processes, contents of the sheet *)
(* and number of edits, requests and faults.                               *)
(***************************************************************************)
EXTENDS Intake, FiniteSetTheorems, TLAPS

\* A sync that works on a row has one, and a move names a lane.
Filled ==
    /\ \A w \in Syncs :
        sync[w].at \in {"comparing", "writing", "adding"} => sync[w].row \in Rows
    /\ \A u \in Users : work[u].at = "moving" => work[u].kind \in DOMAIN LaneStatus

Asking == {u \in Users : work[u].at = "asking"}
Keeping == {u \in Users : work[u].at = "keeping"}

\* Until a draft is kept, each draft is in the hands of the process that got it or
\* was lost; from then on nobody new asks for one.
DraftsHeld ==
    IF item.drafted
    THEN asked + Cardinality(Asking) <= Cardinality(Users) + faults
    ELSE asked <= Cardinality(Keeping) + faults

-----------------------------------------------------------------------------
(* Types *)

LEMMA NothingTyped ==
  /\ NoItem \in Item /\ NoWork \in Work
  /\ NoSync \in [at : SyncStages, row : Rows \cup {None}]
  /\ NoItem.hash = None /\ ~NoItem.drafted /\ NoWork.at = "off" /\ NoSync.at = "off"
BY DEF NoItem, Item, NoWork, Work, Stages, Kinds, NoSync, SyncStages, SheetStatuses

\* Only the worker w, or the process u, goes on.
AloneSync(w) == \A v \in Syncs : v # w => sync'[v] = sync[v]
Alone(u) == \A v \in Users : v # u => work'[v] = work[v]

LEMMA SyncGoesJob ==
  ASSUME TypeOK, NEW w \in Syncs, NEW stage \in SyncStages, SyncGoes(w, stage)
  PROVE  /\ sync' \in [Syncs -> [at : SyncStages, row : Rows \cup {None}]]
         /\ sync'[w].at = stage /\ sync'[w].row = sync[w].row /\ AloneSync(w)
<1>1. sync[w] \in [at : SyncStages, row : Rows \cup {None}]
  BY DEF TypeOK
<1>2. [sync[w] EXCEPT !.at = stage] \in [at : SyncStages, row : Rows \cup {None}]
  BY <1>1
<1>3. sync' = [sync EXCEPT ![w] = [sync[w] EXCEPT !.at = stage]]
  BY DEF SyncGoes, TypeOK
<1> QED BY <1>1, <1>2, <1>3 DEF TypeOK, AloneSync

LEMMA SyncSetJob ==
  ASSUME TypeOK, NEW w \in Syncs, NEW j \in [at : SyncStages, row : Rows \cup {None}],
         sync' = [sync EXCEPT ![w] = j]
  PROVE  /\ sync' \in [Syncs -> [at : SyncStages, row : Rows \cup {None}]]
         /\ sync'[w] = j /\ AloneSync(w)
BY DEF TypeOK, AloneSync

LEMMA GoesJob ==
  ASSUME TypeOK, NEW u \in Users, NEW stage \in Stages, Goes(u, stage)
  PROVE  /\ work' \in [Users -> Work] /\ Alone(u)
         /\ work'[u].at = stage /\ work'[u].kind = work[u].kind
<1>1. work[u] \in Work
  BY DEF TypeOK
<1>2. [work[u] EXCEPT !.at = stage] \in Work
  BY <1>1 DEF Work
<1>3. work' = [work EXCEPT ![u] = [work[u] EXCEPT !.at = stage]]
  BY DEF Goes, TypeOK
<1> QED BY <1>1, <1>2, <1>3 DEF TypeOK, Alone, Work

LEMMA EndsJob ==
  ASSUME TypeOK, NEW u \in Users, Ends(u)
  PROVE  work' \in [Users -> Work] /\ Alone(u) /\ work'[u].at = "off"
BY NothingTyped DEF TypeOK, Ends, Alone

LEMMA ReadsJob ==
  ASSUME TypeOK, NEW u \in Users, NEW kind \in Kinds, NEW stage \in Stages,
         Reads(u, kind, stage)
  PROVE  /\ work' \in [Users -> Work] /\ Alone(u) /\ work[u].at = "off"
         /\ work'[u].at = stage /\ work'[u].kind = kind
         /\ UNCHANGED <<sheet, edits, item, cond, sync, asked, posts, faults>>
<1>1. [at |-> stage, kind |-> kind, post |-> item.post] \in Work
  BY DEF TypeOK, Item, Work
<1> QED BY <1>1 DEF TypeOK, Reads, Alone, Work

\* What a step does to the item: a sync writes the row it fetched, and a request
\* the columns it names.
LEMMA UpsertItem ==
  ASSUME TypeOK, Filled, NEW w \in Syncs, SyncUpsert(w)
  PROVE  /\ item' \in Item /\ item'.hash = sync[w].row /\ item'.drafted = item.drafted
         /\ sync[w].row \in Rows
<1>1. sync[w].row \in Rows /\ item \in Item
  BY DEF Filled, TypeOK, SyncUpsert
<1>2. sync[w].row.status \in SheetStatuses /\ OnHold(sync[w].row) \in BOOLEAN
  BY <1>1, IntakeAssumption DEF OnHold
<1>3. item' = [item EXCEPT !.hash = sync[w].row, !.status = sync[w].row.status,
                           !.hold = OnHold(sync[w].row)]
  BY DEF SyncUpsert
<1> QED BY <1>1, <1>2, <1>3 DEF Item

LEMMA KeepItem ==
  ASSUME TypeOK, NEW u \in Users, KeepDraft(u)
  PROVE  item' \in Item /\ item'.hash = item.hash /\ item'.drafted
BY DEF TypeOK, KeepDraft, Item

LEMMA LinkItem ==
  ASSUME TypeOK, NEW u \in Users, LinkPost(u)
  PROVE  item' \in Item /\ item'.hash = item.hash /\ item'.drafted = item.drafted
BY DEF TypeOK, LinkPost, Item, Work

LEMMA MoveItem ==
  ASSUME TypeOK, Filled, NEW u \in Users, MoveSaves(u)
  PROVE  item' \in Item /\ item'.hash = item.hash /\ item'.drafted = item.drafted
<1>1. LaneStatus[work[u].kind] \in {"accepted", "drafting", "approved"}
  BY DEF Filled, MoveSaves, LaneStatus
<1> QED BY <1>1 DEF TypeOK, MoveSaves, Item, SheetStatuses

LEMMA EnsureJob ==
  ASSUME TypeOK, NEW u \in Users, EnsurePost(u)
  PROVE  /\ work' \in [Users -> Work] /\ Alone(u) /\ posts' \in Nat
         /\ work[u].at = "posting" /\ work'[u].at = "linking"
<1>1. CASE work[u].post # 0
  BY <1>1, GoesJob DEF EnsurePost, TypeOK, Stages
<1>2. CASE work[u].post = 0
  <2>1. work' = [work EXCEPT ![u] = [at |-> "linking", kind |-> @.kind, post |-> posts + 1]]
        /\ posts' = posts + 1 /\ work[u].at = "posting"
    BY <1>2 DEF EnsurePost
  <2> QED BY <2>1 DEF TypeOK, Work, Stages, Alone
<1> QED BY <1>1, <1>2

LEMMA TypeStep == TypeOK /\ Filled /\ [Next]_vars => TypeOK' /\ Filled'
<1> SUFFICES ASSUME TypeOK, Filled, [Next]_vars PROVE TypeOK' /\ Filled'
  OBVIOUS
<1>b. /\ sheet \in Rows /\ edits \in Nat
      /\ item \in Item
      /\ cond \in {"none", "open", "closed"}
      /\ queued \in BOOLEAN
      /\ sync \in [Syncs -> [at : SyncStages, row : Rows \cup {None}]]
      /\ work \in [Users -> Work]
      /\ begun \in Nat /\ asked \in Nat /\ posts \in Nat /\ faults \in Nat
  BY DEF TypeOK
<1>c. /\ {"comparing", "writing", "adding", "finishing"} \subseteq SyncStages
      /\ {"asking", "keeping", "posting", "linking", "moving"} \subseteq Stages
      /\ {"task", "now", "calendar", "todo", "in_progress", "done"} \subseteq Kinds
      /\ {"todo", "in_progress", "done"} = DOMAIN LaneStatus
  BY DEF SyncStages, Stages, Kinds, LaneStatus
<1>f. Faulty => faults' \in Nat
  BY <1>b DEF Faulty
\* A worker goes on with its sync, and the rest of the state keeps its type.
<1>s. ASSUME NEW w \in Syncs, AloneSync(w), work' = work,
             sync'[w].at \in {"comparing", "writing", "adding"} => sync'[w].row \in Rows
      PROVE  Filled'
  BY <1>s DEF Filled, AloneSync
<1>u. ASSUME NEW u \in Users, Alone(u), sync' = sync,
             work'[u].at = "moving" => work'[u].kind \in DOMAIN LaneStatus
      PROVE  Filled'
  BY <1>u DEF Filled, Alone
<1>1. ASSUME NEW w \in Syncs, SyncFetch(w) PROVE TypeOK' /\ Filled'
  <2>1. [at |-> "comparing", row |-> sheet] \in [at : SyncStages, row : Rows \cup {None}]
    BY <1>b, <1>c
  <2>2. /\ sync' \in [Syncs -> [at : SyncStages, row : Rows \cup {None}]]
        /\ sync'[w] = [at |-> "comparing", row |-> sheet] /\ AloneSync(w)
    BY <1>1, <2>1, SyncSetJob DEF SyncFetch
  <2> QED BY <1>1, <1>b, <1>s, <2>2 DEF SyncFetch, TypeOK
<1>2. ASSUME NEW w \in Syncs, SyncCompare(w) PROVE TypeOK' /\ Filled'
  <2> DEFINE stage == IF item.hash = sync[w].row THEN "finishing" ELSE "writing"
  <2>1. stage \in SyncStages /\ SyncGoes(w, stage) /\ sync[w].row \in Rows
    BY <1>2, <1>c DEF SyncCompare, Filled
  <2> HIDE DEF stage
  <2> QED BY <1>2, <1>b, <1>s, <2>1, SyncGoesJob DEF SyncCompare, TypeOK
<1>3. ASSUME NEW w \in Syncs, SyncUpsert(w) PROVE TypeOK' /\ Filled'
  <2>1. item' \in Item /\ sync[w].row \in Rows /\ SyncGoes(w, "adding")
    BY <1>3, UpsertItem DEF SyncUpsert
  <2> QED BY <1>3, <1>b, <1>c, <1>s, <2>1, SyncGoesJob DEF SyncUpsert, TypeOK
<1>4. ASSUME NEW w \in Syncs, SyncAddConditions(w) PROVE TypeOK' /\ Filled'
  <2>1. cond' \in {"none", "open", "closed"} /\ SyncGoes(w, "finishing")
    BY <1>4, <1>b DEF SyncAddConditions
  <2> QED BY <1>4, <1>b, <1>c, <1>s, <2>1, SyncGoesJob DEF SyncAddConditions, TypeOK
<1>5. ASSUME NEW w \in Syncs, SyncRowFails(w) PROVE TypeOK' /\ Filled'
  BY <1>5, <1>b, <1>c, <1>f, <1>s, SyncGoesJob DEF SyncRowFails, TypeOK
<1>6. ASSUME NEW w \in Syncs, SyncFinish(w) PROVE TypeOK' /\ Filled'
  BY <1>6, <1>b, <1>s, SyncSetJob, NothingTyped DEF SyncFinish, TypeOK
<1>7. ASSUME NEW w \in Syncs, SyncDies(w) PROVE TypeOK' /\ Filled'
  BY <1>7, <1>b, <1>f, <1>s, SyncSetJob, NothingTyped DEF SyncDies, TypeOK
<1>8. ASSUME NEW u \in Users, DraftTask(u) PROVE TypeOK' /\ Filled'
  <2>1. CASE Eligible
    <3>1. Reads(u, "task", "asking") /\ queued' = FALSE /\ begun' = begun
      BY <1>8, <2>1 DEF DraftTask
    <3>2. /\ work' \in [Users -> Work] /\ Alone(u) /\ work'[u].at = "asking"
          /\ UNCHANGED <<sheet, edits, item, cond, sync, asked, posts, faults>>
      BY <3>1, <1>c, ReadsJob
    <3>3. TypeOK'
      BY <3>1, <3>2, <1>b DEF TypeOK
    <3> QED BY <3>2, <3>3, <1>u
  <2>2. CASE ~Eligible
    BY <1>8, <2>2, <1>b DEF DraftTask, TypeOK, Filled
  <2> QED BY <2>1, <2>2
<1>9. ASSUME NEW u \in Users, NEW kind \in Kinds, NEW stage \in {"asking", "posting", "moving"},
             stage = "moving" => kind \in DOMAIN LaneStatus, Request(u, kind, stage)
      PROVE  TypeOK' /\ Filled'
  BY <1>9, <1>b, <1>c, <1>u, ReadsJob DEF Request, TypeOK
<1>10. ASSUME NEW u \in Users, DraftNow(u) \/ AddToCalendar(u) PROVE TypeOK' /\ Filled'
  BY <1>9, <1>10, <1>c DEF DraftNow, AddToCalendar
<1>11. ASSUME NEW u \in Users, NEW stage \in {"todo", "in_progress", "done"}, Move(u, stage)
       PROVE  TypeOK' /\ Filled'
  BY <1>9, <1>11, <1>c DEF Move
<1>12. ASSUME NEW u \in Users, HeraldAnswers(u) PROVE TypeOK' /\ Filled'
  BY <1>12, <1>b, <1>c, <1>u, GoesJob DEF HeraldAnswers, TypeOK
<1>13. ASSUME NEW u \in Users, HeraldFails(u) PROVE TypeOK' /\ Filled'
  BY <1>13, <1>b, <1>u, EndsJob DEF HeraldFails, TypeOK
<1>14. ASSUME NEW u \in Users, HeraldUnanswered(u) PROVE TypeOK' /\ Filled'
  BY <1>14, <1>b, <1>f, <1>u, EndsJob DEF HeraldUnanswered, TypeOK
<1>15. ASSUME NEW u \in Users, KeepDraft(u) PROVE TypeOK' /\ Filled'
  <2>1. \/ Goes(u, "posting")
        \/ Ends(u)
    BY <1>15 DEF KeepDraft
  <2>2. item' \in Item
    BY <1>15, KeepItem
  <2> QED BY <1>15, <2>1, <2>2, <1>b, <1>c, <1>u, GoesJob, EndsJob DEF KeepDraft, TypeOK
<1>16. ASSUME NEW u \in Users, EnsurePost(u) PROVE TypeOK' /\ Filled'
  BY <1>16, <1>b, <1>u, EnsureJob DEF EnsurePost, TypeOK
<1>17. ASSUME NEW u \in Users, LinkPost(u) PROVE TypeOK' /\ Filled'
  BY <1>17, <1>b, <1>u, LinkItem, EndsJob DEF LinkPost, TypeOK
<1>18. ASSUME NEW u \in Users, MoveSaves(u) PROVE TypeOK' /\ Filled'
  BY <1>18, <1>b, <1>u, MoveItem, EndsJob DEF MoveSaves, TypeOK
<1>19. ASSUME NEW u \in Users, UserDies(u) PROVE TypeOK' /\ Filled'
  BY <1>19, <1>b, <1>f, <1>u, EndsJob DEF UserDies, TypeOK
<1>20. CASE CloseCondition
  BY <1>20, <1>b DEF CloseCondition, TypeOK, Filled
<1>21. ASSUME NEW r \in Rows, EditSheet(r) PROVE TypeOK' /\ Filled'
  BY <1>21, <1>b DEF EditSheet, TypeOK, Filled
<1>22. CASE UNCHANGED vars
  BY <1>22, <1>b DEF vars, TypeOK, Filled
<1> QED BY <1>1, <1>2, <1>3, <1>4, <1>5, <1>6, <1>7, <1>8, <1>10, <1>11, <1>12, <1>13, <1>14,
           <1>15, <1>16, <1>17, <1>18, <1>19, <1>20, <1>21, <1>22 DEF Next, SyncStep

LEMMA TypeInit == Init => TypeOK /\ Filled
<1> SUFFICES ASSUME Init PROVE TypeOK /\ Filled
  OBVIOUS
<1>1. /\ sync \in [Syncs -> [at : SyncStages, row : Rows \cup {None}]]
      /\ \A w \in Syncs : sync[w].at = "off"
  BY NothingTyped DEF Init
<1>2. work \in [Users -> Work] /\ \A u \in Users : work[u].at = "off"
  BY NothingTyped DEF Init
<1> QED BY <1>1, <1>2, NothingTyped DEF Init, TypeOK, Filled

\* The item, its condition and every process that works on it stay within their
\* types; an item's status is one the board or the sheet may give it.
THEOREM TypeCorrect == Spec => []TypeOK
<1>1. Spec => Init /\ [][Next]_vars
  BY DEF Spec
<1> QED BY <1>1, TypeInit, TypeStep, PTL

-----------------------------------------------------------------------------
(* Conditions *)

Covered(w) == sync[w].at = "adding" /\ sync[w].row.gated

LEMMA ConditionStep == TypeOK /\ Filled /\ ConditionRecorded /\ [Next]_vars => ConditionRecorded'
<1> SUFFICES ASSUME TypeOK, Filled, ConditionRecorded, [Next]_vars,
                    Gated', cond' = "none"
             PROVE  faults' > 0 \/ \E w \in Syncs : Covered(w)'
  BY DEF ConditionRecorded, Covered
<1>b. faults \in Nat /\ faults' \in Nat
  BY TypeStep DEF TypeOK
<1>f. ASSUME Faulty PROVE faults' > 0
  BY <1>f, <1>b DEF Faulty
\* The item names the same condition as before: whoever covered it still does.
<1>k. ASSUME item'.hash = item.hash, cond = "none", faults' = faults,
             \A w \in Syncs : Covered(w) => sync'[w] = sync[w]
      PROVE  faults' > 0 \/ \E w \in Syncs : Covered(w)'
  BY <1>k DEF ConditionRecorded, Covered, Gated, Exists
<1>1. ASSUME NEW w \in Syncs, SyncFetch(w) \/ SyncCompare(w) \/ SyncFinish(w)
      PROVE  faults' > 0 \/ \E v \in Syncs : Covered(v)'
  <2>1. UNCHANGED <<item, cond, faults>> /\ sync[w].at # "adding" /\ AloneSync(w)
    BY <1>1 DEF SyncFetch, SyncCompare, SyncFinish, SyncGoes, AloneSync, TypeOK
  <2> QED BY <2>1, <1>k DEF Covered, AloneSync
<1>2. ASSUME NEW w \in Syncs, SyncUpsert(w)
      PROVE  faults' > 0 \/ \E v \in Syncs : Covered(v)'
  <2>1. item'.hash = sync[w].row
    BY <1>2, UpsertItem
  <2>2. sync'[w].at = "adding" /\ sync'[w].row = sync[w].row
    BY <1>2, SyncGoesJob DEF SyncUpsert, SyncStages
  <2> QED BY <2>1, <2>2 DEF Covered, Gated
<1>3. ASSUME NEW w \in Syncs, SyncAddConditions(w)
      PROVE  faults' > 0 \/ \E v \in Syncs : Covered(v)'
  <2>1. cond = "none" /\ ~sync[w].row.gated
    BY <1>3 DEF SyncAddConditions
  <2>2. UNCHANGED <<item, faults>> /\ AloneSync(w)
    BY <1>3, SyncGoesJob DEF SyncAddConditions, SyncStages
  <2> QED BY <2>1, <2>2, <1>k DEF Covered, AloneSync
<1>4. ASSUME NEW w \in Syncs, SyncRowFails(w) \/ SyncDies(w)
      PROVE  faults' > 0 \/ \E v \in Syncs : Covered(v)'
  BY <1>4, <1>f DEF SyncRowFails, SyncDies
<1>5. ASSUME NEW u \in Users,
             \/ DraftTask(u) \/ DraftNow(u) \/ AddToCalendar(u)
             \/ \E stage \in {"todo", "in_progress", "done"} : Move(u, stage)
             \/ HeraldAnswers(u) \/ HeraldFails(u) \/ EnsurePost(u)
      PROVE  faults' > 0 \/ \E v \in Syncs : Covered(v)'
  <2>1. UNCHANGED <<item, cond, sync, faults>>
    BY <1>5 DEF DraftTask, DraftNow, AddToCalendar, Move, Request, Reads, HeraldAnswers,
         HeraldFails, EnsurePost
  <2> QED BY <2>1, <1>k
<1>6. ASSUME NEW u \in Users, KeepDraft(u) \/ LinkPost(u) \/ MoveSaves(u)
      PROVE  faults' > 0 \/ \E v \in Syncs : Covered(v)'
  <2>1. item'.hash = item.hash
    BY <1>6, KeepItem, LinkItem, MoveItem
  <2>2. UNCHANGED <<cond, sync, faults>>
    BY <1>6 DEF KeepDraft, LinkPost, MoveSaves
  <2> QED BY <2>1, <2>2, <1>k
<1>7. ASSUME NEW u \in Users, HeraldUnanswered(u) \/ UserDies(u)
      PROVE  faults' > 0 \/ \E v \in Syncs : Covered(v)'
  BY <1>7, <1>f DEF HeraldUnanswered, UserDies
<1>8. CASE CloseCondition
  BY <1>8 DEF CloseCondition
<1>9. ASSUME NEW r \in Rows, EditSheet(r)
      PROVE  faults' > 0 \/ \E v \in Syncs : Covered(v)'
  BY <1>9, <1>k DEF EditSheet
<1>10. CASE UNCHANGED vars
  BY <1>10, <1>k DEF vars
<1> QED BY <1>1, <1>2, <1>3, <1>4, <1>5, <1>6, <1>7, <1>8, <1>9, <1>10 DEF Next, SyncStep

\* An item whose notes name a condition has it, or the sync that saved the notes is
\* about to add it, whatever syncs overlap, until something fails in between.
THEOREM ConditionKept == Spec => []ConditionRecorded
<1>1. Spec => Init /\ [][Next]_vars
  BY DEF Spec
<1>2. Init => ConditionRecorded
  BY NothingTyped DEF Init, ConditionRecorded, Gated, Exists
<1> QED BY <1>1, <1>2, TypeInit, TypeStep, ConditionStep, PTL

-----------------------------------------------------------------------------
(* Drafts *)

LEMMA Counts ==
  /\ IsFiniteSet(Asking) /\ IsFiniteSet(Keeping) /\ IsFiniteSet(Users)
  /\ Cardinality(Asking) \in Nat /\ Cardinality(Keeping) \in Nat /\ Cardinality(Users) \in Nat
  /\ Cardinality(Keeping) <= Cardinality(Users)
BY IntakeAssumption, FS_Subset, FS_CardinalityType DEF Asking, Keeping

\* A step of one process changes its own place in a set of processes only.
LEMMA PlaceStep ==
  ASSUME NEW u \in Users, NEW S, NEW T, S \subseteq Users, T \subseteq Users,
         \A v \in Users : v # u => (v \in T <=> v \in S)
  PROVE  /\ IsFiniteSet(S) /\ IsFiniteSet(T)
         /\ Cardinality(S) \in Nat /\ Cardinality(T) \in Nat
         /\ (u \in S <=> u \in T) => T = S
         /\ u \notin S /\ u \in T => Cardinality(T) = Cardinality(S) + 1
         /\ u \in S /\ u \notin T => Cardinality(T) = Cardinality(S) - 1
<1>1. IsFiniteSet(S) /\ IsFiniteSet(T) /\ Cardinality(S) \in Nat /\ Cardinality(T) \in Nat
  BY IntakeAssumption, FS_Subset, FS_CardinalityType
<1>2. (u \in S <=> u \in T) => T = S
  OBVIOUS
<1>3. ASSUME u \notin S, u \in T PROVE Cardinality(T) = Cardinality(S) + 1
  <2>1. T = S \cup {u}
    BY <1>3
  <2> QED BY <2>1, <1>1, <1>3, FS_AddElement
<1>4. ASSUME u \in S, u \notin T PROVE Cardinality(T) = Cardinality(S) - 1
  <2>1. T = S \ {u}
    BY <1>4
  <2> QED BY <2>1, <1>1, <1>4, FS_RemoveElement
<1> QED BY <1>1, <1>2, <1>3, <1>4

\* Nobody is asking and holding a draft at once.
LEMMA AskingOrKeeping == Cardinality(Asking) + Cardinality(Keeping) <= Cardinality(Users)
<1>1. Asking \cup Keeping \subseteq Users /\ Asking \cap Keeping = {}
  BY DEF Asking, Keeping
<1>2. Cardinality(Asking \cup Keeping) <= Cardinality(Users)
  BY <1>1, Counts, FS_Subset
<1>3. Cardinality(Asking \cup Keeping) = Cardinality(Asking) + Cardinality(Keeping)
  <2>1. Cardinality(Asking \cup Keeping)
          = Cardinality(Asking) + Cardinality(Keeping) - Cardinality(Asking \cap Keeping)
    BY Counts, FS_Union
  <2>2. Cardinality(Asking \cap Keeping) = 0
    BY <1>1, FS_EmptySet
  <2> QED BY <2>1, <2>2, Counts
<1> QED BY <1>2, <1>3

LEMMA CountsStep ==
  ASSUME NEW u \in Users, Alone(u)
  PROVE  /\ Cardinality(Asking') \in Nat /\ Cardinality(Keeping') \in Nat
         /\ (u \in Asking <=> u \in Asking') => Cardinality(Asking') = Cardinality(Asking)
         /\ u \notin Asking /\ u \in Asking' => Cardinality(Asking') = Cardinality(Asking) + 1
         /\ u \in Asking /\ u \notin Asking' => Cardinality(Asking') = Cardinality(Asking) - 1
         /\ (u \in Keeping <=> u \in Keeping') => Cardinality(Keeping') = Cardinality(Keeping)
         /\ u \notin Keeping /\ u \in Keeping' => Cardinality(Keeping') = Cardinality(Keeping) + 1
         /\ u \in Keeping /\ u \notin Keeping' => Cardinality(Keeping') = Cardinality(Keeping) - 1
<1>1. /\ Asking \subseteq Users /\ Asking' \subseteq Users
      /\ Keeping \subseteq Users /\ Keeping' \subseteq Users
      /\ \A v \in Users : v # u => (v \in Asking' <=> v \in Asking)
      /\ \A v \in Users : v # u => (v \in Keeping' <=> v \in Keeping)
  BY DEF Asking, Keeping, Alone
<1> QED BY <1>1, PlaceStep

LEMMA DraftsStep == TypeOK /\ Filled /\ DraftsHeld /\ [Next]_vars => DraftsHeld'
<1> SUFFICES ASSUME TypeOK, Filled, DraftsHeld, [Next]_vars PROVE DraftsHeld'
  OBVIOUS
<1>b. /\ asked \in Nat /\ faults \in Nat
      /\ Cardinality(Asking) \in Nat /\ Cardinality(Keeping) \in Nat
      /\ Cardinality(Users) \in Nat
      /\ item.drafted \in BOOLEAN
  BY Counts DEF TypeOK, Item
<1>c. {"asking", "keeping", "posting", "linking", "moving"} \subseteq Stages
  BY DEF Stages
<1>p. \A u \in Users : (u \in Asking <=> work[u].at = "asking")
                       /\ (u \in Keeping <=> work[u].at = "keeping")
                       /\ (u \in Asking' <=> work'[u].at = "asking")
                       /\ (u \in Keeping' <=> work'[u].at = "keeping")
  BY DEF Asking, Keeping
\* Whoever changes neither the processes nor the draft changes nothing here.
<1>k. ASSUME UNCHANGED <<work, asked>>, item'.drafted = item.drafted,
             faults' = faults \/ Faulty
      PROVE  DraftsHeld'
  <2>1. Asking' = Asking /\ Keeping' = Keeping /\ faults' >= faults /\ faults' \in Nat
    BY <1>k, <1>b DEF Asking, Keeping, Faulty
  <2> QED BY <1>k, <1>b, <2>1 DEF DraftsHeld
\* A process that neither asks nor holds a draft may go on, or ask while there is none.
<1>i. ASSUME NEW u \in Users, Alone(u), work[u].at \notin {"asking", "keeping"},
             work'[u].at # "keeping", work'[u].at = "asking" => ~item.drafted,
             item'.drafted = item.drafted, asked' = asked,
             faults' = faults \/ Faulty
      PROVE  DraftsHeld'
  <2>1. /\ Cardinality(Keeping') = Cardinality(Keeping)
        /\ item.drafted => Cardinality(Asking') = Cardinality(Asking)
    BY <1>i, <1>p, CountsStep
  <2>2. faults' >= faults /\ faults' \in Nat
    BY <1>i, <1>b DEF Faulty
  <2> QED BY <1>i, <1>b, <2>1, <2>2 DEF DraftsHeld
<1>1. ASSUME NEW w \in Syncs,
             \/ SyncFetch(w) \/ SyncCompare(w) \/ SyncAddConditions(w)
             \/ SyncRowFails(w) \/ SyncFinish(w) \/ SyncDies(w)
      PROVE  DraftsHeld'
  <2>1. UNCHANGED <<work, asked, item>> /\ (faults' = faults \/ Faulty)
    BY <1>1 DEF SyncFetch, SyncCompare, SyncAddConditions, SyncRowFails, SyncFinish, SyncDies
  <2> QED BY <2>1, <1>k
<1>2. ASSUME NEW w \in Syncs, SyncUpsert(w) PROVE DraftsHeld'
  <2>1. item'.drafted = item.drafted
    BY <1>2, UpsertItem
  <2>2. UNCHANGED <<work, asked, faults>>
    BY <1>2 DEF SyncUpsert
  <2> QED BY <2>1, <2>2, <1>k
<1>3. ASSUME NEW u \in Users, NEW kind \in Kinds, NEW stage \in {"asking", "posting", "moving"},
             stage = "asking" => Eligible, Reads(u, kind, stage)
      PROVE  DraftsHeld'
  <2>1. /\ Alone(u) /\ work[u].at = "off" /\ work'[u].at = stage
        /\ UNCHANGED <<item, asked, faults>>
    BY <1>3, <1>c, ReadsJob
  <2>2. stage = "asking" => ~item.drafted
    BY <1>3 DEF Eligible
  <2> QED BY <2>1, <2>2, <1>3, <1>i
<1>4. ASSUME NEW u \in Users, DraftTask(u) PROVE DraftsHeld'
  <2>1. CASE Eligible
    BY <1>4, <2>1, <1>3 DEF DraftTask, Kinds
  <2>2. CASE ~Eligible
    BY <1>4, <2>2, <1>k DEF DraftTask
  <2> QED BY <2>1, <2>2
<1>5. ASSUME NEW u \in Users, DraftNow(u) \/ AddToCalendar(u) PROVE DraftsHeld'
  BY <1>3, <1>5 DEF DraftNow, AddToCalendar, Request, Kinds
<1>6. ASSUME NEW u \in Users, NEW stage \in {"todo", "in_progress", "done"}, Move(u, stage)
      PROVE  DraftsHeld'
  BY <1>3, <1>6 DEF Move, Request, Kinds
<1>7. ASSUME NEW u \in Users, HeraldAnswers(u) PROVE DraftsHeld'
  <2>1. /\ Alone(u) /\ work[u].at = "asking" /\ work'[u].at = "keeping"
        /\ asked' = asked + 1 /\ UNCHANGED <<item, faults>>
    BY <1>7, <1>c, GoesJob DEF HeraldAnswers
  <2>2. /\ Cardinality(Asking') = Cardinality(Asking) - 1
        /\ Cardinality(Keeping') = Cardinality(Keeping) + 1
    BY <2>1, <1>p, CountsStep
  <2> QED BY <2>1, <2>2, <1>b DEF DraftsHeld
<1>8. ASSUME NEW u \in Users, HeraldFails(u) PROVE DraftsHeld'
  <2>1. /\ Alone(u) /\ work[u].at = "asking" /\ work'[u].at = "off"
        /\ UNCHANGED <<item, asked, faults>>
    BY <1>8, EndsJob DEF HeraldFails
  <2>2. /\ Cardinality(Asking') = Cardinality(Asking) - 1
        /\ Cardinality(Keeping') = Cardinality(Keeping)
    BY <2>1, <1>p, CountsStep
  <2> QED BY <2>1, <2>2, <1>b DEF DraftsHeld
<1>9. ASSUME NEW u \in Users, HeraldUnanswered(u) PROVE DraftsHeld'
  <2>1. /\ Alone(u) /\ work[u].at = "asking" /\ work'[u].at = "off"
        /\ asked' = asked + 1 /\ faults' = faults + 1 /\ item' = item
    BY <1>9, EndsJob DEF HeraldUnanswered, Faulty
  <2>2. /\ Cardinality(Asking') = Cardinality(Asking) - 1
        /\ Cardinality(Keeping') = Cardinality(Keeping)
    BY <2>1, <1>p, CountsStep
  <2> QED BY <2>1, <2>2, <1>b DEF DraftsHeld
\* The first draft that is kept ends the asking: who asks now is counted from here.
<1>10. ASSUME NEW u \in Users, KeepDraft(u) PROVE DraftsHeld'
  <2>1. /\ Alone(u) /\ work[u].at = "keeping" /\ work'[u].at \in {"posting", "off"}
        /\ UNCHANGED <<asked, faults>>
    BY <1>10, <1>c, GoesJob, EndsJob DEF KeepDraft
  <2>2. item'.drafted = TRUE
    BY <1>10, KeepItem
  <2>3. Cardinality(Asking') = Cardinality(Asking)
    BY <2>1, <1>p, CountsStep
  <2> QED BY <2>1, <2>2, <2>3, <1>b, AskingOrKeeping DEF DraftsHeld
<1>11. ASSUME NEW u \in Users, EnsurePost(u) PROVE DraftsHeld'
  <2>1. /\ Alone(u) /\ work[u].at = "posting" /\ work'[u].at = "linking"
        /\ UNCHANGED <<item, asked, faults>>
    BY <1>11, EnsureJob DEF EnsurePost
  <2> QED BY <2>1, <1>i
<1>12. ASSUME NEW u \in Users, LinkPost(u) \/ MoveSaves(u) PROVE DraftsHeld'
  <2>1. item'.drafted = item.drafted
    BY <1>12, LinkItem, MoveItem
  <2>2. /\ Alone(u) /\ work[u].at \in {"linking", "moving"} /\ work'[u].at = "off"
        /\ UNCHANGED <<asked, faults>>
    BY <1>12, EndsJob DEF LinkPost, MoveSaves
  <2> QED BY <2>1, <2>2, <1>i
<1>13. ASSUME NEW u \in Users, UserDies(u) PROVE DraftsHeld'
  <2>1. /\ Alone(u) /\ work'[u].at = "off" /\ faults' = faults + 1
        /\ UNCHANGED <<item, asked>>
    BY <1>13, EndsJob DEF UserDies, Faulty
  <2>2. /\ Cardinality(Asking') \in Nat /\ Cardinality(Keeping') \in Nat
        /\ Cardinality(Asking') <= Cardinality(Asking)
        /\ Cardinality(Keeping') + 1 >= Cardinality(Keeping)
    BY <2>1, <1>b, <1>p, CountsStep
  <2> QED BY <2>1, <2>2, <1>b DEF DraftsHeld
<1>14. CASE CloseCondition \/ UNCHANGED vars
  BY <1>14, <1>k DEF CloseCondition, vars
<1>15. ASSUME NEW r \in Rows, EditSheet(r) PROVE DraftsHeld'
  BY <1>15, <1>k DEF EditSheet
<1> QED BY <1>1, <1>2, <1>4, <1>5, <1>6, <1>7, <1>8, <1>9, <1>10, <1>11, <1>12, <1>13,
           <1>14, <1>15 DEF Next, SyncStep

LEMMA DraftsInit == Init => DraftsHeld
<1> SUFFICES ASSUME Init PROVE DraftsHeld
  OBVIOUS
<1>1. ~item.drafted /\ asked = 0 /\ faults = 0
  BY NothingTyped DEF Init
<1> QED BY <1>1, Counts DEF DraftsHeld

\* HERALD drafts an item at most once per process and once more per answer or
\* process that is lost, however often it is synced, moved or asked for.
THEOREM DraftsWithinBound == Spec => []DraftsBounded
<1>1. Spec => Init /\ [][Next]_vars
  BY DEF Spec
<1>2. TypeOK /\ DraftsHeld => DraftsBounded
  BY Counts DEF TypeOK, DraftsHeld, DraftsBounded
<1> QED BY <1>1, <1>2, TypeInit, TypeStep, DraftsInit, DraftsStep, PTL
===============================================================================
