------------------------------ MODULE PostStatus ------------------------------
(***************************************************************************)
(* The editorial state machine of a PlatformPost and the aggregate status  *)
(* its parent Post derives from its children.                              *)
(*   src/apps/composer/models.py   PlatformPost.Status, VALID_TRANSITIONS  *)
(*   src/apps/composer/status.py   derive_post_status                      *)
(***************************************************************************)
EXTENDS Naturals

Statuses ==
    {"draft", "pending_review", "pending_client", "approved",
     "changes_requested", "rejected", "scheduled", "publishing",
     "published", "failed"}

ValidTransitions ==
    [draft             |-> {"pending_review", "scheduled", "publishing"},
     pending_review    |-> {"approved", "changes_requested", "rejected"},
     approved          |-> {"pending_client", "scheduled", "publishing", "draft"},
     pending_client    |-> {"approved", "changes_requested", "rejected"},
     changes_requested |-> {"pending_review", "draft"},
     rejected          |-> {"draft", "pending_review"},
     scheduled         |-> {"publishing", "draft"},
     publishing        |-> {"published", "failed", "scheduled", "pending_client"},
     failed            |-> {"publishing", "draft", "scheduled"},
     published         |-> {}]

CanTransition(from, to) == to \in ValidTransitions[from]

\* Position in _WORKFLOW_ORDER; "failed" is not listed there and ranks last.
WorkflowRank ==
    [draft |-> 0, changes_requested |-> 1, rejected |-> 2,
     pending_review |-> 3, pending_client |-> 4, approved |-> 5,
     scheduled |-> 6, publishing |-> 7, published |-> 9, failed |-> 10]

\* The aggregate of a set of child statuses.
DerivePostStatus(children) ==
    IF children = {} THEN "draft"
    ELSE IF children = {"published", "failed"} THEN "partially_published"
    ELSE CHOOSE s \in children :
            \A other \in children : WorkflowRank[s] <= WorkflowRank[other]

\* Post.is_editable: what the API's PATCH route asks of the aggregate.
EditableStatuses ==
    {"draft", "changes_requested", "rejected", "approved", "scheduled"}
===============================================================================
