----------------------------- MODULE TaskCards -----------------------------
(***************************************************************************)
(* The card of the task of TaskWorkflow, as each account sees it: which    *)
(* actions the policy offers (RoleAuthorizationPolicy::available_actions), *)
(* which button the keyboard makes of each and what the handler of the     *)
(* button does (presentation/telegram ui_keyboards, callbacks/types,       *)
(* dispatcher_handlers).  Offering and refusing are written twice in the   *)
(* code, in the policy and in the use cases; the properties compare them.  *)
(***************************************************************************)
EXTENDS TaskWorkflow

Actions == {"StartProgress", "SubmitForReview", "ApproveReview", "ReturnToWork",
            "ReportBlocker", "Reassign", "Cancel", "AddComment"}

\* Work on the task is for its assignee and for admins, its management for its creator and for
\* managers and admins.
MayWorkOn(actor, t) == actor = t.user \/ IsAdmin(actor)

MayManage(actor, t) == actor = t.creator \/ IsManagerOrAdmin(actor)

\* Mutant: a task that was not delivered yet can be submitted for review as well.
IsOfferedMutant(actor, t, action) ==
    \/ action = "AddComment"
    \/ action = "SubmitForReview" /\ ~IsTerminal(t.status) /\ MayWorkOn(actor, t)

\* available_actions
IsOffered(actor, t, action) ==
    \/ /\ action = "StartProgress"
       /\ t.status \in {"created", "sent", "blocked"} /\ MayWorkOn(actor, t)
    \/ /\ action = "SubmitForReview"
       /\ t.status \in {"sent", "in_progress", "blocked"} /\ MayWorkOn(actor, t)
    \/ /\ action \in {"ApproveReview", "ReturnToWork"}
       /\ t.status = "in_review" /\ MayManage(actor, t)
    \/ /\ action = "ReportBlocker"
       /\ t.status \in {"created", "sent", "in_progress", "blocked"} /\ MayWorkOn(actor, t)
    \/ /\ action = "Reassign"
       /\ ~IsTerminal(t.status) /\ MayManage(actor, t)
    \/ /\ action = "Cancel"
       /\ ~IsTerminal(t.status) /\ (actor = t.user \/ MayManage(actor, t))
    \/ action = "AddComment"

\* action_to_status; the status that ExecuteTaskCancel asks for comes of its handler.
AskedStatus ==
    [StartProgress |-> "in_progress", SubmitForReview |-> "in_review",
     ApproveReview |-> "completed", ReturnToWork |-> "in_progress", Cancel |-> "cancelled"]

\* What the use case behind the button answers while the card is up to date.
IsAccepted(actor, t, action) ==
    CASE action \in DOMAIN AskedStatus -> StatusAllowed(actor, AskedStatus[action], t)
      [] action = "ReportBlocker" -> BlockerAllowed(actor, t)
      [] action = "Reassign" -> ReassignAllowed(actor, t)
      [] action = "AddComment" -> Participates(actor, t)

\* The cards there are: GetTaskStatusUseCase shows a task to those who take part in it.
Viewers(t) == {actor \in Users : Participates(actor, t)}

(***************************************************************************)
(* Properties.                                                             *)
(***************************************************************************)

\* Whatever the handlers have made of the task, a button that one of its people finds on its card
\* is accepted as long as nothing has changed since: the policy that offers and the use cases
\* that refuse agree.  There is one exception: the card of a blocked task has the button that
\* reports a blocker, and a blocked task cannot be blocked.
OffersAgreeWithUseCases ==
    task # None =>
        \A actor \in Viewers(task), action \in Actions :
            IsOffered(actor, task, action) =>
                \/ IsAccepted(actor, task, action)
                \/ action = "ReportBlocker" /\ task.status = "blocked"

=============================================================================
