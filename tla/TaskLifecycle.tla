--------------------------- MODULE TaskLifecycle ---------------------------
(***************************************************************************)
(* The task row and everything the domain layer decides about it without   *)
(* touching a repository: the state machine of                             *)
(* src/src/domain/task/types.rs, the entity methods of                     *)
(* src/src/domain/task/entity.rs and the row-level authorization of        *)
(* src/src/application/policies/role_authorization.rs.                     *)
(*                                                                         *)
(* There is no state here.  TaskBoard uses these operators on the row it   *)
(* owns; TaskWorkflow uses them on the copies its handlers have read.      *)
(*                                                                         *)
(* Time is abstracted to the row's version: the timestamp a status is      *)
(* given on first entry is the version of the write that entered it, and 0 *)
(* stands for NULL.  Of the texts only the blocked reason is kept, which   *)
(* is given or not.                                                        *)
(***************************************************************************)
EXTENDS Naturals

CONSTANTS
  Users,      \* user accounts (rows of users)
  Employees,  \* directory records (rows of employees)
  Role,       \* the role of each account
  None,       \* SQL NULL / Option::None
  Resolutions,  \* <<user, employee>> pairs the assignee resolver can return
  Accounts,     \* <<user, employee>>: user registered as that employee
  Requestable   \* the statuses the buttons of a task card ask for

ASSUME RoleAssumption == Role \in [Users -> {"user", "manager", "admin"}]

TaskStatus == {"created", "sent", "in_progress", "blocked", "in_review",
               "completed", "cancelled"}

ASSUME ResolutionsAssumption ==
  Resolutions \subseteq (Users \cup {None}) \X (Employees \cup {None})
ASSUME AccountsAssumption == Accounts \subseteq Users \X Employees
ASSUME RequestableAssumption ==
  Requestable \subseteq {"in_progress", "in_review", "completed", "cancelled"}

\* The statuses that own a timestamp column (sent_at ... cancelled_at).
StampedStatus == TaskStatus \ {"created"}

Task == [version  : Nat,
         creator  : Users,
         user     : Users \cup {None},
         employee : Employees \cup {None},
         status   : TaskStatus,
         reason   : {"none", "given"},
         stamps   : [StampedStatus -> Nat]]

\* NULL is no user, no record, no status and no row.
ASSUME NoneAssumption ==
  None \notin Users \cup Employees \cup TaskStatus /\ None \notin Task

NoStamps == [s \in StampedStatus |-> 0]

-----------------------------------------------------------------------------
(* Entity: the state machine *)

Edges ==
  { <<"created", "sent">>,        <<"created", "in_progress">>,
    <<"created", "blocked">>,     <<"created", "cancelled">>,
    <<"sent", "in_progress">>,    <<"sent", "blocked">>,
    <<"sent", "in_review">>,      <<"sent", "cancelled">>,
    <<"in_progress", "blocked">>, <<"in_progress", "in_review">>,
    <<"in_progress", "cancelled">>,
    <<"blocked", "in_progress">>, <<"blocked", "in_review">>,
    <<"blocked", "cancelled">>,
    <<"in_review", "in_progress">>, <<"in_review", "completed">>,
    <<"in_review", "cancelled">> }

CanTransitionTo(from, to) == <<from, to>> \in Edges

IsTerminal(status) == status \in {"completed", "cancelled"}

\* Task::new: the row as create_if_absent inserts it.
NewTask(creator, user, employee) ==
  [version |-> 0, creator |-> creator, user |-> user, employee |-> employee,
   status |-> "created", reason |-> "none", stamps |-> NoStamps]

\* mark_timestamp: only the first entry into a status is recorded.
MarkTimestamp(task, next) ==
  [task.stamps EXCEPT ![next] = IF @ = 0 THEN task.version + 1 ELSE @]

TransitionTo(task, next) ==
  [task EXCEPT !.version = @ + 1,
               !.status  = next,
               !.stamps  = MarkTimestamp(task, next),
               !.reason  = IF next = "blocked" THEN @ ELSE "none"]

\* apply_blocker: the reason is non-empty and within the length limit.
ApplyBlocker(task) == [TransitionTo(task, "blocked") EXCEPT !.reason = "given"]

\* A reassignment that leaves the previous executor's progress, for a mutant.
ReassignedInheriting(task, user, employee) ==
  [task EXCEPT !.version = @ + 1, !.user = user, !.employee = employee,
               !.status = "created", !.reason = "none"]

\* Task::reassign on a task that is not terminal.
Reassigned(task, user, employee) ==
  [task EXCEPT !.version  = @ + 1,
               !.user     = user,
               !.employee = employee,
               !.status   = "created",
               !.reason   = "none",
               !.stamps   = NoStamps]

\* link_registered_assignee on a task assigned through the directory only.
LinkRegisteredAssignee(task, user) ==
  [task EXCEPT !.version = @ + 1, !.user = user]

ReviewRequired(task) == task.user # None /\ task.user # task.creator

-----------------------------------------------------------------------------
(* Row-level authorization *)

IsAdmin(actor) == Role[actor] = "admin"
IsManagerOrAdmin(actor) == Role[actor] \in {"manager", "admin"}

\* The shared condition of ensure_can_view_task, _comment and _reassign.
Participates(actor, task) ==
  IsManagerOrAdmin(actor) \/ actor = task.creator \/ actor = task.user

CanReportBlocker(actor, task) == IsAdmin(actor) \/ actor = task.user

\* The first half of normalize_requested_status: completion asked for by
\* somebody who may not approve becomes a request for review.
NormalizeRequestedStatus(actor, task, requested) ==
  IF /\ requested = "completed"
     /\ ReviewRequired(task)
     /\ actor # task.creator
     /\ ~IsManagerOrAdmin(actor)
  THEN "in_review"
  ELSE requested

\* Its second half: TASK_REVIEW_REQUIRED.
ReviewMissing(task, next) ==
  next = "completed" /\ ReviewRequired(task) /\ task.status # "in_review"

CreatorCanChangeStatus(task, next) ==
  \/ next \in {"completed", "cancelled"}
  \/ next = "in_progress" /\ task.status = "in_review"

AssigneeCanChangeStatus(next) ==
  next \in {"in_progress", "in_review", "blocked", "cancelled"}

ManagerCanChangeStatus(next) == next \in {"in_progress", "completed", "cancelled"}

CanChangeStatus(actor, task, next) ==
  \/ IsAdmin(actor)
  \/ actor = task.creator /\ CreatorCanChangeStatus(task, next)
  \/ actor = task.user /\ AssigneeCanChangeStatus(next)
  \/ IsManagerOrAdmin(actor) /\ ManagerCanChangeStatus(next)

-----------------------------------------------------------------------------
(* What each use case computes from the row it has read, before it writes.   *)
(* XAllowed is the conjunction of its checks, XWrite the row it passes to    *)
(* TaskRepository::update.                                                   *)

\* UpdateTaskStatusUseCase::execute
StatusAllowed(actor, requested, task) ==
  LET next == NormalizeRequestedStatus(actor, task, requested)
  IN  /\ ~ReviewMissing(task, next)
      /\ CanChangeStatus(actor, task, next)
      /\ CanTransitionTo(task.status, next)

\* The status asked for is written instead of the normalized one, for a mutant.
StatusWriteAsRequested(actor, requested, task) == TransitionTo(task, requested)

StatusWrite(actor, requested, task) ==
  TransitionTo(task, NormalizeRequestedStatus(actor, task, requested))

\* ReportTaskBlockerUseCase::execute
BlockerAllowed(actor, task) ==
  CanReportBlocker(actor, task) /\ CanTransitionTo(task.status, "blocked")

\* ReassignTaskUseCase::execute_with_decision
ReassignAllowed(actor, task) ==
  Participates(actor, task) /\ ~IsTerminal(task.status)

\* should_link_task without its terminal test, for a mutant.
ShouldLinkTaskAnyStatus(task, employee) ==
  task.user = None /\ task.employee = employee

\* should_link_task without its directory test, for a mutant.
ShouldLinkTaskAnyRecord(task, employee) ==
  /\ task.user = None
  /\ task.employee # None
  /\ ~IsTerminal(task.status)

\* should_link_task, and the WHERE clause of
\* list_open_assigned_to_employee_without_user.
ShouldLinkTask(task, employee) ==
  /\ task.user = None
  /\ task.employee = employee
  /\ ~IsTerminal(task.status)

\* mark_related_task_as_sent: the row it goes on to write.
SentAllowed(task) == task.status = "created"

-----------------------------------------------------------------------------
(* Every way a stored row may turn into another one. *)

ChangeStatusStep(before, after) ==
  \E actor \in Users, requested \in Requestable :
    /\ StatusAllowed(actor, requested, before)
    /\ after = StatusWrite(actor, requested, before)

ReportBlockerStep(before, after) ==
  \E actor \in Users :
    BlockerAllowed(actor, before) /\ after = ApplyBlocker(before)

ReassignStep(before, after) ==
  \E actor \in Users, res \in Resolutions :
    /\ ReassignAllowed(actor, before)
    /\ after = Reassigned(before, res[1], res[2])

LinkStep(before, after) ==
  \E acc \in Accounts :
    /\ ShouldLinkTask(before, acc[2])
    /\ after = LinkRegisteredAssignee(before, acc[1])

MarkSentStep(before, after) ==
  SentAllowed(before) /\ after = TransitionTo(before, "sent")

LegalStep(before, after) ==
  \/ ChangeStatusStep(before, after)
  \/ ReportBlockerStep(before, after)
  \/ ReassignStep(before, after)
  \/ LinkStep(before, after)
  \/ MarkSentStep(before, after)

=============================================================================
