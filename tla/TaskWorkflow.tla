---------------------------- MODULE TaskWorkflow ----------------------------
(***************************************************************************)
(* The use cases that work on one task, as the bot runs them: handlers of  *)
(* different chats and the background jobs run concurrently, and each is a *)
(* sequence of awaited repository calls without a transaction around it:   *)
(*                                                                         *)
(*    read the row, check, compute the next row          (ReadFor...)      *)
(*    UPDATE ... WHERE version = <version read>          (Save)            *)
(*    append to the audit log                            (AppendAudit)     *)
(*    enqueue one notification per recipient             (Enqueue)         *)
(*                                                                         *)
(* Between any two of these another handler may run, and any call may      *)
(* return an error or be the last before the process stops (Fail), which   *)
(* drops what the handler still had to do and keeps what it has stored.    *)
(*                                                                         *)
(* The tables: task (the row of tasks), audit (task_history), comments     *)
(* (how many rows of comments) and notifications (its rows in id order).   *)
(* happened is a history variable: the entry each stored change owes to    *)
(* the audit log, whether or not it was ever appended.                     *)
(***************************************************************************)
EXTENDS TaskLifecycle, Sequences

CONSTANTS
  Handlers,     \* the handlers that can be in flight at once
  Creator,      \* the author of the message the task is made from
  Ops,          \* bound: the use cases the handlers run
  MaxVersion,   \* bound on the version of the row
  MaxComments,  \* bound on the number of comments
  MaxFaults     \* bound on the number of handlers that are cut short

ASSUME CreatorAssumption == Creator \in Users
ASSUME BoundsAssumption ==
  MaxVersion \in Nat /\ MaxComments \in Nat /\ MaxFaults \in Nat

VARIABLES
  task,           \* the row, or None
  audit,          \* the set of entries of the audit log
  comments,       \* how many comments are stored
  notifications,  \* the rows of notifications, in id order
  proc,           \* what each handler holds while it runs
  happened,       \* history: the entries owed to the audit log
  faults          \* history: handlers cut short

vars == <<task, audit, comments, notifications, proc, happened, faults>>

-----------------------------------------------------------------------------
(* Data *)

Operation == {"create", "status", "block", "reassign", "comment", "link",
              "relink", "deliver"}

\* A row of task_history.  ref is the version (or the number of the comment) the
\* entry is about; the code stores the time instead.
Entry == [action : {"created", "status_changed", "review_requested", "blocked",
                    "reassigned", "assigned", "sent", "commented", "none"},
          ref : Nat,
          old : TaskStatus \cup {None},
          new : TaskStatus \cup {None},
          by  : Users \cup {None}]

\* A dedupe key.  All keys of this task start with its uid, left out here.
Note == [kind : {"task_assigned", "task_reassigned", "task_status",
                 "task_blocked", "task_comment"},
         to   : Users,
         ref  : Nat]

\* A row of notifications; is_sent is set by the first delivery for good, at is the ref of the
\* entry the row was last queued for.
Notification == [key : Note, state : {"pending", "sent", "failed"}, is_sent : BOOLEAN,
                 at : Nat]

Step == {"idle", "insert", "save", "reread", "comment", "audit", "ensure",
         "requeue", "notify", "send"}

NoEntry == [action |-> "none", ref |-> 0, old |-> None, new |-> None, by |-> None]

\* What a handler holds: the row it read (snap), the row it wants stored
\* (next), its audit entry, the notifications to enqueue, and the index of the
\* notification it is delivering or requeueing.
Handler == [pc    : Step,
            op    : Operation,
            actor : Users \cup {None},
            snap  : Task \cup {None},
            next  : Task \cup {None},
            entry : Entry,
            notes : Seq(Note),
            index : Nat]

Idle == [pc |-> "idle", op |-> "status", actor |-> None, snap |-> None,
         next |-> None, entry |-> NoEntry, notes |-> <<>>, index |-> 0]

IsIdle(h) == proc[h].pc = "idle"

Finish(h) == proc' = [proc EXCEPT ![h] = Idle]

Goto(h, step) == proc' = [proc EXCEPT ![h].pc = step]

\* TaskAssigned is the type of the notifications with these keys.
IsAssignment(note) == note.kind \in {"task_assigned", "task_reassigned"}

\* One notification for user, unless there is no user or the user acted.
NoteTo(user, kind, actor, ref) ==
  IF user \in {None, actor} THEN <<>>
                            ELSE <<[kind |-> kind, to |-> user, ref |-> ref]>>

\* [creator, assignee] without the actor, as one notification each.
NotesTo(kind, t, actor, ref) ==
  NoteTo(t.creator, kind, actor, ref) \o NoteTo(t.user, kind, actor, ref)

NoteToAssignee(kind, t, ref) == NoteTo(t.user, kind, None, ref)

NoteToCreator(kind, t, actor, ref) == NoteTo(t.creator, kind, actor, ref)

\* A dedupe key that leaves the recipient out, for a mutant.
EnqueuedOncePerEvent(rows, note, at) ==
  IF \E i \in DOMAIN rows : rows[i].key.kind = note.kind /\ rows[i].key.ref = note.ref
  THEN rows
  ELSE Append(rows, [key |-> note, state |-> "pending", is_sent |-> FALSE, at |-> at])

\* INSERT OR IGNORE on dedupe_key.
Enqueued(rows, note, at) ==
  IF \E i \in DOMAIN rows : rows[i].key = note
  THEN rows
  ELSE Append(rows, [key |-> note, state |-> "pending", is_sent |-> FALSE, at |-> at])

\* find_latest_for_task_and_recipient(TaskAssigned): the rows it orders by id.
AssignmentRows(user) ==
  {i \in DOMAIN notifications :
     IsAssignment(notifications[i].key) /\ notifications[i].key.to = user}

-----------------------------------------------------------------------------
Init ==
  /\ task = None
  /\ audit = {}
  /\ comments = 0
  /\ notifications = <<>>
  /\ proc = [h \in Handlers |-> Idle]
  /\ happened = {}
  /\ faults = 0

-----------------------------------------------------------------------------
(* Reading: find the row, check, compute the row to store. *)

\* A handler that has read the row and goes on to store next.
Hold(h, op, actor, next, entry, notes) ==
  proc' = [proc EXCEPT ![h] =
             [pc |-> "save", op |-> op, actor |-> actor, snap |-> task,
              next |-> next, entry |-> entry, notes |-> notes, index |-> 0]]

Unchanged == UNCHANGED <<task, audit, comments, notifications, happened, faults>>

\* The row exists and the instance has a version left for a write.
Writable == task # None /\ task.version < MaxVersion

\* CreateTaskFromMessageUseCase up to the insert: the resolver has answered
\* and the model has produced a draft.
ReadForCreate(h, res) ==
  /\ IsIdle(h) /\ "create" \in Ops
  /\ LET t == NewTask(Creator, res[1], res[2])
     IN  proc' = [proc EXCEPT ![h] =
           [pc |-> "insert", op |-> "create", actor |-> Creator, snap |-> None,
            next  |-> t,
            entry |-> [action |-> "created", ref |-> 0, old |-> None,
                       new |-> "created", by |-> Creator],
            notes |-> NoteToAssignee("task_assigned", t, 0),
            index |-> 0]]
  /\ Unchanged

\* UpdateTaskStatusUseCase up to the update.
ReadForStatus(h, actor, requested) ==
  /\ IsIdle(h) /\ "status" \in Ops
  /\ Writable
  /\ StatusAllowed(actor, requested, task)
  /\ LET next == StatusWrite(actor, requested, task)
     IN  Hold(h, "status", actor, next,
              [action |-> IF next.status = "in_review" THEN "review_requested"
                                                       ELSE "status_changed",
               ref |-> next.version, old |-> task.status, new |-> next.status,
               by |-> actor],
              NotesTo("task_status", next, actor, next.version))
  /\ Unchanged

\* ReportTaskBlockerUseCase up to the update.
ReadForBlocker(h, actor) ==
  /\ IsIdle(h) /\ "block" \in Ops
  /\ Writable /\ comments < MaxComments
  /\ BlockerAllowed(actor, task)
  /\ LET next == ApplyBlocker(task)
     IN  Hold(h, "block", actor, next,
              [action |-> "blocked", ref |-> next.version, old |-> task.status,
               new |-> "blocked", by |-> actor],
              NoteToCreator("task_blocked", next, actor, next.version))
  /\ Unchanged

\* ReassignTaskUseCase up to the update; the resolver's answer is res.
ReadForReassign(h, actor, res) ==
  /\ IsIdle(h) /\ "reassign" \in Ops
  /\ Writable
  /\ ReassignAllowed(actor, task)
  /\ LET next == Reassigned(task, res[1], res[2])
     IN  Hold(h, "reassign", actor, next,
              [action |-> "reassigned", ref |-> next.version, old |-> task.status,
               new |-> next.status, by |-> actor],
              NoteToAssignee("task_reassigned", next, next.version))
  /\ Unchanged

\* AddTaskCommentUseCase up to the insert of the comment.
ReadForComment(h, actor) ==
  /\ IsIdle(h) /\ "comment" \in Ops
  /\ task # None /\ comments < MaxComments
  /\ Participates(actor, task)
  /\ proc' = [proc EXCEPT ![h] = [Idle EXCEPT !.pc = "comment", !.op = "comment",
                                              !.actor = actor, !.snap = task]]
  /\ Unchanged

\* recover_pending_assignments lists the open tasks of the employee the actor
\* has just been linked to.
ListForRecovery(h, acc) ==
  /\ IsIdle(h) /\ "link" \in Ops
  /\ Writable
  /\ ShouldLinkTask(task, acc[2])
  /\ LET next == LinkRegisteredAssignee(task, acc[1])
     IN  Hold(h, "link", acc[1], next,
              [action |-> "assigned", ref |-> next.version, old |-> task.status,
               new |-> task.status, by |-> acc[1]],
              NoteToAssignee("task_assigned", next, 0))
  /\ Unchanged

\* deliver_single of the notification job loads the related task; one batch
\* holds a notification once, and batches do not overlap.
LoadForDelivery(h, i) ==
  /\ IsIdle(h) /\ "deliver" \in Ops
  /\ notifications[i].state = "pending"
  /\ \A g \in Handlers : proc[g].pc # "idle" /\ proc[g].op = "deliver"
                         => proc[g].index # i
  /\ proc' = [proc EXCEPT ![h] = [Idle EXCEPT !.pc = "send", !.op = "deliver",
                                              !.snap = task, !.index = i]]
  /\ Unchanged

\* The row is missing, or the policy or the state machine refuses: an error
\* goes back to the chat and nothing has been stored.
Refuse(h, actor, requested) ==
  /\ IsIdle(h)
  /\ \/ task = None
     \/ task # None /\ ~StatusAllowed(actor, requested, task)
  /\ UNCHANGED vars

-----------------------------------------------------------------------------
(* Storing *)

\* create_if_absent: INSERT OR IGNORE on source_message_key.
Insert(h) ==
  /\ proc[h].pc = "insert"
  /\ \/ /\ task = None
        /\ task' = proc[h].next
        /\ happened' = happened \cup {proc[h].entry}
        /\ Goto(h, "audit")
     \/ /\ task # None       \* DuplicateFound
        /\ Finish(h)
        /\ UNCHANGED <<task, happened>>
  /\ UNCHANGED <<audit, comments, notifications, faults>>

\* An UPDATE without AND version = ?, for a mutant.
VersionMatchesAny(h) == task # None

\* The WHERE clause of TaskRepository::update.
VersionMatches(h) == task.version = proc[h].next.version - 1

\* TaskRepository::update finds the version it expects.
Save(h) ==
  /\ proc[h].pc = "save"
  /\ VersionMatches(h)
  /\ task' = proc[h].next
  /\ happened' = happened \cup {proc[h].entry}
  /\ Goto(h, IF proc[h].op = "block" THEN "comment" ELSE "audit")
  /\ UNCHANGED <<audit, comments, notifications, faults>>

\* The conflict is taken for a success, for a mutant.
ConflictIgnored(h) ==
  /\ proc[h].pc = "save"
  /\ ~VersionMatches(h)
  /\ Goto(h, "audit")
  /\ Unchanged

\* TASK_VERSION_CONFLICT: the first attempt to link reads again, any other
\* handler gives up.
Conflict(h) ==
  /\ proc[h].pc = "save"
  /\ ~VersionMatches(h)
  /\ IF proc[h].op = "link" THEN Goto(h, "reread") ELSE Finish(h)
  /\ Unchanged

\* retry_link_after_conflict, up to its second and last update.
RetryLink(h) ==
  /\ proc[h].pc = "reread"
  /\ \/ /\ ShouldLinkTask(task, proc[h].snap.employee)
        /\ task.version < MaxVersion
        /\ LET next == LinkRegisteredAssignee(task, proc[h].actor)
           IN  Hold(h, "relink", proc[h].actor, next,
                    [action |-> "assigned", ref |-> next.version,
                     old |-> task.status, new |-> task.status,
                     by |-> proc[h].actor],
                    NoteToAssignee("task_assigned", next, 0))
     \/ /\ ~(ShouldLinkTask(task, proc[h].snap.employee) /\ task.version < MaxVersion)
        /\ Finish(h)
  /\ Unchanged

\* CommentRepository::create, for a comment and for a blocker's reason.
CreateComment(h) ==
  /\ proc[h].pc = "comment"
  /\ comments' = comments + 1
  /\ IF proc[h].op = "block"
     THEN Goto(h, "audit") /\ UNCHANGED happened
     ELSE LET entry == [action |-> "commented", ref |-> comments + 1, old |-> None,
                        new |-> None, by |-> proc[h].actor]
          IN  /\ proc' = [proc EXCEPT
                   ![h].pc = "audit", ![h].entry = entry,
                   ![h].notes = NotesTo("task_comment", proc[h].snap,
                                        proc[h].actor, comments + 1)]
              /\ happened' = happened \cup {entry}
  /\ UNCHANGED <<task, audit, notifications, faults>>

\* The delivery job skips its entry, for a mutant.
AppendAuditOfRequests(h) ==
  /\ proc[h].pc = "audit"
  /\ audit' = IF proc[h].op = "deliver" THEN audit ELSE audit \cup {proc[h].entry}
  /\ CASE proc[h].op = "deliver"            -> Finish(h)
       [] proc[h].op \in {"link", "relink"} -> Goto(h, "ensure")
       [] OTHER                             -> Goto(h, "notify")
  /\ UNCHANGED <<task, comments, notifications, happened, faults>>

\* AuditLogRepository::append.  The delivery job has nothing left to do, a
\* recovery looks for an earlier notification first.
AppendAudit(h) ==
  /\ proc[h].pc = "audit"
  /\ audit' = audit \cup {proc[h].entry}
  /\ CASE proc[h].op = "deliver"            -> Finish(h)
       [] proc[h].op \in {"link", "relink"} -> Goto(h, "ensure")
       [] OTHER                             -> Goto(h, "notify")
  /\ UNCHANGED <<task, comments, notifications, happened, faults>>

-----------------------------------------------------------------------------
(* Notifying *)

\* NotificationRepository::enqueue, once per recipient.
Enqueue(h) ==
  /\ proc[h].pc = "notify"
  /\ \/ /\ proc[h].notes # <<>>
        /\ notifications' = Enqueued(notifications, Head(proc[h].notes),
                                     proc[h].entry.ref)
        /\ proc' = [proc EXCEPT ![h].notes = Tail(@)]
     \/ /\ proc[h].notes = <<>>
        /\ Finish(h)
        /\ UNCHANGED notifications
  /\ UNCHANGED <<task, audit, comments, happened, faults>>

\* ensure_assignment_notification looks at the latest assignment notification
\* of the recipient: keep it, queue it again, or enqueue the first one.
EnsureNotification(h) ==
  /\ proc[h].pc = "ensure"
  /\ LET rows == AssignmentRows(proc[h].actor)
     IN  \/ rows = {} /\ Goto(h, "notify")
         \/ \E i \in rows :
              /\ \A j \in rows : j <= i
              /\ IF notifications[i].state = "failed"
                 THEN proc' = [proc EXCEPT ![h].pc = "requeue", ![h].index = i]
                 ELSE Finish(h)
  /\ Unchanged

\* NotificationRepository::requeue.
Requeue(h) ==
  /\ proc[h].pc = "requeue"
  /\ notifications' = [notifications EXCEPT ![proc[h].index].state = "pending",
                                            ![proc[h].index].at = proc[h].entry.ref]
  /\ Finish(h)
  /\ UNCHANGED <<task, audit, comments, happened, faults>>

-----------------------------------------------------------------------------
(* Delivering *)

\* mark_related_task_as_sent whatever the type, for a mutant.
MarksTaskSentAnyType(i, t) == t # None /\ SentAllowed(t)

\* mark_related_task_as_sent goes on to write.
MarksTaskSent(i, t) ==
  IsAssignment(notifications[i].key) /\ t # None /\ SentAllowed(t)

\* The message is out and mark_sent has recorded it.
DeliverySucceeds(h) ==
  LET i == proc[h].index
      t == proc[h].snap
      next == TransitionTo(t, "sent")
  IN  /\ proc[h].pc = "send"
      /\ notifications' = [notifications EXCEPT ![i].state = "sent", ![i].is_sent = TRUE]
      /\ \/ /\ MarksTaskSent(i, t)
            /\ t.version < MaxVersion
            /\ proc' = [proc EXCEPT ![h].pc = "save", ![h].next = next,
                  ![h].entry = [action |-> "sent", ref |-> next.version,
                                old |-> "created", new |-> "sent", by |-> None]]
         \/ /\ ~MarksTaskSent(i, t)
            /\ Finish(h)
      /\ UNCHANGED <<task, audit, comments, happened, faults>>

\* A permanent error, or the last attempt of a transient one.
DeliveryFails(h) ==
  /\ proc[h].pc = "send"
  /\ notifications' = [notifications EXCEPT ![proc[h].index].state = "failed"]
  /\ Finish(h)
  /\ UNCHANGED <<task, audit, comments, happened, faults>>

\* A transient error: the notification stays queued for a later batch.
DeliveryIsPostponed(h) ==
  /\ proc[h].pc = "send"
  /\ Finish(h)
  /\ Unchanged

-----------------------------------------------------------------------------
\* A call returns an error, or the process stops.
Fail(h) ==
  /\ ~IsIdle(h)
  /\ faults < MaxFaults
  /\ faults' = faults + 1
  /\ Finish(h)
  /\ UNCHANGED <<task, audit, comments, notifications, happened>>

Read(h) ==
  \/ \E res \in Resolutions : ReadForCreate(h, res)
  \/ \E actor \in Users, requested \in Requestable :
       ReadForStatus(h, actor, requested) \/ Refuse(h, actor, requested)
  \/ \E actor \in Users : ReadForBlocker(h, actor) \/ ReadForComment(h, actor)
  \/ \E actor \in Users, res \in Resolutions : ReadForReassign(h, actor, res)
  \/ \E acc \in Accounts : ListForRecovery(h, acc)
  \/ \E i \in DOMAIN notifications : LoadForDelivery(h, i)

Continue(h) ==
  \/ Insert(h) \/ Save(h) \/ Conflict(h) \/ RetryLink(h) \/ CreateComment(h)
  \/ AppendAudit(h) \/ Enqueue(h) \/ EnsureNotification(h) \/ Requeue(h)
  \/ DeliverySucceeds(h) \/ DeliveryFails(h) \/ DeliveryIsPostponed(h)

Next == \E h \in Handlers : Read(h) \/ Continue(h) \/ Fail(h)

Spec == Init /\ [][Next]_vars

-----------------------------------------------------------------------------
(* Properties *)

\* Every variable holds what its table or its handler can hold.
TypeOK ==
  /\ task \in Task \cup {None}
  /\ audit \subseteq Entry
  /\ comments \in Nat
  /\ notifications \in Seq(Notification)
  /\ proc \in [Handlers -> Handler]
  /\ happened \subseteq Entry
  /\ faults \in Nat

\* The row changes only by steps some actor was allowed to take on the row as
\* it was when the write landed, although every handler decides on a copy it
\* read earlier: the version test of TaskRepository::update makes the handlers
\* atomic (docs/memory.md, "Optimistic locking on tasks").
Board == INSTANCE TaskBoard WITH row <- task
ImplementsBoard == Board!Spec

\* A completed or cancelled task is final: no handler that read it while it was
\* open, no late delivery and no recovery of a registering assignee changes any
\* field of it.
TerminalFrozen ==
  [][task # None /\ IsTerminal(task.status) => task' = task]_vars

\* The versions at which the task was given to an assignee.
Assignments ==
  {e.ref : e \in {x \in happened : x.action \in {"created", "reassigned"}}}

\* Reassignment starts clean (docs/memory.md, "Reassignment resets
\* work-specific lifecycle"): no timestamp of the row is older than the latest
\* reassignment, whichever handlers were under way when it happened.
NoInheritedProgress ==
  task # None =>
    \A s \in StampedStatus, v \in Assignments :
      task.stamps[s] > 0 => task.stamps[s] > v

\* The card of a task shows a blocker exactly while the task is blocked.
BlockedHasReason == task # None => (task.status = "blocked" <=> task.reason = "given")

\* Completion is approved by the creator or by a manager or an admin, out of
\* review when somebody else did the work: an assignee never closes the own
\* work, even when the task changes hands between the click and the write.
OnlyApproversComplete ==
  \A e \in happened :
    e.new = "completed" => /\ e.by = Creator \/ IsManagerOrAdmin(e.by)
                           /\ e.old = "in_review"

\* The audit log tells of nothing that did not happen: an entry is appended
\* only for a change that was stored, with the statuses it had.
AuditFaithful == audit \subseteq happened

\* The entries of changes that are stored but not yet logged.
Owed ==
  {proc[h].entry : h \in {g \in Handlers :
     \/ proc[g].pc = "audit"
     \/ proc[g].pc = "comment" /\ proc[g].op = "block"}}

\* As long as no handler is cut short, the audit log misses nothing but the
\* changes whose handlers are about to append.
AuditComplete == faults = 0 => happened \ audit = Owed

\* A task is never marked sent without a delivery: while it is in status sent,
\* some assignment notification of it has been delivered, if only to somebody
\* it was taken from since, and even if the notification is queued once more.
SentHasEvidence ==
  task # None /\ task.status = "sent" =>
    \E i \in DOMAIN notifications :
      IsAssignment(notifications[i].key) /\ notifications[i].is_sent

\* The account a task is assigned to belongs to the directory record it is
\* assigned to: a recovery that races a reassignment never leaves the account
\* of one person with the record of another.
AssigneeMatchesDirectory ==
  task # None /\ task.user # None /\ task.employee # None =>
    <<task.user, task.employee>> \in Resolutions \cup Accounts

AllIdle == \A h \in Handlers : IsIdle(h)

\* When no handler is cut short, an account that holds a task has an assignment
\* notification of it once all handlers are done, whether the account came with
\* the creation, by reassignment or by registering later.
AssigneeNotified ==
  /\ AllIdle /\ faults = 0
  /\ task # None /\ task.user # None
  => \E i \in DOMAIN notifications :
       IsAssignment(notifications[i].key) /\ notifications[i].key.to = task.user

=============================================================================
