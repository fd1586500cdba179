------------------------- MODULE TaskWorkflowProofs -------------------------
(***************************************************************************)
(* Theorems about TaskWorkflow, and the cards of TaskCards, for any number *)
(* of handlers, users and directory records and any bounds.                *)
(***************************************************************************)
EXTENDS TaskCards, TaskLifecycleProofs, SequenceTheorems

-----------------------------------------------------------------------------
(* Types *)

\* A notification list built from one optional recipient.
LEMMA NoteToType ==
  ASSUME NEW user \in Users \cup {None}, NEW actor, NEW ref \in Nat,
         NEW kind \in {"task_assigned", "task_reassigned", "task_status",
                       "task_blocked", "task_comment"}
  PROVE  NoteTo(user, kind, actor, ref) \in Seq(Note)
<1>1. CASE user \in {None, actor}
  BY <1>1 DEF NoteTo
<1>2. CASE user \notin {None, actor}
  <2>1. [kind |-> kind, to |-> user, ref |-> ref] \in Note
    BY <1>2 DEF Note
  <2> QED
    BY <1>2, <2>1 DEF NoteTo
<1> QED
  BY <1>1, <1>2

\* The notification lists of the use cases.
LEMMA NotesType ==
  ASSUME NEW t \in Task, NEW actor, NEW ref \in Nat,
         NEW kind \in {"task_assigned", "task_reassigned", "task_status",
                       "task_blocked", "task_comment"}
  PROVE  /\ NotesTo(kind, t, actor, ref) \in Seq(Note)
         /\ NoteToAssignee(kind, t, ref) \in Seq(Note)
         /\ NoteToCreator(kind, t, actor, ref) \in Seq(Note)
<1>1. t.creator \in Users \cup {None} /\ t.user \in Users \cup {None}
  BY DEF Task
<1>2. /\ NoteTo(t.creator, kind, actor, ref) \in Seq(Note)
      /\ NoteTo(t.user, kind, actor, ref) \in Seq(Note)
      /\ NoteTo(t.user, kind, None, ref) \in Seq(Note)
  BY <1>1, NoteToType
<1> QED
  BY <1>2, ConcatProperties DEF NotesTo, NoteToAssignee, NoteToCreator

\* One field of what a handler holds may be overwritten with a value of its type.
LEMMA HandlerExcept ==
  ASSUME NEW p \in Handler
  PROVE  /\ \A x \in Step : [p EXCEPT !.pc = x] \in Handler
         /\ \A x \in Operation : [p EXCEPT !.op = x] \in Handler
         /\ \A x \in Users \cup {None} : [p EXCEPT !.actor = x] \in Handler
         /\ \A x \in Task \cup {None} : [p EXCEPT !.snap = x] \in Handler
         /\ \A x \in Task \cup {None} : [p EXCEPT !.next = x] \in Handler
         /\ \A x \in Entry : [p EXCEPT !.entry = x] \in Handler
         /\ \A x \in Seq(Note) : [p EXCEPT !.notes = x] \in Handler
         /\ \A x \in Nat : [p EXCEPT !.index = x] \in Handler
<1>1. \A x \in Step : [p EXCEPT !.pc = x] \in Handler
  BY DEF Handler
<1>2. \A x \in Operation : [p EXCEPT !.op = x] \in Handler
  BY DEF Handler
<1>3. \A x \in Users \cup {None} : [p EXCEPT !.actor = x] \in Handler
  BY DEF Handler
<1>4. \A x \in Task \cup {None} : [p EXCEPT !.snap = x] \in Handler
  BY DEF Handler
<1>5. \A x \in Task \cup {None} : [p EXCEPT !.next = x] \in Handler
  BY DEF Handler
<1>6. \A x \in Entry : [p EXCEPT !.entry = x] \in Handler
  BY DEF Handler
<1>7. \A x \in Seq(Note) : [p EXCEPT !.notes = x] \in Handler
  BY DEF Handler
<1>8. \A x \in Nat : [p EXCEPT !.index = x] \in Handler
  BY DEF Handler
<1> QED
  BY <1>1, <1>2, <1>3, <1>4, <1>5, <1>6, <1>7, <1>8

\* An idle handler holds nothing.
LEMMA IdleType == Idle \in Handler
<1>1. NoEntry \in Entry
  BY DEF NoEntry, Entry
<1>2. <<>> \in Seq(Note)
  BY EmptySeq
<1> QED
  BY <1>1, <1>2 DEF Idle, Handler, Step, Operation

\* A handler that returns, or goes on with one of its fields changed, keeps its
\* type, and so do the others.
LEMMA ProcExcept ==
  ASSUME proc \in [Handlers -> Handler], NEW h \in Handlers, NEW p \in Handler
  PROVE  [proc EXCEPT ![h] = p] \in [Handlers -> Handler]
OBVIOUS

LEMMA FinishType ==
  ASSUME TypeOK, NEW h \in Handlers, Finish(h)
  PROVE  proc' \in [Handlers -> Handler]
BY IdleType, ProcExcept DEF TypeOK, Finish

LEMMA GotoType ==
  ASSUME TypeOK, NEW h \in Handlers, NEW step \in Step, Goto(h, step)
  PROVE  proc' \in [Handlers -> Handler]
<1>1. [proc[h] EXCEPT !.pc = step] \in Handler
  BY HandlerExcept DEF TypeOK
<1> QED
  BY <1>1 DEF TypeOK, Goto

\* A handler that has read the row is well formed if its parts are.
LEMMA HoldType ==
  ASSUME TypeOK, NEW h \in Handlers, NEW op \in Operation,
         NEW actor \in Users \cup {None}, NEW next \in Task, NEW entry \in Entry,
         NEW notes \in Seq(Note), Hold(h, op, actor, next, entry, notes)
  PROVE  proc' \in [Handlers -> Handler]
BY ProcExcept DEF TypeOK, Hold, Handler, Step

\* Overwriting a field of one row of notifications keeps the table well formed.
LEMMA NotificationsExcept ==
  ASSUME NEW rows \in Seq(Notification), NEW i
  PROVE  /\ \A x \in {"pending", "sent", "failed"} :
              [rows EXCEPT ![i].state = x] \in Seq(Notification)
         /\ \A x \in Nat : [rows EXCEPT ![i].at = x] \in Seq(Notification)
         /\ [rows EXCEPT ![i].is_sent = TRUE] \in Seq(Notification)
<1>1. DOMAIN rows = 1 .. Len(rows)
  BY LenProperties
<1>2. CASE i \in 1 .. Len(rows)
  <2>1. rows[i] \in Notification
    BY <1>2, ElementOfSeq
  <2>2. \A x \in {"pending", "sent", "failed"} :
          [rows[i] EXCEPT !.state = x] \in Notification
    BY <2>1 DEF Notification
  <2>3. \A x \in Nat : [rows[i] EXCEPT !.at = x] \in Notification
    BY <2>1 DEF Notification
  <2>4. [rows[i] EXCEPT !.is_sent = TRUE] \in Notification
    BY <2>1 DEF Notification
  <2> QED
    BY <1>2, <2>2, <2>3, <2>4, ExceptSeq
<1>3. CASE i \notin 1 .. Len(rows)
  <2>1. rows = [j \in 1 .. Len(rows) |-> rows[j]]
    BY <1>1, LenProperties
  <2>2. ASSUME NEW x
        PROVE  /\ [rows EXCEPT ![i].state = x] = rows
               /\ [rows EXCEPT ![i].at = x] = rows
               /\ [rows EXCEPT ![i].is_sent = x] = rows
    BY <1>1, <1>3, <2>1
  <2> QED
    BY <2>2
<1> QED
  BY <1>2, <1>3

-----------------------------------------------------------------------------
(* The inductive invariant *)

\* What the entry of a handler about to store says of the row it will store.
Described(p) ==
  /\ p.entry.action # "created"
  /\ p.entry.action = "reassigned" =>
       p.entry.ref = p.next.version /\ p.next.stamps = NoStamps
  /\ p.entry.new = "completed" =>
       /\ p.entry.by = Creator \/ IsManagerOrAdmin(p.entry.by)
       /\ p.entry.old = "in_review"

\* A handler holding p while the row is t and the changes in entries have
\* happened.  The copy it read is the row of that version, so that a matching
\* version at the write proves the copy current; what it will store is a legal
\* step from that copy; what it will log has happened.
Sound(p, t, entries) ==
  /\ p.snap # None =>
       /\ t \in Task
       /\ p.snap.version <= t.version
       /\ p.snap.version = t.version => p.snap = t
       /\ p.snap.creator = Creator
  /\ p.pc \in {"save", "reread", "comment"} => p.snap # None
  /\ p.pc = "send" => p.op = "deliver"
  /\ p.pc = "insert" =>
       /\ \E res \in Resolutions : p.next = NewTask(Creator, res[1], res[2])
       /\ p.entry.ref = 0 /\ p.entry.new = "created"
  /\ p.pc = "save" =>
       /\ LegalStep(p.snap, p.next)
       /\ Described(p)
  /\ p.pc = "reread" \/ (p.pc = "save" /\ p.op = "link") =>
       <<p.actor, p.snap.employee>> \in Accounts
  /\ p.pc = "audit" \/ (p.pc = "comment" /\ p.op = "block") => p.entry \in entries

\* What holds of the row itself.
RowInv ==
  /\ task # None =>
       /\ task.creator = Creator
       /\ \A s \in StampedStatus : task.stamps[s] <= task.version
       /\ \A v \in Assignments : v <= task.version
  /\ task = None => Assignments = {}
  /\ BlockedHasReason
  /\ AssigneeMatchesDirectory
  /\ NoInheritedProgress

IInv ==
  /\ TypeOK
  /\ AuditFaithful
  /\ OnlyApproversComplete
  /\ RowInv
  /\ \A h \in Handlers : Sound(proc[h], task, happened)

-----------------------------------------------------------------------------
(* Type correctness, one lemma per group of actions *)

\* What a use case computes from the row it has read is well formed.
LEMMA WritesAreTasks ==
  ASSUME NEW t \in Task
  PROVE  /\ \A actor \in Users, requested \in Requestable :
              StatusAllowed(actor, requested, t)
              => StatusWrite(actor, requested, t) \in Task
         /\ \A actor \in Users : ApplyBlocker(t) \in Task
         /\ \A res \in Resolutions : Reassigned(t, res[1], res[2]) \in Task
         /\ \A acc \in Accounts : LinkRegisteredAssignee(t, acc[1]) \in Task
         /\ TransitionTo(t, "sent") \in Task
<1>1. ASSUME NEW actor \in Users, NEW requested \in Requestable,
             StatusAllowed(actor, requested, t)
      PROVE  StatusWrite(actor, requested, t) \in Task
  <2> DEFINE next == NormalizeRequestedStatus(actor, t, requested)
  <2>1. CanTransitionTo(t.status, next)
    BY <1>1 DEF StatusAllowed
  <2>2. StatusWrite(actor, requested, t) = TransitionTo(t, next)
    BY DEF StatusWrite
  <2> HIDE DEF next
  <2> QED
    BY <2>1, <2>2, EdgesLeaveOpenStatus, TransitionToFacts
<1>2. ApplyBlocker(t) \in Task
  BY ApplyBlockerFacts
<1>3. \A res \in Resolutions : Reassigned(t, res[1], res[2]) \in Task
  <2> TAKE res \in Resolutions
  <2>1. res[1] \in Users \cup {None} /\ res[2] \in Employees \cup {None}
    BY ResolutionsAssumption
  <2> QED
    BY <2>1, ReassignedFacts
<1>4. \A acc \in Accounts : LinkRegisteredAssignee(t, acc[1]) \in Task
  <2> TAKE acc \in Accounts
  <2>1. acc[1] \in Users
    BY AccountsAssumption
  <2> QED
    BY <2>1, LinkFacts
<1>5. TransitionTo(t, "sent") \in Task
  BY TransitionToFacts DEF StampedStatus, TaskStatus
<1> QED
  BY <1>1, <1>2, <1>3, <1>4, <1>5

\* The handlers that read the row take well-formed rows, entries and lists.
LEMMA ReadType ==
  ASSUME TypeOK, NEW h \in Handlers, Read(h)
  PROVE  TypeOK'
<1> USE DEF TypeOK
<1>1. ASSUME NEW res \in Resolutions, ReadForCreate(h, res)
      PROVE  TypeOK'
  <2> DEFINE t == NewTask(Creator, res[1], res[2])
             entry == [action |-> "created", ref |-> 0, old |-> None,
                       new |-> "created", by |-> Creator]
             notes == NoteToAssignee("task_assigned", t, 0)
             p == [pc |-> "insert", op |-> "create", actor |-> Creator, snap |-> None,
                   next |-> t, entry |-> entry, notes |-> notes, index |-> 0]
  <2>1. t \in Task
    BY NewTaskIsTask, CreatorAssumption
  <2>2. entry \in Entry
    BY CreatorAssumption DEF Entry, TaskStatus
  <2> HIDE DEF t
  <2>3. notes \in Seq(Note)
    BY <2>1, NotesType
  <2> HIDE DEF entry, notes
  <2>4. p \in Handler
    BY <2>1, <2>2, <2>3, CreatorAssumption DEF Handler, Step, Operation
  <2>5. proc' = [proc EXCEPT ![h] = p]
    BY <1>1 DEF ReadForCreate, entry, notes, t
  <2> HIDE DEF p
  <2> QED
    BY <1>1, <2>4, <2>5, ProcExcept DEF ReadForCreate, Unchanged
<1>2. ASSUME NEW actor \in Users, NEW requested \in Requestable,
             ReadForStatus(h, actor, requested)
      PROVE  TypeOK'
  <2> DEFINE next == StatusWrite(actor, requested, task)
             entry == [action |-> IF next.status = "in_review" THEN "review_requested"
                                                               ELSE "status_changed",
                       ref |-> next.version, old |-> task.status,
                       new |-> next.status, by |-> actor]
             notes == NotesTo("task_status", next, actor, next.version)
  <2>1. task \in Task
    BY <1>2 DEF ReadForStatus, Writable
  <2>2. next \in Task
    BY <1>2, <2>1, WritesAreTasks DEF ReadForStatus
  <2>3. Hold(h, "status", actor, next, entry, notes)
    BY <1>2 DEF ReadForStatus
  <2> HIDE DEF next
  <2>4. entry \in Entry
    BY <2>1, <2>2 DEF Entry, Task
  <2>5. notes \in Seq(Note)
    BY <2>2, NotesType DEF Task
  <2> HIDE DEF entry, notes
  <2> QED
    BY <1>2, <2>2, <2>3, <2>4, <2>5, HoldType DEF ReadForStatus, Unchanged, Operation
<1>3. ASSUME NEW actor \in Users, ReadForBlocker(h, actor)
      PROVE  TypeOK'
  <2> DEFINE next == ApplyBlocker(task)
             entry == [action |-> "blocked", ref |-> next.version, old |-> task.status,
                       new |-> "blocked", by |-> actor]
             notes == NoteToCreator("task_blocked", next, actor, next.version)
  <2>1. task \in Task
    BY <1>3 DEF ReadForBlocker, Writable
  <2>2. next \in Task
    BY <2>1, WritesAreTasks
  <2>3. Hold(h, "block", actor, next, entry, notes)
    BY <1>3 DEF ReadForBlocker
  <2> HIDE DEF next
  <2>4. entry \in Entry
    BY <2>1, <2>2 DEF Entry, Task, TaskStatus
  <2>5. notes \in Seq(Note)
    BY <2>2, NotesType DEF Task
  <2> HIDE DEF entry, notes
  <2> QED
    BY <1>3, <2>2, <2>3, <2>4, <2>5, HoldType DEF ReadForBlocker, Unchanged, Operation
<1>4. ASSUME NEW actor \in Users, NEW res \in Resolutions,
             ReadForReassign(h, actor, res)
      PROVE  TypeOK'
  <2> DEFINE next == Reassigned(task, res[1], res[2])
             entry == [action |-> "reassigned", ref |-> next.version,
                       old |-> task.status, new |-> next.status, by |-> actor]
             notes == NoteToAssignee("task_reassigned", next, next.version)
  <2>1. task \in Task
    BY <1>4 DEF ReadForReassign, Writable
  <2>2. next \in Task
    BY <2>1, WritesAreTasks
  <2>3. Hold(h, "reassign", actor, next, entry, notes)
    BY <1>4 DEF ReadForReassign
  <2> HIDE DEF next
  <2>4. entry \in Entry
    BY <2>1, <2>2 DEF Entry, Task
  <2>5. notes \in Seq(Note)
    BY <2>2, NotesType DEF Task
  <2> HIDE DEF entry, notes
  <2> QED
    BY <1>4, <2>2, <2>3, <2>4, <2>5, HoldType DEF ReadForReassign, Unchanged, Operation
<1>5. ASSUME NEW actor \in Users, ReadForComment(h, actor)
      PROVE  TypeOK'
  <2> DEFINE p == [Idle EXCEPT !.pc = "comment", !.op = "comment",
                               !.actor = actor, !.snap = task]
  <2>1. p \in Handler
    <3> DEFINE a == [Idle EXCEPT !.pc = "comment"]
               b == [a EXCEPT !.op = "comment"]
               c == [b EXCEPT !.actor = actor]
    <3>1. a \in Handler
      BY IdleType, HandlerExcept DEF Step
    <3>2. b \in Handler
      BY <3>1, HandlerExcept DEF Operation
    <3>3. c \in Handler
      BY <3>2, HandlerExcept
    <3> QED
      BY <3>3, HandlerExcept
  <2> QED
    BY <1>5, <2>1, ProcExcept DEF ReadForComment, Unchanged
<1>6. ASSUME NEW acc \in Accounts, ListForRecovery(h, acc)
      PROVE  TypeOK'
  <2> DEFINE next == LinkRegisteredAssignee(task, acc[1])
             entry == [action |-> "assigned", ref |-> next.version,
                       old |-> task.status, new |-> task.status, by |-> acc[1]]
             notes == NoteToAssignee("task_assigned", next, 0)
  <2>1. task \in Task /\ acc[1] \in Users
    BY <1>6, AccountsAssumption DEF ListForRecovery, Writable
  <2>2. next \in Task
    BY <2>1, WritesAreTasks
  <2>3. Hold(h, "link", acc[1], next, entry, notes)
    BY <1>6 DEF ListForRecovery
  <2> HIDE DEF next
  <2>4. entry \in Entry
    BY <2>1, <2>2 DEF Entry, Task
  <2>5. notes \in Seq(Note)
    BY <2>2, NotesType
  <2> HIDE DEF entry, notes
  <2> QED
    BY <1>6, <2>1, <2>2, <2>3, <2>4, <2>5, HoldType
       DEF ListForRecovery, Unchanged, Operation
<1>7. ASSUME NEW i \in DOMAIN notifications, LoadForDelivery(h, i)
      PROVE  TypeOK'
  <2> DEFINE p == [Idle EXCEPT !.pc = "send", !.op = "deliver",
                               !.snap = task, !.index = i]
  <2>1. i \in Nat
    BY LenProperties
  <2>2. p \in Handler
    <3> DEFINE a == [Idle EXCEPT !.pc = "send"]
               b == [a EXCEPT !.op = "deliver"]
               c == [b EXCEPT !.snap = task]
    <3>1. a \in Handler
      BY IdleType, HandlerExcept DEF Step
    <3>2. b \in Handler
      BY <3>1, HandlerExcept DEF Operation
    <3>3. c \in Handler
      BY <3>2, HandlerExcept
    <3> QED
      BY <2>1, <3>3, HandlerExcept
  <2> QED
    BY <1>7, <2>2, ProcExcept DEF LoadForDelivery, Unchanged
<1>8. ASSUME NEW actor \in Users, NEW requested \in Requestable,
             Refuse(h, actor, requested)
      PROVE  TypeOK'
  BY <1>8 DEF Refuse, vars
<1> QED
  BY <1>1, <1>2, <1>3, <1>4, <1>5, <1>6, <1>7, <1>8 DEF Read

\* The handlers that store keep the tables well formed.
LEMMA StoreType ==
  ASSUME IInv, NEW h \in Handlers,
         Insert(h) \/ Save(h) \/ Conflict(h) \/ RetryLink(h) \/ CreateComment(h)
         \/ AppendAudit(h)
  PROVE  TypeOK'
<1> USE DEF TypeOK
<1>0. TypeOK /\ proc[h] \in Handler /\ Sound(proc[h], task, happened)
  BY DEF IInv
<1>1. CASE Insert(h)
  <2>1. proc[h].next \in Task \cup {None} /\ proc[h].entry \in Entry
    BY <1>0 DEF Handler
  <2>2. proc' \in [Handlers -> Handler]
    BY <1>0, <1>1, FinishType, GotoType DEF Insert, Step
  <2> QED
    BY <1>0, <1>1, <2>1, <2>2 DEF Insert
<1>2. CASE Save(h)
  <2>1. proc[h].next \in Task \cup {None} /\ proc[h].entry \in Entry
    BY <1>0 DEF Handler
  <2>2. proc' \in [Handlers -> Handler]
    BY <1>0, <1>2, GotoType DEF Save, Step
  <2> QED
    BY <1>0, <1>2, <2>1, <2>2 DEF Save
<1>3. CASE Conflict(h)
  <2>1. proc' \in [Handlers -> Handler]
    BY <1>0, <1>3, FinishType, GotoType DEF Conflict, Step
  <2> QED
    BY <1>0, <1>3, <2>1 DEF Conflict, Unchanged
<1>4. CASE RetryLink(h)
  <2> DEFINE next == LinkRegisteredAssignee(task, proc[h].actor)
             entry == [action |-> "assigned", ref |-> next.version,
                       old |-> task.status, new |-> task.status,
                       by |-> proc[h].actor]
             notes == NoteToAssignee("task_assigned", next, 0)
  <2>1. CASE Finish(h)
    BY <1>0, <1>4, <2>1, FinishType DEF RetryLink, Unchanged
  <2>2. CASE Hold(h, "relink", proc[h].actor, next, entry, notes)
    <3>1. task \in Task
      BY <1>0, <1>4 DEF Sound, RetryLink
    <3>2. proc[h].actor \in Users
      BY <1>0, <1>4, AccountsAssumption DEF Sound, RetryLink
    <3>3. next \in Task
      BY <3>1, <3>2, LinkFacts
    <3> HIDE DEF next
    <3>4. entry \in Entry
      BY <3>1, <3>2, <3>3 DEF Entry, Task
    <3>5. notes \in Seq(Note)
      BY <3>3, NotesType
    <3> HIDE DEF entry, notes
    <3> QED
      BY <1>0, <1>4, <2>2, <3>2, <3>3, <3>4, <3>5, HoldType
         DEF RetryLink, Unchanged, Operation
  <2> QED
    BY <1>4, <2>1, <2>2 DEF RetryLink
<1>5. CASE CreateComment(h)
  <2>1. CASE proc[h].op = "block"
    <3>1. proc' \in [Handlers -> Handler]
      BY <1>0, <1>5, <2>1, GotoType DEF CreateComment, Step
    <3> QED
      BY <1>0, <1>5, <2>1, <3>1 DEF CreateComment
  <2>2. CASE proc[h].op # "block"
    <3> DEFINE entry == [action |-> "commented", ref |-> comments + 1, old |-> None,
                         new |-> None, by |-> proc[h].actor]
               notes == NotesTo("task_comment", proc[h].snap, proc[h].actor,
                                comments + 1)
               a == [proc[h] EXCEPT !.pc = "audit"]
               b == [a EXCEPT !.entry = entry]
               c == [b EXCEPT !.notes = notes]
    <3>1. entry \in Entry
      BY <1>0 DEF Entry, Handler
    <3>2. proc[h].snap \in Task
      BY <1>0, <1>5 DEF Sound, CreateComment, Handler
    <3>3. notes \in Seq(Note)
      BY <1>0, <3>2, NotesType
    <3> HIDE DEF entry, notes
    <3>4. a \in Handler
      BY <1>0, HandlerExcept DEF Step
    <3>5. b \in Handler
      BY <3>1, <3>4, HandlerExcept
    <3>6. c \in Handler
      BY <3>3, <3>5, HandlerExcept
    <3>7. proc' = [proc EXCEPT ![h] = c] /\ happened' = happened \cup {entry}
      BY <1>0, <1>5, <2>2 DEF CreateComment, entry, notes
    <3> HIDE DEF c
    <3> QED
      BY <1>0, <1>5, <3>1, <3>6, <3>7, ProcExcept DEF CreateComment
  <2> QED
    BY <2>1, <2>2
<1>6. CASE AppendAudit(h)
  <2>1. proc' \in [Handlers -> Handler]
    BY <1>0, <1>6, FinishType, GotoType DEF AppendAudit, Step
  <2>2. proc[h].entry \in Entry
    BY <1>0 DEF Handler
  <2> QED
    BY <1>0, <1>6, <2>1, <2>2 DEF AppendAudit
<1> QED
  BY <1>1, <1>2, <1>3, <1>4, <1>5, <1>6

\* INSERT OR IGNORE keeps the table of notifications well formed.
LEMMA EnqueuedType ==
  ASSUME NEW rows \in Seq(Notification), NEW note \in Note, NEW at \in Nat
  PROVE  Enqueued(rows, note, at) \in Seq(Notification)
<1>1. [key |-> note, state |-> "pending", is_sent |-> FALSE, at |-> at] \in Notification
  BY DEF Notification
<1> QED
  BY <1>1 DEF Enqueued

\* The handlers that notify and deliver keep the tables well formed.
LEMMA NotifyType ==
  ASSUME IInv, NEW h \in Handlers,
         Enqueue(h) \/ EnsureNotification(h) \/ Requeue(h) \/ DeliverySucceeds(h)
         \/ DeliveryFails(h) \/ DeliveryIsPostponed(h) \/ Fail(h)
  PROVE  TypeOK'
<1> USE DEF TypeOK
<1>0. TypeOK /\ proc[h] \in Handler
  BY DEF IInv
<1>1. CASE Enqueue(h)
  <2>1. CASE proc[h].notes # <<>>
    <3> DEFINE p == [proc[h] EXCEPT !.notes = Tail(proc[h].notes)]
    <3>1. /\ Head(proc[h].notes) \in Note
          /\ Tail(proc[h].notes) \in Seq(Note)
          /\ proc[h].entry.ref \in Nat
      BY <1>0, <2>1, HeadTailProperties DEF Handler, Entry
    <3>2. p \in Handler
      BY <1>0, <3>1, HandlerExcept
    <3>3. notifications' = Enqueued(notifications, Head(proc[h].notes),
                                    proc[h].entry.ref)
      BY <1>1, <2>1 DEF Enqueue
    <3>4. notifications' \in Seq(Notification)
      BY <1>0, <3>1, <3>3, EnqueuedType
    <3>5. proc' = [proc EXCEPT ![h] = p]
      BY <1>0, <1>1, <2>1 DEF Enqueue
    <3> HIDE DEF p
    <3> QED
      BY <1>0, <1>1, <3>2, <3>4, <3>5, ProcExcept DEF Enqueue
  <2>2. CASE proc[h].notes = <<>>
    BY <1>0, <1>1, <2>2, FinishType DEF Enqueue
  <2> QED
    BY <2>1, <2>2
<1>2. CASE EnsureNotification(h)
  <2>1. CASE Goto(h, "notify") \/ Finish(h)
    BY <1>0, <1>2, <2>1, FinishType, GotoType DEF EnsureNotification, Unchanged, Step
  <2>2. CASE \E i \in AssignmentRows(proc[h].actor) :
               proc' = [proc EXCEPT ![h].pc = "requeue", ![h].index = i]
    <3>1. PICK i \in AssignmentRows(proc[h].actor) :
            proc' = [proc EXCEPT ![h].pc = "requeue", ![h].index = i]
      BY <2>2
    <3>2. i \in Nat
      BY <1>0, LenProperties DEF AssignmentRows
    <3> DEFINE a == [proc[h] EXCEPT !.pc = "requeue"]
               b == [a EXCEPT !.index = i]
    <3>3. a \in Handler
      BY <1>0, HandlerExcept DEF Step
    <3>4. b \in Handler
      BY <3>2, <3>3, HandlerExcept
    <3>5. proc' = [proc EXCEPT ![h] = b]
      BY <1>0, <3>1
    <3> HIDE DEF b
    <3> QED
      BY <1>0, <1>2, <3>4, <3>5, ProcExcept DEF EnsureNotification, Unchanged
  <2> QED
    BY <1>2, <2>1, <2>2 DEF EnsureNotification
<1>3. CASE Requeue(h)
  <2> DEFINE i == proc[h].index
             rows == [notifications EXCEPT ![i].state = "pending"]
  <2>1. proc[h].entry.ref \in Nat
    BY <1>0 DEF Handler, Entry
  <2>2. rows \in Seq(Notification)
    BY <1>0, NotificationsExcept
  <2>3. [rows EXCEPT ![i].at = proc[h].entry.ref] \in Seq(Notification)
    BY <2>1, <2>2, NotificationsExcept
  <2>4. notifications' = [rows EXCEPT ![i].at = proc[h].entry.ref]
    BY <1>3 DEF Requeue
  <2> HIDE DEF rows
  <2> QED
    BY <1>0, <1>3, <2>3, <2>4, FinishType DEF Requeue
<1>4. CASE DeliverySucceeds(h)
  <2> DEFINE i == proc[h].index
             t == proc[h].snap
             next == TransitionTo(t, "sent")
             entry == [action |-> "sent", ref |-> next.version, old |-> "created",
                       new |-> "sent", by |-> None]
             a == [proc[h] EXCEPT !.pc = "save"]
             b == [a EXCEPT !.next = next]
             c == [b EXCEPT !.entry = entry]
             rows == [notifications EXCEPT ![i].state = "sent"]
  <2>0. rows \in Seq(Notification)
    BY <1>0, NotificationsExcept
  <2>1. notifications' \in Seq(Notification)
    <3>1. notifications' = [rows EXCEPT ![i].is_sent = TRUE]
      BY <1>4 DEF DeliverySucceeds
    <3> HIDE DEF rows
    <3> QED
      BY <2>0, <3>1, NotificationsExcept
  <2>2. CASE Finish(h)
    BY <1>0, <1>4, <2>1, <2>2, FinishType DEF DeliverySucceeds
  <2>3. CASE MarksTaskSent(i, t) /\ proc' = [proc EXCEPT ![h].pc = "save",
               ![h].next = next, ![h].entry = entry]
    <3>1. t \in Task
      BY <1>0, <2>3 DEF MarksTaskSent, Handler
    <3>2. next \in Task
      BY <3>1, WritesAreTasks
    <3> HIDE DEF next
    <3>3. entry \in Entry
      BY <3>2 DEF Entry, Task, TaskStatus
    <3> HIDE DEF entry
    <3>4. a \in Handler
      BY <1>0, HandlerExcept DEF Step
    <3>5. b \in Handler
      BY <3>2, <3>4, HandlerExcept
    <3>6. c \in Handler
      BY <3>3, <3>5, HandlerExcept
    <3>7. proc' = [proc EXCEPT ![h] = c]
      BY <1>0, <2>3
    <3> HIDE DEF c
    <3> QED
      BY <1>0, <1>4, <2>1, <3>6, <3>7, ProcExcept DEF DeliverySucceeds
  <2> QED
    BY <1>4, <2>2, <2>3 DEF DeliverySucceeds
<1>5. CASE DeliveryFails(h)
  <2>1. notifications' \in Seq(Notification)
    BY <1>0, <1>5, NotificationsExcept DEF DeliveryFails
  <2> QED
    BY <1>0, <1>5, <2>1, FinishType DEF DeliveryFails
<1>6. CASE DeliveryIsPostponed(h)
  BY <1>0, <1>6, FinishType DEF DeliveryIsPostponed, Unchanged
<1>7. CASE Fail(h)
  BY <1>0, <1>7, FinishType DEF Fail
<1> QED
  BY <1>1, <1>2, <1>3, <1>4, <1>5, <1>6, <1>7

\* Every step keeps every variable well formed.
LEMMA NextType ==
  ASSUME IInv, Next
  PROVE  TypeOK'
BY ReadType, StoreType, NotifyType DEF Next, Continue, IInv

-----------------------------------------------------------------------------
(* What the handlers hold stays sound *)

\* An idle handler is sound whatever happens.
LEMMA IdleSound == \A t, entries : Sound(Idle, t, entries)
BY DEF Sound, Idle

\* What one handler does without touching the row or forgetting a change leaves
\* the others sound.
LEMMA SoundWithoutWrite ==
  ASSUME IInv, NEW h \in Handlers, NEW p,
         proc' = [proc EXCEPT ![h] = p],
         task' = task, happened \subseteq happened',
         Sound(p, task, happened')
  PROVE  \A g \in Handlers : Sound(proc'[g], task', happened')
<1> TAKE g \in Handlers
<1>1. CASE g = h
  BY <1>1 DEF IInv, TypeOK
<1>2. CASE g # h
  <2>1. proc'[g] = proc[g] /\ Sound(proc[g], task, happened)
    BY <1>2 DEF IInv, TypeOK
  <2> QED
    BY <2>1 DEF Sound
<1> QED
  BY <1>1, <1>2

\* In particular a handler that returns.
LEMMA SoundWhenFinished ==
  ASSUME IInv, NEW h \in Handlers, Finish(h), task' = task,
         happened \subseteq happened'
  PROVE  \A g \in Handlers : Sound(proc'[g], task', happened')
BY IdleSound, SoundWithoutWrite DEF Finish

\* A handler that has read the row and computed a legal step from it.
LEMMA SoundWhenHeld ==
  ASSUME IInv, NEW h \in Handlers, NEW op, NEW actor, NEW next, NEW entry, NEW notes,
         Hold(h, op, actor, next, entry, notes),
         task # None, LegalStep(task, next),
         entry.action # "created",
         entry.action = "reassigned" => entry.ref = next.version /\ next.stamps = NoStamps,
         entry.new = "completed" => /\ entry.by = Creator \/ IsManagerOrAdmin(entry.by)
                                    /\ entry.old = "in_review",
         op = "link" => <<actor, task.employee>> \in Accounts,
         UNCHANGED <<task, happened>>
  PROVE  \A g \in Handlers : Sound(proc'[g], task', happened')
<1> DEFINE p == [pc |-> "save", op |-> op, actor |-> actor, snap |-> task,
                 next |-> next, entry |-> entry, notes |-> notes, index |-> 0]
<1>1. task \in Task /\ task.creator = Creator /\ task.version <= task.version
  BY DEF IInv, TypeOK, RowInv, Task
<1>2. Sound(p, task, happened')
  BY <1>1 DEF Sound, Described
<1>3. proc' = [proc EXCEPT ![h] = p]
  BY DEF Hold
<1> HIDE DEF p
<1> QED
  BY <1>2, <1>3, SoundWithoutWrite

\* Reading leaves every handler sound.
LEMMA ReadSound ==
  ASSUME IInv, NEW h \in Handlers, Read(h)
  PROVE  \A g \in Handlers : Sound(proc'[g], task', happened')
<1>0. TypeOK /\ RowInv
  BY DEF IInv
<1>1. ASSUME NEW res \in Resolutions, ReadForCreate(h, res)
      PROVE  \A g \in Handlers : Sound(proc'[g], task', happened')
  <2> DEFINE t == NewTask(Creator, res[1], res[2])
             p == [pc |-> "insert", op |-> "create", actor |-> Creator, snap |-> None,
                   next  |-> t,
                   entry |-> [action |-> "created", ref |-> 0, old |-> None,
                              new |-> "created", by |-> Creator],
                   notes |-> NoteToAssignee("task_assigned", t, 0),
                   index |-> 0]
  <2>1. proc' = [proc EXCEPT ![h] = p] /\ UNCHANGED <<task, happened>>
    BY <1>1 DEF ReadForCreate, Unchanged
  <2>2. Sound(p, task, happened')
    BY DEF Sound
  <2> HIDE DEF p
  <2> QED
    BY <2>1, <2>2, SoundWithoutWrite
<1>2. ASSUME NEW actor \in Users, NEW requested \in Requestable,
             ReadForStatus(h, actor, requested)
      PROVE  \A g \in Handlers : Sound(proc'[g], task', happened')
  <2> DEFINE next == StatusWrite(actor, requested, task)
             status == NormalizeRequestedStatus(actor, task, requested)
             entry == [action |-> IF next.status = "in_review" THEN "review_requested"
                                                               ELSE "status_changed",
                       ref |-> next.version, old |-> task.status,
                       new |-> next.status, by |-> actor]
  <2>1. /\ task # None /\ task \in Task /\ task.creator = Creator
        /\ StatusAllowed(actor, requested, task)
    BY <1>0, <1>2 DEF ReadForStatus, Writable, TypeOK, RowInv
  <2>2. LegalStep(task, next)
    BY <2>1 DEF LegalStep, ChangeStatusStep
  <2>3. /\ next = TransitionTo(task, status)
        /\ status \in StampedStatus
        /\ status = "completed" => /\ actor = Creator \/ IsManagerOrAdmin(actor)
                                   /\ task.status = "in_review"
    BY <2>1, StatusAllowedFacts
  <2>4. /\ Hold(h, "status", actor, next, entry,
                NotesTo("task_status", next, actor, next.version))
        /\ UNCHANGED <<task, happened>>
    BY <1>2 DEF ReadForStatus, Unchanged
  <2> HIDE DEF next, status
  <2>5. next.status = status
    BY <2>1, <2>3, TransitionToFacts
  <2>6. /\ entry.action \notin {"created", "reassigned"}
        /\ entry.new = "completed" => /\ entry.by = Creator \/ IsManagerOrAdmin(entry.by)
                                      /\ entry.old = "in_review"
    BY <2>3, <2>5
  <2> HIDE DEF entry
  <2> QED
    BY <2>1, <2>2, <2>4, <2>6, "status" # "link", SoundWhenHeld
<1>3. ASSUME NEW actor \in Users, ReadForBlocker(h, actor)
      PROVE  \A g \in Handlers : Sound(proc'[g], task', happened')
  <2> DEFINE next == ApplyBlocker(task)
             entry == [action |-> "blocked", ref |-> next.version, old |-> task.status,
                       new |-> "blocked", by |-> actor]
  <2>1. task # None /\ BlockerAllowed(actor, task)
    BY <1>3 DEF ReadForBlocker, Writable
  <2>2. LegalStep(task, next)
    BY <2>1 DEF LegalStep, ReportBlockerStep
  <2>3. /\ Hold(h, "block", actor, next, entry,
                NoteToCreator("task_blocked", next, actor, next.version))
        /\ UNCHANGED <<task, happened>>
    BY <1>3 DEF ReadForBlocker, Unchanged
  <2>4. entry.action = "blocked" /\ entry.new = "blocked"
    OBVIOUS
  <2> HIDE DEF next, entry
  <2> QED
    BY <2>1, <2>2, <2>3, <2>4, "block" # "link", "blocked" \notin {"created", "reassigned", "completed"}, SoundWhenHeld
<1>4. ASSUME NEW actor \in Users, NEW res \in Resolutions,
             ReadForReassign(h, actor, res)
      PROVE  \A g \in Handlers : Sound(proc'[g], task', happened')
  <2> DEFINE next == Reassigned(task, res[1], res[2])
             entry == [action |-> "reassigned", ref |-> next.version,
                       old |-> task.status, new |-> next.status, by |-> actor]
  <2>0. task # None /\ task \in Task /\ ReassignAllowed(actor, task)
    BY <1>0, <1>4 DEF ReadForReassign, Writable, TypeOK
  <2>1. LegalStep(task, next)
    BY <2>0 DEF LegalStep, ReassignStep
  <2>2. res[1] \in Users \cup {None} /\ res[2] \in Employees \cup {None}
    BY ResolutionsAssumption
  <2>3. next.stamps = NoStamps /\ next.status = "created"
    <3> DEFINE user == res[1]
               employee == res[2]
    <3>1. user \in Users \cup {None} /\ employee \in Employees \cup {None}
      BY <2>2
    <3> HIDE DEF user, employee
    <3>2. LET r == Reassigned(task, user, employee)
          IN  r.stamps = NoStamps /\ r.status = "created"
      BY <2>0, <3>1, ReassignedFacts
    <3> QED
      BY <3>2 DEF user, employee
  <2>4. /\ Hold(h, "reassign", actor, next, entry,
                NoteToAssignee("task_reassigned", next, next.version))
        /\ UNCHANGED <<task, happened>>
    BY <1>4 DEF ReadForReassign, Unchanged
  <2> HIDE DEF next
  <2>5. /\ entry.action = "reassigned" /\ entry.ref = next.version
        /\ entry.new # "completed"
    BY <2>3
  <2> HIDE DEF entry
  <2> QED
    BY <2>0, <2>1, <2>3, <2>4, <2>5, "reassign" # "link", SoundWhenHeld
<1>5. ASSUME NEW actor \in Users, ReadForComment(h, actor)
      PROVE  \A g \in Handlers : Sound(proc'[g], task', happened')
  <2> DEFINE p == [Idle EXCEPT !.pc = "comment", !.op = "comment",
                               !.actor = actor, !.snap = task]
  <2>0. proc' = [proc EXCEPT ![h] = p]
    BY <1>5 DEF ReadForComment
  <2>1. p.pc = "comment" /\ p.op = "comment" /\ p.snap = task
    BY DEF Idle
  <2> HIDE DEF p
  <2>2. task \in Task /\ task.creator = Creator /\ task.version <= task.version
    BY <1>0, <1>5 DEF ReadForComment, TypeOK, RowInv, Task
  <2>3. Sound(p, task, happened')
    BY <1>5, <2>1, <2>2 DEF Sound, ReadForComment
  <2> QED
    BY <1>5, <2>0, <2>3, SoundWithoutWrite DEF ReadForComment, Unchanged
<1>6. ASSUME NEW acc \in Accounts, ListForRecovery(h, acc)
      PROVE  \A g \in Handlers : Sound(proc'[g], task', happened')
  <2> DEFINE next == LinkRegisteredAssignee(task, acc[1])
             entry == [action |-> "assigned", ref |-> next.version,
                       old |-> task.status, new |-> task.status, by |-> acc[1]]
  <2>1. /\ task # None /\ ~IsTerminal(task.status) /\ task.employee = acc[2]
        /\ LegalStep(task, next)
    BY <1>6 DEF ListForRecovery, Writable, LegalStep, LinkStep, ShouldLinkTask
  <2>2. <<acc[1], task.employee>> \in Accounts
    BY <2>1, AccountsAssumption
  <2>3. Hold(h, "link", acc[1], next, entry, NoteToAssignee("task_assigned", next, 0))
    BY <1>6 DEF ListForRecovery
  <2>4. entry.action = "assigned" /\ entry.new # "completed"
    BY <2>1 DEF IsTerminal
  <2> HIDE DEF next, entry
  <2> QED
    BY <1>6, <2>1, <2>2, <2>3, <2>4, SoundWhenHeld DEF ListForRecovery, Unchanged
<1>7. ASSUME NEW i \in DOMAIN notifications, LoadForDelivery(h, i)
      PROVE  \A g \in Handlers : Sound(proc'[g], task', happened')
  <2> DEFINE p == [Idle EXCEPT !.pc = "send", !.op = "deliver",
                               !.snap = task, !.index = i]
  <2>0. proc' = [proc EXCEPT ![h] = p]
    BY <1>7 DEF LoadForDelivery
  <2>1. p.pc = "send" /\ p.snap = task /\ p.op = "deliver"
    BY DEF Idle
  <2> HIDE DEF p
  <2>2. task # None => task \in Task /\ task.creator = Creator
                       /\ task.version <= task.version
    BY <1>0 DEF TypeOK, RowInv, Task
  <2>3. Sound(p, task, happened')
    BY <2>1, <2>2 DEF Sound
  <2> QED
    BY <1>7, <2>0, <2>3, SoundWithoutWrite DEF LoadForDelivery, Unchanged
<1>8. ASSUME NEW actor \in Users, NEW requested \in Requestable,
             Refuse(h, actor, requested)
      PROVE  \A g \in Handlers : Sound(proc'[g], task', happened')
  BY <1>8 DEF Refuse, vars, IInv
<1> QED
  BY <1>1, <1>2, <1>3, <1>4, <1>5, <1>6, <1>7, <1>8 DEF Read

\* A write that the version test lets through is a legal step from the row as it
\* is at that moment.
LEMMA SaveFacts ==
  ASSUME IInv, NEW h \in Handlers, Save(h)
  PROVE  /\ task \in Task /\ proc[h].snap = task
         /\ task' = proc[h].next
         /\ LegalStep(task, task')
         /\ StepEffect(task, task')
         /\ Described(proc[h])
<1>1. /\ proc[h] \in Handler /\ Sound(proc[h], task, happened)
      /\ proc[h].pc = "save" /\ VersionMatches(h) /\ task' = proc[h].next
  BY DEF IInv, TypeOK, Save
<1>2. /\ proc[h].snap \in Task /\ task \in Task
      /\ LegalStep(proc[h].snap, proc[h].next) /\ Described(proc[h])
  BY <1>1 DEF Sound, Handler
<1>3. StepEffect(proc[h].snap, proc[h].next)
  BY <1>2, LegalStepFacts
<1>4. proc[h].snap.version = task.version
  <2>1. /\ proc[h].next.version = proc[h].snap.version + 1
        /\ task.version = proc[h].next.version - 1
    BY <1>1, <1>3 DEF StepEffect, VersionMatches
  <2>2. proc[h].snap.version \in Nat /\ task.version \in Nat
    BY <1>2 DEF Task
  <2> QED
    BY <2>1, <2>2
<1>5. proc[h].snap = task
  BY <1>1, <1>2, <1>4 DEF Sound
<1> QED
  BY <1>1, <1>2, <1>3, <1>5

\* A write of a handler leaves the copies of the others stale and the rest of
\* what they hold sound.
LEMMA SoundAfterWrite ==
  ASSUME IInv, NEW h \in Handlers, NEW p,
         proc' = [proc EXCEPT ![h] = p],
         happened \subseteq happened',
         task' \in Task,
         task = None \/ (task \in Task /\ task'.version = task.version + 1),
         Sound(p, task', happened')
  PROVE  \A g \in Handlers : Sound(proc'[g], task', happened')
<1> TAKE g \in Handlers
<1>1. CASE g = h
  BY <1>1 DEF IInv, TypeOK
<1>2. CASE g # h
  <2>1. /\ proc'[g] = proc[g] /\ proc[g] \in Handler
        /\ Sound(proc[g], task, happened)
    BY <1>2 DEF IInv, TypeOK
  <2>2. proc[g].snap # None =>
          /\ task \in Task /\ proc[g].snap \in Task
          /\ proc[g].snap.version <= task.version
          /\ proc[g].snap.creator = Creator
    BY <2>1 DEF Sound, Handler
  <2>3. proc[g].snap # None =>
          /\ proc[g].snap.version <= task'.version
          /\ proc[g].snap.version # task'.version
    BY <2>2, NoneAssumption DEF Task
  <2> QED
    BY <2>1, <2>2, <2>3 DEF Sound
<1> QED
  BY <1>1, <1>2

\* Storing leaves every handler sound.
LEMMA StoreSound ==
  ASSUME IInv, NEW h \in Handlers,
         Insert(h) \/ Save(h) \/ Conflict(h) \/ RetryLink(h) \/ CreateComment(h)
         \/ AppendAudit(h)
  PROVE  \A g \in Handlers : Sound(proc'[g], task', happened')
<1>0. proc \in [Handlers -> Handler] /\ proc[h] \in Handler
      /\ Sound(proc[h], task, happened)
  BY DEF IInv, TypeOK
<1>1. CASE Insert(h)
  <2>1. CASE task = None /\ task' = proc[h].next
             /\ happened' = happened \cup {proc[h].entry} /\ Goto(h, "audit")
    <3> DEFINE p == [proc[h] EXCEPT !.pc = "audit"]
    <3>1. PICK res \in Resolutions : task' = NewTask(Creator, res[1], res[2])
      BY <1>0, <1>1, <2>1 DEF Insert, Sound
    <3>2. task' \in Task
      BY <3>1, NewTaskIsTask, CreatorAssumption
    <3>3. p.pc = "audit" /\ p.snap = proc[h].snap /\ p.entry = proc[h].entry
      BY <1>0 DEF Handler
    <3>4. proc' = [proc EXCEPT ![h] = p]
      BY <1>0, <2>1 DEF Goto
    <3> HIDE DEF p
    <3>5. p.snap = None
      BY <1>0, <2>1, <3>3, NoneAssumption DEF Sound
    <3>6. Sound(p, task', happened')
      BY <2>1, <3>3, <3>5 DEF Sound
    <3> QED
      BY <2>1, <3>2, <3>4, <3>6, SoundAfterWrite
  <2>2. CASE Finish(h) /\ UNCHANGED <<task, happened>>
    BY <2>2, SoundWhenFinished
  <2> QED
    BY <1>1, <2>1, <2>2 DEF Insert
<1>2. CASE Save(h)
  <2> DEFINE step == IF proc[h].op = "block" THEN "comment" ELSE "audit"
             p == [proc[h] EXCEPT !.pc = step]
  <2>1. /\ task \in Task /\ proc[h].snap = task /\ task' \in Task
        /\ task'.version = task.version + 1 /\ task.version \in Nat
    BY <1>2, SaveFacts DEF StepEffect, Task
  <2>2. /\ p.pc = step /\ p.snap = task /\ p.entry = proc[h].entry
        /\ p.op = proc[h].op
    BY <1>0, <2>1 DEF Handler
  <2>3. proc' = [proc EXCEPT ![h] = p]
    BY <1>0, <1>2 DEF Save, Goto
  <2>4. happened' = happened \cup {proc[h].entry}
    BY <1>2 DEF Save
  <2> HIDE DEF p
  <2>5. task # None /\ task.creator = Creator
    BY <2>1, NoneAssumption DEF IInv, RowInv
  <2>6. Sound(p, task', happened')
    BY <2>1, <2>2, <2>4, <2>5 DEF Sound
  <2> QED
    BY <2>1, <2>3, <2>4, <2>6, SoundAfterWrite
<1>3. CASE Conflict(h)
  <2>1. CASE proc[h].op = "link"
    <3> DEFINE p == [proc[h] EXCEPT !.pc = "reread"]
    <3>1. /\ p.pc = "reread" /\ p.snap = proc[h].snap /\ p.actor = proc[h].actor
          /\ p.op = "link"
      BY <1>0, <2>1 DEF Handler
    <3>2. proc' = [proc EXCEPT ![h] = p] /\ UNCHANGED <<task, happened>>
      BY <1>0, <1>3, <2>1 DEF Conflict, Goto, Unchanged
    <3> HIDE DEF p
    <3>3. Sound(p, task, happened')
      BY <1>0, <1>3, <2>1, <3>1 DEF Sound, Conflict
    <3> QED
      BY <3>2, <3>3, SoundWithoutWrite
  <2>2. CASE proc[h].op # "link"
    BY <1>3, <2>2, SoundWhenFinished DEF Conflict, Unchanged
  <2> QED
    BY <2>1, <2>2
<1>4. CASE RetryLink(h)
  <2> DEFINE actor == proc[h].actor
             next == LinkRegisteredAssignee(task, actor)
             entry == [action |-> "assigned", ref |-> next.version,
                       old |-> task.status, new |-> task.status, by |-> actor]
  <2>1. CASE Finish(h)
    BY <1>4, <2>1, SoundWhenFinished DEF RetryLink, Unchanged
  <2>2. CASE /\ ShouldLinkTask(task, proc[h].snap.employee)
             /\ Hold(h, "relink", actor, next, entry,
                     NoteToAssignee("task_assigned", next, 0))
    <3>1. <<actor, task.employee>> \in Accounts /\ task # None
      BY <1>0, <1>4, <2>2, NoneAssumption DEF Sound, RetryLink, ShouldLinkTask
    <3>2. ShouldLinkTask(task, task.employee) /\ ~IsTerminal(task.status)
      BY <2>2 DEF ShouldLinkTask
    <3>3. LegalStep(task, next)
      <4> DEFINE acc == <<actor, task.employee>>
      <4>1. ShouldLinkTask(task, acc[2]) /\ next = LinkRegisteredAssignee(task, acc[1])
        BY <3>2
      <4>2. acc \in Accounts
        BY <3>1
      <4> HIDE DEF acc, next
      <4> QED
        BY <4>1, <4>2 DEF LegalStep, LinkStep
    <3>4. entry.action = "assigned" /\ entry.new # "completed"
      BY <3>2 DEF IsTerminal
    <3>5. UNCHANGED <<task, happened>>
      BY <1>4 DEF RetryLink, Unchanged
    <3> HIDE DEF next, entry
    <3> QED
      BY <2>2, <3>1, <3>3, <3>4, <3>5, "relink" # "link", SoundWhenHeld
  <2> QED
    BY <1>4, <2>1, <2>2 DEF RetryLink
<1>5. CASE CreateComment(h)
  <2>1. proc[h].snap # None /\ proc[h].pc = "comment" /\ task' = task
    BY <1>0, <1>5 DEF Sound, CreateComment
  <2>2. CASE proc[h].op = "block"
    <3> DEFINE p == [proc[h] EXCEPT !.pc = "audit"]
    <3>1. p.pc = "audit" /\ p.snap = proc[h].snap /\ p.entry = proc[h].entry
      BY <1>0 DEF Handler
    <3>2. proc' = [proc EXCEPT ![h] = p] /\ UNCHANGED happened
      BY <1>0, <1>5, <2>2 DEF CreateComment, Goto
    <3> HIDE DEF p
    <3>3. Sound(p, task, happened')
      BY <1>0, <2>1, <2>2, <3>1, <3>2 DEF Sound
    <3> QED
      BY <2>1, <3>2, <3>3, SoundWithoutWrite
  <2>3. CASE proc[h].op # "block"
    <3> DEFINE entry == [action |-> "commented", ref |-> comments + 1, old |-> None,
                         new |-> None, by |-> proc[h].actor]
               notes == NotesTo("task_comment", proc[h].snap, proc[h].actor,
                                comments + 1)
               p == [proc[h] EXCEPT !.pc = "audit", !.entry = entry, !.notes = notes]
    <3>1. proc' = [proc EXCEPT ![h] = p] /\ happened' = happened \cup {entry}
      BY <1>0, <1>5, <2>3 DEF CreateComment
    <3> HIDE DEF entry, notes
    <3>2. p.pc = "audit" /\ p.snap = proc[h].snap /\ p.entry = entry
      BY <1>0 DEF Handler
    <3> HIDE DEF p
    <3>3. Sound(p, task, happened')
      BY <1>0, <3>1, <3>2 DEF Sound
    <3> QED
      BY <2>1, <3>1, <3>3, SoundWithoutWrite
  <2> QED
    BY <2>2, <2>3
<1>6. CASE AppendAudit(h)
  <2>1. UNCHANGED <<task, happened>>
    BY <1>6 DEF AppendAudit
  <2>2. CASE Finish(h)
    BY <2>1, <2>2, SoundWhenFinished
  <2>3. ASSUME NEW step \in {"ensure", "notify"}, Goto(h, step)
        PROVE  \A g \in Handlers : Sound(proc'[g], task', happened')
    <3> DEFINE p == [proc[h] EXCEPT !.pc = step]
    <3>1. p.pc = step /\ p.snap = proc[h].snap
      BY <1>0 DEF Handler
    <3>2. proc' = [proc EXCEPT ![h] = p]
      BY <1>0, <2>3 DEF Goto
    <3> HIDE DEF p
    <3>3. Sound(p, task, happened')
      BY <1>0, <3>1 DEF Sound
    <3> QED
      BY <2>1, <3>2, <3>3, SoundWithoutWrite
  <2> QED
    BY <1>6, <2>2, <2>3 DEF AppendAudit
<1> QED
  BY <1>1, <1>2, <1>3, <1>4, <1>5, <1>6

\* Notifying and delivering leave every handler sound.
LEMMA NotifySound ==
  ASSUME IInv, NEW h \in Handlers,
         Enqueue(h) \/ EnsureNotification(h) \/ Requeue(h) \/ DeliverySucceeds(h)
         \/ DeliveryFails(h) \/ DeliveryIsPostponed(h) \/ Fail(h)
  PROVE  \A g \in Handlers : Sound(proc'[g], task', happened')
<1>0. proc \in [Handlers -> Handler] /\ proc[h] \in Handler
      /\ Sound(proc[h], task, happened)
  BY DEF IInv, TypeOK
<1>1. UNCHANGED <<task, happened>>
  BY DEF Enqueue, EnsureNotification, Requeue, DeliverySucceeds, DeliveryFails,
         DeliveryIsPostponed, Fail, Unchanged
<1>2. CASE Finish(h)
  BY <1>1, <1>2, SoundWhenFinished
\* A step to a program counter that promises nothing but the copy.
<1>3. ASSUME NEW p, proc' = [proc EXCEPT ![h] = p], p.snap = proc[h].snap,
             p.pc \in {"notify", "requeue"}
      PROVE  \A g \in Handlers : Sound(proc'[g], task', happened')
  <2>1. Sound(p, task, happened')
    BY <1>0, <1>3 DEF Sound
  <2> QED
    BY <1>1, <1>3, <2>1, SoundWithoutWrite
<1>4. CASE Enqueue(h)
  <2> DEFINE p == [proc[h] EXCEPT !.notes = Tail(proc[h].notes)]
  <2>1. CASE proc' = [proc EXCEPT ![h] = p]
    <3>1. p.snap = proc[h].snap /\ p.pc = "notify"
      BY <1>0, <1>4 DEF Handler, Enqueue
    <3> HIDE DEF p
    <3> QED
      BY <1>3, <2>1, <3>1
  <2> QED
    BY <1>0, <1>2, <1>4, <2>1 DEF Enqueue
<1>5. CASE EnsureNotification(h)
  <2>1. CASE Goto(h, "notify")
    <3> DEFINE p == [proc[h] EXCEPT !.pc = "notify"]
    <3>1. p.snap = proc[h].snap /\ p.pc = "notify"
      BY <1>0 DEF Handler
    <3>2. proc' = [proc EXCEPT ![h] = p]
      BY <1>0, <2>1 DEF Goto
    <3> HIDE DEF p
    <3> QED
      BY <1>3, <3>1, <3>2
  <2>2. ASSUME NEW i, proc' = [proc EXCEPT ![h].pc = "requeue", ![h].index = i]
        PROVE  \A g \in Handlers : Sound(proc'[g], task', happened')
    <3> DEFINE p == [proc[h] EXCEPT !.pc = "requeue", !.index = i]
    <3>1. p.snap = proc[h].snap /\ p.pc = "requeue"
      BY <1>0 DEF Handler
    <3>2. proc' = [proc EXCEPT ![h] = p]
      BY <1>0, <2>2
    <3> HIDE DEF p
    <3> QED
      BY <1>3, <3>1, <3>2
  <2> QED
    BY <1>2, <1>5, <2>1, <2>2 DEF EnsureNotification
<1>6. CASE DeliverySucceeds(h)
  <2> DEFINE i == proc[h].index
             t == proc[h].snap
             next == TransitionTo(t, "sent")
             entry == [action |-> "sent", ref |-> next.version, old |-> "created",
                       new |-> "sent", by |-> None]
             p == [proc[h] EXCEPT !.pc = "save", !.next = next, !.entry = entry]
  <2>1. CASE MarksTaskSent(i, t) /\ proc' = [proc EXCEPT ![h].pc = "save",
               ![h].next = next, ![h].entry = entry]
    <3>1. t # None /\ SentAllowed(t)
      BY <2>1 DEF MarksTaskSent
    <3>2. LegalStep(t, next)
      BY <3>1 DEF LegalStep, MarkSentStep
    <3>3. entry.action = "sent" /\ entry.new = "sent"
      OBVIOUS
    <3> HIDE DEF next, entry
    <3>4. /\ p.pc = "save" /\ p.snap = t /\ p.next = next /\ p.entry = entry
          /\ p.op = proc[h].op
      BY <1>0 DEF Handler
    <3>5. proc' = [proc EXCEPT ![h] = p]
      BY <1>0, <2>1
    <3>6. proc[h].op = "deliver"
      BY <1>0, <1>6 DEF DeliverySucceeds, Sound
    <3> HIDE DEF p
    <3>7. Sound(p, task, happened')
      BY <1>0, <3>1, <3>2, <3>3, <3>4, <3>6 DEF Sound, Described
    <3> QED
      BY <1>1, <3>5, <3>7, SoundWithoutWrite
  <2> QED
    BY <1>2, <1>6, <2>1 DEF DeliverySucceeds
<1> QED
  BY <1>2, <1>4, <1>5, <1>6 DEF Requeue, DeliveryFails, DeliveryIsPostponed, Fail

\* Every step leaves what every handler holds sound.
LEMMA NextSound ==
  ASSUME IInv, Next
  PROVE  \A g \in Handlers : Sound(proc'[g], task', happened')
BY ReadSound, StoreSound, NotifySound DEF Next, Continue

-----------------------------------------------------------------------------
(* The row and the audit log *)

\* The entries of a step that does not store the row are neither a creation nor
\* a reassignment nor a completion, so that what the row owes them is unchanged.
LEMMA RowUntouched ==
  ASSUME IInv, task' = task, happened \subseteq happened',
         \A e \in happened' \ happened : e.action = "commented" /\ e.new = None
  PROVE  RowInv' /\ OnlyApproversComplete'
<1>1. Assignments' = Assignments
  BY DEF Assignments
<1>2. \A e \in happened' \ happened : e.new # "completed"
  BY NoneAssumption DEF TaskStatus
<1> QED
  BY <1>1, <1>2 DEF IInv, RowInv, OnlyApproversComplete, BlockedHasReason,
                    AssigneeMatchesDirectory, NoInheritedProgress

\* Creating the row establishes what holds of it.
LEMMA InsertRow ==
  ASSUME IInv, NEW h \in Handlers, Insert(h), task = None
  PROVE  RowInv' /\ OnlyApproversComplete'
<1>1. /\ task' = proc[h].next /\ happened' = happened \cup {proc[h].entry}
      /\ proc[h].pc = "insert" /\ Sound(proc[h], task, happened)
  BY DEF Insert, IInv
<1>2. PICK res \in Resolutions : task' = NewTask(Creator, res[1], res[2])
  BY <1>1 DEF Sound
<1>3. /\ task'.creator = Creator /\ task'.version = 0
      /\ task'.status = "created" /\ task'.reason = "none"
      /\ task'.user = res[1] /\ task'.employee = res[2]
      /\ \A s \in StampedStatus : task'.stamps[s] = 0
  BY <1>2 DEF NewTask, NoStamps
<1>4. proc[h].entry.ref = 0 /\ proc[h].entry.new = "created"
  BY <1>1 DEF Sound
<1>5. \A v \in Assignments' : v = 0
  <2>1. Assignments = {}
    BY DEF IInv, RowInv
  <2> QED
    BY <1>1, <1>4, <2>1 DEF Assignments
<1>6. task' # None
  BY <1>2, NewTaskIsTask, CreatorAssumption, NoneAssumption
<1>7. <<task'.user, task'.employee>> \in Resolutions
  BY <1>3, ResolutionsAssumption
<1>8. OnlyApproversComplete'
  BY <1>1, <1>4 DEF IInv, OnlyApproversComplete
<1> QED
  BY <1>3, <1>5, <1>6, <1>7, <1>8 DEF RowInv, BlockedHasReason,
     AssigneeMatchesDirectory, NoInheritedProgress

\* Storing a legal step keeps what holds of the row.
LEMMA SaveRow ==
  ASSUME IInv, NEW h \in Handlers, Save(h)
  PROVE  RowInv' /\ OnlyApproversComplete'
<1>1. /\ task \in Task /\ task # None /\ task' = proc[h].next
      /\ StepEffect(task, task') /\ Described(proc[h])
      /\ happened' = happened \cup {proc[h].entry}
  BY SaveFacts, NoneAssumption DEF Save
<1>2. /\ task' \in Task /\ task' # None
      /\ task.version \in Nat /\ task'.version = task.version + 1
  BY <1>1, NoneAssumption DEF StepEffect, Task
<1>3. /\ RowInv /\ task.creator = Creator
      /\ \A s \in StampedStatus : task.stamps[s] \in Nat /\ task.stamps[s] <= task.version
      /\ \A v \in Assignments : v <= task.version
  BY <1>1 DEF IInv, RowInv, Task
<1>4. \A s \in StampedStatus :
        task'.stamps[s] \in {0, task.stamps[s], task.version + 1}
  BY <1>1 DEF StepEffect
<1>5. \A s \in StampedStatus : task'.stamps[s] <= task'.version
  BY <1>2, <1>3, <1>4
<1>6. \/ Assignments' = Assignments
      \/ /\ Assignments' = Assignments \cup {task'.version}
         /\ \A s \in StampedStatus : task'.stamps[s] = 0
  <2>1. CASE proc[h].entry.action = "reassigned"
    BY <1>1, <2>1 DEF Assignments, Described, NoStamps
  <2>2. CASE proc[h].entry.action # "reassigned"
    BY <1>1, <2>2 DEF Assignments, Described
  <2> QED
    BY <2>1, <2>2
<1>7. Assignments \subseteq Nat
  BY DEF Assignments, IInv, TypeOK, Entry
<1>8. \A v \in Assignments' : v <= task'.version
  BY <1>2, <1>3, <1>6, <1>7
<1>9. NoInheritedProgress'
  <2> SUFFICES ASSUME NEW s \in StampedStatus, NEW v \in Assignments',
                      task'.stamps[s] > 0
               PROVE  task'.stamps[s] > v
    BY DEF NoInheritedProgress
  <2>1. v \in Assignments
    BY <1>6
  <2>2. CASE task'.stamps[s] = task.stamps[s]
    BY <1>1, <1>3, <2>1, <2>2 DEF RowInv, NoInheritedProgress
  <2>3. CASE task'.stamps[s] = task.version + 1
    BY <1>2, <1>3, <1>7, <2>1, <2>3
  <2> QED
    BY <1>4, <2>2, <2>3
<1>10. BlockedHasReason'
  BY <1>1, <1>3 DEF StepEffect, RowInv, BlockedHasReason
<1>11. AssigneeMatchesDirectory'
  BY <1>1, <1>3 DEF StepEffect, RowInv, AssigneeMatchesDirectory
<1>12. OnlyApproversComplete'
  BY <1>1 DEF IInv, OnlyApproversComplete, Described
<1> QED
  BY <1>1, <1>2, <1>3, <1>5, <1>8, <1>9, <1>10, <1>11, <1>12 DEF RowInv, StepEffect

\* Every step keeps what holds of the row and of the completions.
LEMMA NextRow ==
  ASSUME IInv, Next
  PROVE  RowInv' /\ OnlyApproversComplete'
<1>1. PICK h \in Handlers : Read(h) \/ Continue(h) \/ Fail(h)
  BY DEF Next
<1>2. CASE Insert(h) /\ task = None
  BY <1>2, InsertRow
<1>3. CASE Save(h)
  BY <1>3, SaveRow
<1>4. CASE CreateComment(h) /\ proc[h].op # "block"
  <2> DEFINE entry == [action |-> "commented", ref |-> comments + 1, old |-> None,
                       new |-> None, by |-> proc[h].actor]
  <2>1. task' = task /\ happened' = happened \cup {entry}
    BY <1>4 DEF CreateComment
  <2>2. entry.action = "commented" /\ entry.new = None
    OBVIOUS
  <2> HIDE DEF entry
  <2> QED
    BY <2>1, <2>2, RowUntouched
<1>5. CASE task' = task /\ happened' = happened
  BY <1>5, RowUntouched
<1>6. Read(h) => UNCHANGED <<task, happened>>
  BY DEF Read, ReadForCreate, ReadForStatus, ReadForBlocker, ReadForReassign,
         ReadForComment, ListForRecovery, LoadForDelivery, Refuse, Unchanged, vars
<1>7. Insert(h) => task = None \/ UNCHANGED <<task, happened>>
  BY DEF Insert
<1>8. CreateComment(h) => proc[h].op # "block" \/ UNCHANGED <<task, happened>>
  BY DEF CreateComment
<1>9. Conflict(h) \/ RetryLink(h) \/ AppendAudit(h) \/ Enqueue(h)
      \/ EnsureNotification(h) \/ Requeue(h) \/ DeliverySucceeds(h)
      \/ DeliveryFails(h) \/ DeliveryIsPostponed(h) \/ Fail(h)
      => UNCHANGED <<task, happened>>
  BY DEF Conflict, RetryLink, AppendAudit, Enqueue, EnsureNotification, Requeue,
         DeliverySucceeds, DeliveryFails, DeliveryIsPostponed, Fail, Unchanged
<1> QED
  BY <1>1, <1>2, <1>3, <1>4, <1>5, <1>6, <1>7, <1>8, <1>9 DEF Continue

\* Every step logs only what has happened, and nothing that happened is forgotten.
LEMMA NextAudit ==
  ASSUME IInv, Next
  PROVE  AuditFaithful'
<1>1. PICK h \in Handlers : Read(h) \/ Continue(h) \/ Fail(h)
  BY DEF Next
<1>2. audit \subseteq happened /\ Sound(proc[h], task, happened)
  BY DEF IInv, AuditFaithful
<1>3. CASE AppendAudit(h)
  <2>1. /\ proc[h].pc = "audit" /\ happened' = happened
        /\ audit' = audit \cup {proc[h].entry}
    BY <1>3 DEF AppendAudit
  <2> QED
    BY <1>2, <2>1 DEF AuditFaithful, Sound
<1>4. CASE audit' = audit /\ happened \subseteq happened'
  BY <1>2, <1>4 DEF AuditFaithful
<1>5. Read(h) => UNCHANGED <<audit, happened>>
  BY DEF Read, ReadForCreate, ReadForStatus, ReadForBlocker, ReadForReassign,
         ReadForComment, ListForRecovery, LoadForDelivery, Refuse, Unchanged, vars
<1>6. Insert(h) \/ Save(h) \/ CreateComment(h)
      => audit' = audit /\ happened \subseteq happened'
  BY DEF Insert, Save, CreateComment
<1>7. Conflict(h) \/ RetryLink(h) \/ Enqueue(h)
      \/ EnsureNotification(h) \/ Requeue(h) \/ DeliverySucceeds(h)
      \/ DeliveryFails(h) \/ DeliveryIsPostponed(h) \/ Fail(h)
      => UNCHANGED <<audit, happened>>
  BY DEF Conflict, RetryLink, Enqueue, EnsureNotification, Requeue,
         DeliverySucceeds, DeliveryFails, DeliveryIsPostponed, Fail, Unchanged
<1> QED
  BY <1>1, <1>3, <1>4, <1>5, <1>6, <1>7 DEF Continue

-----------------------------------------------------------------------------
(* The theorems *)

\* The invariant holds before the first message.
LEMMA InitInv == Init => IInv
<1> SUFFICES ASSUME Init
             PROVE  IInv
  OBVIOUS
<1>1. TypeOK
  BY IdleType, EmptySeq DEF Init, TypeOK
<1>2. \A h \in Handlers : Sound(proc[h], task, happened)
  BY IdleSound DEF Init
<1>3. RowInv
  BY DEF Init, RowInv, Assignments, BlockedHasReason, AssigneeMatchesDirectory,
         NoInheritedProgress
<1>4. AuditFaithful /\ OnlyApproversComplete
  BY DEF Init, AuditFaithful, OnlyApproversComplete
<1> QED
  BY <1>1, <1>2, <1>3, <1>4 DEF IInv

\* Every step keeps it, and so does a step that changes nothing.
LEMMA NextInv == IInv /\ [Next]_vars => IInv'
<1> SUFFICES ASSUME IInv, [Next]_vars
             PROVE  IInv'
  OBVIOUS
<1>1. CASE Next
  <2>1. \A h \in Handlers : Sound(proc'[h], task', happened')
    BY <1>1, NextSound
  <2> QED
    BY <1>1, <2>1, NextType, NextRow, NextAudit DEF IInv
<1>2. CASE UNCHANGED vars
  BY <1>2 DEF vars, IInv, TypeOK, AuditFaithful, OnlyApproversComplete, RowInv,
              Assignments, BlockedHasReason, AssigneeMatchesDirectory,
              NoInheritedProgress
<1> QED
  BY <1>1, <1>2

\* The inductive invariant holds in every reachable state.
THEOREM Invariance == Spec => []IInv
BY InitInv, NextInv, PTL DEF Spec

\* Every table and every handler of TaskWorkflow is well formed at all times.
THEOREM TypeCorrect == Spec => []TypeOK
BY Invariance, PTL DEF IInv

\* The audit log tells of nothing that did not happen.
THEOREM AuditIsFaithful == Spec => []AuditFaithful
BY Invariance, PTL DEF IInv

\* Nobody but the creator, a manager or an admin completes a task, and only out
\* of review.
THEOREM CompletionIsApproved == Spec => []OnlyApproversComplete
BY Invariance, PTL DEF IInv

\* No timestamp of the row is older than its latest reassignment, however the
\* handlers interleave.
THEOREM ReassignmentStartsClean == Spec => []NoInheritedProgress
<1>1. IInv => NoInheritedProgress
  BY DEF IInv, RowInv
<1> QED
  BY <1>1, Invariance, PTL

\* A task is blocked exactly while it has a reason.
THEOREM BlockerHasReason == Spec => []BlockedHasReason
<1>1. IInv => BlockedHasReason
  BY DEF IInv, RowInv
<1> QED
  BY <1>1, Invariance, PTL

\* The account and the directory record of a task always belong together.
THEOREM AssigneeIsOfRecord == Spec => []AssigneeMatchesDirectory
<1>1. IInv => AssigneeMatchesDirectory
  BY DEF IInv, RowInv
<1> QED
  BY <1>1, Invariance, PTL

\* What a step may do to the row: nothing, the first insert, or a legal step
\* from the row as it is.
LEMMA RowSteps ==
  ASSUME IInv, [Next]_vars
  PROVE  \/ task' = task
         \/ /\ task = None
            /\ \E res \in Resolutions : task' = NewTask(Creator, res[1], res[2])
         \/ /\ task \in Task /\ task # None
            /\ LegalStep(task, task') /\ ~IsTerminal(task.status)
<1>1. CASE Next
  <2>1. PICK h \in Handlers : Read(h) \/ Continue(h) \/ Fail(h)
    BY <1>1 DEF Next
  <2>2. CASE Insert(h)
    <3>1. Sound(proc[h], task, happened)
      BY DEF IInv
    <3> QED
      BY <2>2, <3>1 DEF Insert, Sound
  <2>3. CASE Save(h)
    BY <2>3, SaveFacts, NoneAssumption DEF StepEffect
  <2>4. CASE ~Insert(h) /\ ~Save(h)
    <3>1. Read(h) => task' = task
      BY DEF Read, ReadForCreate, ReadForStatus, ReadForBlocker, ReadForReassign,
             ReadForComment, ListForRecovery, LoadForDelivery, Refuse, Unchanged, vars
    <3>2. Conflict(h) \/ RetryLink(h) \/ CreateComment(h) \/ AppendAudit(h)
          \/ Enqueue(h) \/ EnsureNotification(h) \/ Requeue(h)
          \/ DeliverySucceeds(h) \/ DeliveryFails(h) \/ DeliveryIsPostponed(h)
          \/ Fail(h)
          => task' = task
      BY DEF Conflict, RetryLink, CreateComment, AppendAudit, Enqueue,
             EnsureNotification, Requeue, DeliverySucceeds, DeliveryFails,
             DeliveryIsPostponed, Fail, Unchanged
    <3> QED
      BY <2>1, <2>4, <3>1, <3>2 DEF Continue
  <2> QED
    BY <2>2, <2>3, <2>4
<1>2. CASE UNCHANGED vars
  BY <1>2 DEF vars
<1> QED
  BY <1>1, <1>2

\* No field of a completed or cancelled task ever changes.
THEOREM TerminalIsFrozen == Spec => TerminalFrozen
<1>1. IInv /\ [Next]_vars
      => [task # None /\ IsTerminal(task.status) => task' = task]_vars
  BY RowSteps
<1> QED
  BY <1>1, Invariance, PTL DEF Spec, TerminalFrozen

\* TaskBoard allows the same changes of a row as TaskLifecycle.
LEMMA BoardSteps ==
  ASSUME NEW before, NEW after
  PROVE  Board!LegalStep(before, after) <=> LegalStep(before, after)
<1>1. Board!Edges = Edges /\ Board!NoStamps = NoStamps
  BY DEF Board!Edges, Edges, Board!NoStamps, NoStamps, Board!StampedStatus,
         StampedStatus, Board!TaskStatus, TaskStatus
<1>2. /\ \A s : Board!IsTerminal(s) <=> IsTerminal(s)
      /\ \A s, t : Board!CanTransitionTo(s, t) <=> CanTransitionTo(s, t)
  BY <1>1 DEF Board!IsTerminal, IsTerminal, Board!CanTransitionTo, CanTransitionTo
<1>3. \A t, next : Board!TransitionTo(t, next) = TransitionTo(t, next)
  BY DEF Board!TransitionTo, TransitionTo, Board!MarkTimestamp, MarkTimestamp
<1>4. /\ \A a : Board!IsManagerOrAdmin(a) <=> IsManagerOrAdmin(a)
      /\ \A a : Board!IsAdmin(a) <=> IsAdmin(a)
      /\ \A t : Board!ReviewRequired(t) <=> ReviewRequired(t)
  BY DEF Board!IsManagerOrAdmin, IsManagerOrAdmin, Board!IsAdmin, IsAdmin,
         Board!ReviewRequired, ReviewRequired
<1>5. \A a, t, r : Board!NormalizeRequestedStatus(a, t, r)
                   = NormalizeRequestedStatus(a, t, r)
  BY <1>4 DEF Board!NormalizeRequestedStatus, NormalizeRequestedStatus
<1>6. \A a, t, r : Board!CanChangeStatus(a, t, r) <=> CanChangeStatus(a, t, r)
  BY <1>4 DEF Board!CanChangeStatus, CanChangeStatus,
     Board!CreatorCanChangeStatus, CreatorCanChangeStatus,
     Board!AssigneeCanChangeStatus, AssigneeCanChangeStatus,
     Board!ManagerCanChangeStatus, ManagerCanChangeStatus
<1>7. \A t, r : Board!ReviewMissing(t, r) <=> ReviewMissing(t, r)
  BY <1>4 DEF Board!ReviewMissing, ReviewMissing
<1>8. Board!ChangeStatusStep(before, after) <=> ChangeStatusStep(before, after)
  BY <1>2, <1>3, <1>5, <1>6, <1>7 DEF Board!ChangeStatusStep, ChangeStatusStep,
     Board!StatusAllowed, StatusAllowed, Board!StatusWrite, StatusWrite
<1>9. Board!ReportBlockerStep(before, after) <=> ReportBlockerStep(before, after)
  BY <1>2, <1>3, <1>4 DEF Board!ReportBlockerStep, ReportBlockerStep,
     Board!BlockerAllowed, BlockerAllowed, Board!ApplyBlocker, ApplyBlocker,
     Board!CanReportBlocker, CanReportBlocker
<1>10. Board!ReassignStep(before, after) <=> ReassignStep(before, after)
  BY <1>1, <1>2, <1>4 DEF Board!ReassignStep, ReassignStep,
     Board!ReassignAllowed, ReassignAllowed, Board!Reassigned, Reassigned,
     Board!Participates, Participates
<1>11. Board!LinkStep(before, after) <=> LinkStep(before, after)
  BY <1>2 DEF Board!LinkStep, LinkStep, Board!ShouldLinkTask, ShouldLinkTask,
     Board!LinkRegisteredAssignee, LinkRegisteredAssignee
<1>12. Board!MarkSentStep(before, after) <=> MarkSentStep(before, after)
  BY <1>3 DEF Board!MarkSentStep, MarkSentStep, Board!SentAllowed, SentAllowed
<1> QED
  BY <1>8, <1>9, <1>10, <1>11, <1>12 DEF Board!LegalStep, LegalStep

\* The handlers, none of which is atomic, implement the board, whose steps are:
\* the version test makes every read-check-write of the row one legal step.
THEOREM WorkflowImplementsBoard == Spec => ImplementsBoard
<1>1. Init => Board!Init
  BY DEF Init, Board!Init
<1>2. IInv /\ [Next]_vars => [Board!Next]_task
  <2> SUFFICES ASSUME IInv, [Next]_vars, task' # task
               PROVE  Board!Next
    OBVIOUS
  <2>1. CASE /\ task = None
             /\ \E res \in Resolutions : task' = NewTask(Creator, res[1], res[2])
    <3>1. \A res \in Resolutions : Board!NewTask(Creator, res[1], res[2])
                                   = NewTask(Creator, res[1], res[2])
      BY DEF Board!NewTask, NewTask, Board!NoStamps, NoStamps,
             Board!StampedStatus, StampedStatus, Board!TaskStatus, TaskStatus
    <3> QED
      BY <2>1, <3>1, CreatorAssumption DEF Board!Next, Board!Create
  <2>2. CASE task # None /\ LegalStep(task, task')
    BY <2>2, BoardSteps DEF Board!Next, Board!Change
  <2> QED
    BY <2>1, <2>2, RowSteps
<1> QED
  BY <1>1, <1>2, Invariance, PTL DEF Spec, ImplementsBoard, Board!Spec

-----------------------------------------------------------------------------
(* The audit log misses nothing *)

\* Handler h owes an entry.
Owing(h) == proc[h].pc = "audit" \/ (proc[h].pc = "comment" /\ proc[h].op = "block")

\* The reference of a change is the version it makes, that of a comment its number, so that no
\* two changes have the same entry.
EntriesNumbered ==
  /\ \A e \in happened : IF e.action = "commented" THEN e.ref <= comments
                         ELSE task # None /\ e.ref <= task.version
  /\ \A h \in Handlers :
       /\ proc[h].pc = "save" => /\ proc[h].entry.action # "commented"
                                 /\ proc[h].entry.ref = proc[h].next.version
       /\ proc[h].pc = "insert" => /\ proc[h].entry.action = "created"
                                   /\ proc[h].entry.ref = 0

\* No entry is owed twice.
OwedOnce == \A g, h \in Handlers : Owing(g) /\ Owing(h) /\ proc[g].entry = proc[h].entry => g = h

LogInv == EntriesNumbered /\ (faults = 0 => AuditComplete /\ OwedOnce)

LEMMA LogInit == Init => LogInv
BY DEF Init, Idle, LogInv, EntriesNumbered, OwedOnce, Owing, AuditComplete, Owed

\* What is left of a handler that returns, moves on or goes to save.
LEMMA FinishFields ==
  ASSUME proc \in [Handlers -> Handler], NEW h \in Handlers, Finish(h)
  PROVE  proc'[h].pc = "idle" /\ \A g \in Handlers \ {h} : proc'[g] = proc[g]
BY DEF Finish, Idle

LEMMA GotoFields ==
  ASSUME proc \in [Handlers -> Handler], NEW h \in Handlers, NEW step, Goto(h, step)
  PROVE  /\ proc'[h].pc = step /\ proc'[h].entry = proc[h].entry /\ proc'[h].op = proc[h].op
         /\ \A g \in Handlers \ {h} : proc'[g] = proc[g]
BY DEF Goto, Handler

LEMMA HoldFields ==
  ASSUME proc \in [Handlers -> Handler], NEW h \in Handlers, NEW op, NEW actor, NEW next,
         NEW entry, NEW notes, Hold(h, op, actor, next, entry, notes)
  PROVE  /\ proc'[h].pc = "save" /\ proc'[h].entry = entry /\ proc'[h].next = next
         /\ \A g \in Handlers \ {h} : proc'[g] = proc[g]
BY DEF Hold

\* A step of h that stores and logs nothing.
LEMMA LogQuiet ==
  ASSUME IInv, LogInv, NEW h \in Handlers, proc' \in [Handlers -> Handler],
         \A g \in Handlers \ {h} : proc'[g] = proc[g],
         UNCHANGED <<task, audit, happened>>, comments' >= comments, comments' \in Nat,
         faults' = 0 => faults = 0 /\ (Owing(h)' <=> Owing(h))
                                   /\ (Owing(h) => proc'[h].entry = proc[h].entry),
         proc'[h].pc = "save" => /\ proc'[h].entry.action # "commented"
                                 /\ proc'[h].entry.ref = proc'[h].next.version,
         proc'[h].pc = "insert" => proc'[h].entry.action = "created" /\ proc'[h].entry.ref = 0
  PROVE  LogInv'
<1>1. EntriesNumbered'
  <2>1. \A e \in happened : e.action = "commented" => e.ref <= comments'
    <3>1. \A e \in happened : e.ref \in Nat
      BY DEF IInv, TypeOK, Entry
    <3>2. comments \in Nat
      BY DEF IInv, TypeOK
    <3> QED
      BY <3>1, <3>2 DEF LogInv, EntriesNumbered
  <2> QED
    BY <2>1 DEF LogInv, EntriesNumbered
<1>2. ASSUME faults' = 0 PROVE AuditComplete' /\ OwedOnce'
  <2>1. \A g \in Handlers : /\ Owing(g)' <=> Owing(g)
                            /\ Owing(g) => proc'[g].entry = proc[g].entry
    BY <1>2 DEF Owing
  <2>2. Owed' = Owed
    BY <2>1 DEF Owed, Owing
  <2>3. OwedOnce'
    BY <1>2, <2>1 DEF LogInv, OwedOnce
  <2> QED
    BY <1>2, <2>2, <2>3 DEF LogInv, AuditComplete
<1> QED
  BY <1>1, <1>2 DEF LogInv

\* A step of h that stores a change and owes its entry now.
LEMMA LogStores ==
  ASSUME IInv, LogInv, NEW h \in Handlers, proc' \in [Handlers -> Handler],
         \A g \in Handlers \ {h} : proc'[g] = proc[g],
         UNCHANGED <<audit, faults>>, ~ Owing(h), Owing(h)',
         happened' = happened \cup {proc'[h].entry},
         proc'[h].entry \notin happened,
         \A e \in happened' : IF e.action = "commented" THEN e.ref <= comments'
                              ELSE task' # None /\ e.ref <= task'.version
  PROVE  LogInv'
<1>1. EntriesNumbered'
  BY DEF LogInv, EntriesNumbered, Owing
<1>2. ASSUME faults = 0 PROVE AuditComplete' /\ OwedOnce'
  <2>1. \A g \in Handlers \ {h} : (Owing(g)' <=> Owing(g)) /\ proc'[g].entry = proc[g].entry
    BY DEF Owing
  <2>2. \A e : e \in Owed <=> \E g \in Handlers : Owing(g) /\ e = proc[g].entry
    BY DEF Owed, Owing
  <2>3. \A e : e \in Owed' <=> \E g \in Handlers : Owing(g)' /\ e = proc'[g].entry
    BY DEF Owed, Owing
  <2>4. Owed' = Owed \cup {proc'[h].entry}
    BY <2>1, <2>2, <2>3
  <2>5. proc'[h].entry \notin audit /\ proc'[h].entry \notin Owed
    BY <1>2 DEF IInv, AuditFaithful, LogInv, AuditComplete
  <2>6. happened' \ audit' = Owed'
    BY <1>2, <2>4, <2>5 DEF LogInv, AuditComplete
  <2>7. OwedOnce'
    BY <1>2, <2>1, <2>2, <2>5 DEF LogInv, OwedOnce
  <2> QED
    BY <2>6, <2>7 DEF AuditComplete
<1> QED
  BY <1>1, <1>2 DEF LogInv

LEMMA LogAppends ==
  ASSUME IInv, LogInv, NEW h \in Handlers, AppendAudit(h), proc' \in [Handlers -> Handler]
  PROVE  LogInv'
<1>1. /\ \A g \in Handlers \ {h} : proc'[g] = proc[g]
      /\ proc'[h].pc \in {"idle", "ensure", "notify"}
      /\ proc[h].pc = "audit" /\ audit' = audit \cup {proc[h].entry}
      /\ UNCHANGED <<task, comments, happened, faults>>
  <2>1. /\ proc[h].pc = "audit" /\ audit' = audit \cup {proc[h].entry}
        /\ UNCHANGED <<task, comments, happened, faults>>
        /\ proc \in [Handlers -> Handler]
    BY DEF AppendAudit, IInv, TypeOK
  <2>2. Finish(h) \/ Goto(h, "ensure") \/ Goto(h, "notify")
    <3>1. CASE proc[h].op = "deliver"
      BY <3>1 DEF AppendAudit
    <3>2. CASE proc[h].op \in {"link", "relink"}
      BY <3>2 DEF AppendAudit
    <3>3. CASE proc[h].op \notin {"deliver", "link", "relink"}
      BY <3>3 DEF AppendAudit
    <3> QED
      BY <3>1, <3>2, <3>3
  <2> QED
    BY <2>1, <2>2, FinishFields, GotoFields
<1>2. EntriesNumbered'
  BY <1>1 DEF LogInv, EntriesNumbered
<1>3. ASSUME faults = 0 PROVE AuditComplete' /\ OwedOnce'
  <2>1. \A g \in Handlers \ {h} : (Owing(g)' <=> Owing(g)) /\ proc'[g].entry = proc[g].entry
    BY <1>1 DEF Owing
  <2>2. \A e : e \in Owed <=> \E g \in Handlers : Owing(g) /\ e = proc[g].entry
    BY DEF Owed, Owing
  <2>3. \A e : e \in Owed' <=> \E g \in Handlers : Owing(g)' /\ e = proc'[g].entry
    BY DEF Owed, Owing
  <2>4. Owing(h) /\ ~ Owing(h)'
    BY <1>1 DEF Owing
  <2>5. \A g \in Handlers \ {h} : Owing(g) => proc[g].entry # proc[h].entry
    BY <1>3, <2>4 DEF LogInv, OwedOnce
  <2>6. Owed' = Owed \ {proc[h].entry}
    BY <2>1, <2>2, <2>3, <2>4, <2>5
  <2>7. happened' \ audit' = Owed'
    BY <1>1, <1>3, <2>6 DEF LogInv, AuditComplete
  <2>8. OwedOnce'
    BY <1>3, <2>1, <2>4 DEF LogInv, OwedOnce
  <2> QED
    BY <2>7, <2>8 DEF AuditComplete
<1> QED
  BY <1>1, <1>2, <1>3 DEF LogInv

\* A handler that starts holds no entry, and one that is about to save has numbered its own.
LEMMA LogReads ==
  ASSUME IInv, LogInv, NEW h \in Handlers, Read(h), proc' \in [Handlers -> Handler]
  PROVE  LogInv'
<1>1. UNCHANGED <<task, audit, comments, happened, faults>>
  BY DEF Read, ReadForCreate, ReadForStatus, ReadForBlocker, ReadForReassign,
         ReadForComment, ListForRecovery, LoadForDelivery, Refuse, Unchanged, vars
<1>2. comments \in Nat /\ comments >= comments /\ proc \in [Handlers -> Handler]
  BY DEF IInv, TypeOK
<1>3. CASE UNCHANGED vars
  BY <1>1, <1>2, <1>3, LogQuiet DEF vars, LogInv, EntriesNumbered, Owing
<1>4. ASSUME NEW p, proc' = [proc EXCEPT ![h] = p], proc[h].pc = "idle",
             ~ (p.pc = "audit" \/ (p.pc = "comment" /\ p.op = "block")),
             p.pc = "save" => p.entry.action # "commented" /\ p.entry.ref = p.next.version,
             p.pc = "insert" => p.entry.action = "created" /\ p.entry.ref = 0
      PROVE  LogInv'
  <2>1. proc'[h] = p /\ \A g \in Handlers \ {h} : proc'[g] = proc[g]
    BY <1>2, <1>4
  <2>2. ~ Owing(h) /\ ~ Owing(h)'
    BY <1>4, <2>1 DEF Owing
  <2> QED
    BY <1>1, <1>2, <1>4, <2>1, <2>2, LogQuiet
<1>40. ASSUME NEW op, NEW actor, NEW next, NEW entry, NEW notes,
              Hold(h, op, actor, next, entry, notes), proc[h].pc = "idle",
              entry.action # "commented", entry.ref = next.version
       PROVE  LogInv'
  <2>1. /\ proc'[h].pc = "save" /\ proc'[h].entry = entry /\ proc'[h].next = next
        /\ \A g \in Handlers \ {h} : proc'[g] = proc[g]
    BY <1>2, <1>40, HoldFields
  <2>2. ~ Owing(h) /\ ~ Owing(h)'
    BY <1>40, <2>1 DEF Owing
  <2> QED
    BY <1>1, <1>2, <1>40, <2>1, <2>2, LogQuiet
<1>5. CASE \E res \in Resolutions : ReadForCreate(h, res)
  BY <1>4, <1>5 DEF ReadForCreate, IsIdle
<1>6. CASE \E actor \in Users, requested \in Requestable : ReadForStatus(h, actor, requested)
  <2>1. PICK actor \in Users, requested \in Requestable : ReadForStatus(h, actor, requested)
    BY <1>6
  <2> DEFINE next == StatusWrite(actor, requested, task)
             entry == [action |-> IF next.status = "in_review" THEN "review_requested"
                                  ELSE "status_changed",
                       ref |-> next.version, old |-> task.status, new |-> next.status, by |-> actor]
  <2>2. proc[h].pc = "idle" /\ Hold(h, "status", actor, next, entry, NotesTo("task_status", next, actor, next.version))
    BY <2>1 DEF ReadForStatus, IsIdle
  <2>3. entry.action # "commented" /\ entry.ref = next.version
    OBVIOUS
  <2> HIDE DEF next, entry
  <2> QED
    BY <1>40, <2>2, <2>3
<1>7. CASE \E actor \in Users : ReadForBlocker(h, actor) \/ ReadForComment(h, actor)
  <2>1. PICK actor \in Users : ReadForBlocker(h, actor) \/ ReadForComment(h, actor)
    BY <1>7
  <2>2. CASE ReadForBlocker(h, actor)
    <3> DEFINE next == ApplyBlocker(task)
               entry == [action |-> "blocked", ref |-> next.version, old |-> task.status,
                         new |-> "blocked", by |-> actor]
    <3>1. proc[h].pc = "idle" /\ Hold(h, "block", actor, next, entry, NoteToCreator("task_blocked", next, actor, next.version))
      BY <2>2 DEF ReadForBlocker, IsIdle
    <3>2. entry.action # "commented" /\ entry.ref = next.version
      OBVIOUS
    <3> HIDE DEF next, entry
    <3> QED
      BY <1>40, <3>1, <3>2
  <2>3. CASE ReadForComment(h, actor)
    <3> DEFINE p == [Idle EXCEPT !.pc = "comment", !.op = "comment", !.actor = actor, !.snap = task]
    <3>1. proc[h].pc = "idle" /\ proc' = [proc EXCEPT ![h] = p]
      BY <2>3 DEF ReadForComment, IsIdle
    <3>2. p.pc = "comment" /\ p.op = "comment"
      BY DEF Idle
    <3> HIDE DEF p
    <3> QED
      BY <1>4, <3>1, <3>2
  <2> QED
    BY <2>1, <2>2, <2>3
<1>8. CASE \E actor \in Users, res \in Resolutions : ReadForReassign(h, actor, res)
  <2>1. PICK actor \in Users, res \in Resolutions : ReadForReassign(h, actor, res)
    BY <1>8
  <2> DEFINE next == Reassigned(task, res[1], res[2])
             entry == [action |-> "reassigned", ref |-> next.version, old |-> task.status,
                       new |-> next.status, by |-> actor]
  <2>2. proc[h].pc = "idle" /\ Hold(h, "reassign", actor, next, entry, NoteToAssignee("task_reassigned", next, next.version))
    BY <2>1 DEF ReadForReassign, IsIdle
  <2>3. entry.action # "commented" /\ entry.ref = next.version
    OBVIOUS
  <2> HIDE DEF next, entry
  <2> QED
    BY <1>40, <2>2, <2>3
<1>9. CASE \E acc \in Accounts : ListForRecovery(h, acc)
  <2>1. PICK acc \in Accounts : ListForRecovery(h, acc)
    BY <1>9
  <2> DEFINE next == LinkRegisteredAssignee(task, acc[1])
             entry == [action |-> "assigned", ref |-> next.version, old |-> task.status,
                       new |-> task.status, by |-> acc[1]]
  <2>2. proc[h].pc = "idle" /\ Hold(h, "link", acc[1], next, entry, NoteToAssignee("task_assigned", next, 0))
    BY <2>1 DEF ListForRecovery, IsIdle
  <2>3. entry.action # "commented" /\ entry.ref = next.version
    OBVIOUS
  <2> HIDE DEF next, entry
  <2> QED
    BY <1>40, <2>2, <2>3
<1>10. CASE \E i \in DOMAIN notifications : LoadForDelivery(h, i)
  <2>1. PICK i \in DOMAIN notifications : LoadForDelivery(h, i)
    BY <1>10
  <2> DEFINE p == [Idle EXCEPT !.pc = "send", !.op = "deliver", !.snap = task, !.index = i]
  <2>2. proc[h].pc = "idle" /\ proc' = [proc EXCEPT ![h] = p]
    BY <2>1 DEF LoadForDelivery, IsIdle
  <2>3. p.pc = "send"
    BY DEF Idle
  <2> HIDE DEF p
  <2> QED
    BY <1>4, <2>2, <2>3
<1>11. CASE \E actor \in Users, requested \in Requestable : Refuse(h, actor, requested)
  BY <1>3, <1>11 DEF Refuse
<1> QED
  BY <1>5, <1>6, <1>7, <1>8, <1>9, <1>10, <1>11 DEF Read

LEMMA LogContinues ==
  ASSUME IInv, LogInv, NEW h \in Handlers, Continue(h) \/ Fail(h), proc' \in [Handlers -> Handler]
  PROVE  LogInv'
<1>0. /\ proc \in [Handlers -> Handler] /\ comments \in Nat /\ comments >= comments
      /\ faults \in Nat
      /\ \A e \in happened : e.ref \in Nat
      /\ Sound(proc[h], task, happened)
      /\ task \in Task \cup {None}
  BY DEF IInv, TypeOK, Entry
<1>1. ASSUME \A g \in Handlers \ {h} : proc'[g] = proc[g], proc'[h].pc \notin {"save", "insert", "audit", "comment"},
             ~ Owing(h), UNCHANGED <<task, audit, comments, happened, faults>>
      PROVE  LogInv'
  BY <1>0, <1>1, LogQuiet DEF Owing
<1>2. CASE Insert(h)
  <2>1. CASE task = None /\ task' = proc[h].next /\ Goto(h, "audit")
    <3>1. /\ proc'[h].pc = "audit" /\ proc'[h].entry = proc[h].entry
          /\ proc[h].pc = "insert" /\ proc[h].entry.action = "created" /\ proc[h].entry.ref = 0
          /\ \A g \in Handlers \ {h} : proc'[g] = proc[g]
          /\ happened' = happened \cup {proc[h].entry}
          /\ UNCHANGED <<audit, comments, faults>>
      BY <1>0, <1>2, <2>1 DEF Goto, Insert, LogInv, EntriesNumbered
    <3>2. task' # None /\ task'.version \in Nat
      <4>1. PICK res \in Resolutions : proc[h].next = NewTask(Creator, res[1], res[2])
        BY <1>0, <3>1 DEF Sound
      <4>2. NewTask(Creator, res[1], res[2]) \in Task
        BY NewTaskIsTask, CreatorAssumption
      <4> QED
        BY <2>1, <4>1, <4>2, NoneAssumption DEF Task
    <3>3. \A e \in happened : e.action = "commented" /\ e.ref <= comments
      BY <2>1 DEF LogInv, EntriesNumbered
    <3> QED
      BY <3>1, <3>2, <3>3, LogStores DEF Owing
  <2>2. CASE Finish(h) /\ UNCHANGED <<task, happened>>
    <3>1. /\ proc'[h].pc = "idle" /\ \A g \in Handlers \ {h} : proc'[g] = proc[g]
          /\ proc[h].pc = "insert" /\ UNCHANGED <<audit, comments, faults>>
      BY <1>0, <1>2, <2>2 DEF Finish, Idle, Insert
    <3> QED
      BY <1>1, <2>2, <3>1 DEF Owing
  <2> QED
    BY <1>2, <2>1, <2>2 DEF Insert
<1>3. CASE Save(h)
  <2>1. /\ proc[h].pc = "save" /\ proc'[h].entry = proc[h].entry
        /\ proc'[h].pc = IF proc[h].op = "block" THEN "comment" ELSE "audit"
        /\ proc'[h].op = proc[h].op
        /\ proc[h].entry.action # "commented" /\ proc[h].entry.ref = proc[h].next.version
        /\ \A g \in Handlers \ {h} : proc'[g] = proc[g]
        /\ happened' = happened \cup {proc[h].entry} /\ task' = proc[h].next
        /\ task.version = proc[h].next.version - 1
        /\ UNCHANGED <<audit, comments, faults>>
    BY <1>0, <1>3 DEF Goto, Save, VersionMatches, LogInv, EntriesNumbered
  <2>2. Owing(h)' /\ ~ Owing(h)
    BY <2>1 DEF Owing
  <2>3. task \in Task /\ task.version \in Nat /\ task' \in Task /\ task' # None
        /\ task'.version = task.version + 1
    <3>1. task \in Task /\ task' = proc[h].next /\ StepEffect(task, task')
      BY <1>3, SaveFacts
    <3>2. task' \in Task /\ task' # None
      BY <3>1, NoneAssumption DEF StepEffect
    <3> QED
      BY <2>1, <3>1, <3>2 DEF Task
  <2>4. proc[h].entry \notin happened
    BY <1>0, <2>1, <2>3 DEF LogInv, EntriesNumbered
  <2>5. \A e \in happened' : IF e.action = "commented" THEN e.ref <= comments
                             ELSE task' # None /\ e.ref <= task'.version
    BY <1>0, <2>1, <2>3 DEF LogInv, EntriesNumbered
  <2> QED
    BY <2>1, <2>2, <2>4, <2>5, LogStores
<1>4. CASE Conflict(h)
  <2>1. /\ proc'[h].pc \in {"idle", "reread"} /\ proc[h].pc = "save"
        /\ \A g \in Handlers \ {h} : proc'[g] = proc[g]
        /\ UNCHANGED <<task, audit, comments, happened, faults>>
    <3>1. /\ proc[h].pc = "save" /\ UNCHANGED <<task, audit, comments, happened, faults>>
          /\ Finish(h) \/ Goto(h, "reread")
      BY <1>4 DEF Conflict, Unchanged
    <3> QED
      BY <1>0, <3>1, FinishFields, GotoFields
  <2> QED
    BY <1>1, <2>1 DEF Owing
<1>5. CASE RetryLink(h)
  <2>1. CASE Finish(h)
    <3>1. /\ proc'[h].pc = "idle" /\ proc[h].pc = "reread"
          /\ \A g \in Handlers \ {h} : proc'[g] = proc[g]
          /\ UNCHANGED <<task, audit, comments, happened, faults>>
      BY <1>0, <1>5, <2>1 DEF RetryLink, Finish, Idle, Unchanged
    <3> QED
      BY <1>1, <3>1 DEF Owing
  <2>2. CASE ~ Finish(h)
    <3>1. /\ proc'[h].pc = "save" /\ proc[h].pc = "reread"
          /\ proc'[h].entry.action = "assigned" /\ proc'[h].entry.ref = proc'[h].next.version
          /\ \A g \in Handlers \ {h} : proc'[g] = proc[g]
          /\ UNCHANGED <<task, audit, comments, happened, faults>>
      BY <1>0, <1>5, <2>2 DEF RetryLink, Hold, Unchanged
    <3>2. ~ Owing(h) /\ ~ Owing(h)'
      BY <3>1 DEF Owing
    <3> QED
      BY <1>0, <3>1, <3>2, LogQuiet
  <2> QED
    BY <2>1, <2>2
<1>6. CASE CreateComment(h) /\ proc[h].op = "block"
  <2>1. /\ proc'[h].pc = "audit" /\ proc[h].pc = "comment" /\ proc'[h].entry = proc[h].entry
        /\ \A g \in Handlers \ {h} : proc'[g] = proc[g]
        /\ comments' = comments + 1
        /\ UNCHANGED <<task, audit, happened, faults>>
    <3>1. /\ proc[h].pc = "comment" /\ Goto(h, "audit") /\ comments' = comments + 1
          /\ UNCHANGED <<task, audit, happened, faults>>
      BY <1>6 DEF CreateComment
    <3> QED
      BY <1>0, <3>1, GotoFields
  <2>2. Owing(h) /\ Owing(h)'
    BY <1>6, <2>1 DEF Owing
  <2> QED
    BY <1>0, <2>1, <2>2, LogQuiet
<1>7. CASE CreateComment(h) /\ proc[h].op # "block"
  <2>1. /\ proc'[h].pc = "audit" /\ proc[h].pc = "comment"
        /\ proc'[h].entry.action = "commented" /\ proc'[h].entry.ref = comments + 1
        /\ \A g \in Handlers \ {h} : proc'[g] = proc[g]
        /\ comments' = comments + 1 /\ happened' = happened \cup {proc'[h].entry}
        /\ UNCHANGED <<task, audit, faults>>
    <3> DEFINE entry == [action |-> "commented", ref |-> comments + 1, old |-> None, new |-> None,
                         by |-> proc[h].actor]
               notes == NotesTo("task_comment", proc[h].snap, proc[h].actor, comments + 1)
    <3>1. /\ proc[h].pc = "comment" /\ comments' = comments + 1
          /\ proc' = [proc EXCEPT ![h].pc = "audit", ![h].entry = entry, ![h].notes = notes]
          /\ happened' = happened \cup {entry}
          /\ UNCHANGED <<task, audit, faults>>
      BY <1>7 DEF CreateComment
    <3>2. entry.action = "commented" /\ entry.ref = comments + 1
      OBVIOUS
    <3> HIDE DEF entry, notes
    <3>3. proc'[h].pc = "audit" /\ proc'[h].entry = entry /\ \A g \in Handlers \ {h} : proc'[g] = proc[g]
      BY <1>0, <3>1 DEF Handler
    <3> QED
      BY <3>1, <3>2, <3>3
  <2>2. ~ Owing(h) /\ Owing(h)'
    BY <1>7, <2>1 DEF Owing
  <2>3. proc'[h].entry \notin happened
    BY <1>0, <2>1 DEF LogInv, EntriesNumbered
  <2>4. \A e \in happened' : IF e.action = "commented" THEN e.ref <= comments'
                             ELSE task' # None /\ e.ref <= task'.version
    BY <1>0, <2>1 DEF LogInv, EntriesNumbered
  <2> QED
    BY <2>1, <2>2, <2>3, <2>4, LogStores
<1>8. CASE AppendAudit(h)
  BY <1>8, LogAppends
<1>9. CASE Enqueue(h) \/ Requeue(h)
  <2>1. /\ proc'[h].pc \in {"idle", "notify"} /\ proc[h].pc \in {"notify", "requeue"}
        /\ \A g \in Handlers \ {h} : proc'[g] = proc[g]
        /\ UNCHANGED <<task, audit, comments, happened, faults>>
    <3>1. CASE Finish(h)
      BY <1>0, <1>9, <3>1, FinishFields DEF Enqueue, Requeue
    <3>2. CASE proc' = [proc EXCEPT ![h].notes = Tail(@)] /\ proc[h].pc = "notify"
      <4>1. proc'[h].pc = proc[h].pc /\ \A g \in Handlers \ {h} : proc'[g] = proc[g]
        BY <1>0, <3>2 DEF Handler
      <4> QED
        BY <1>9, <3>2, <4>1 DEF Enqueue, Requeue
    <3> QED
      BY <1>9, <3>1, <3>2 DEF Enqueue, Requeue
  <2> QED
    BY <1>1, <2>1 DEF Owing
<1>10. CASE EnsureNotification(h)
  <2>1. /\ proc'[h].pc \in {"idle", "notify", "requeue"} /\ proc[h].pc = "ensure"
        /\ \A g \in Handlers \ {h} : proc'[g] = proc[g]
        /\ UNCHANGED <<task, audit, comments, happened, faults>>
    <3>1. /\ proc[h].pc = "ensure" /\ UNCHANGED <<task, audit, comments, happened, faults>>
          /\ \/ Finish(h) \/ Goto(h, "notify")
             \/ \E i : proc' = [proc EXCEPT ![h].pc = "requeue", ![h].index = i]
      BY <1>10 DEF EnsureNotification, Unchanged
    <3>2. ASSUME NEW i, proc' = [proc EXCEPT ![h].pc = "requeue", ![h].index = i]
          PROVE  proc'[h].pc = "requeue" /\ \A g \in Handlers \ {h} : proc'[g] = proc[g]
      BY <1>0, <3>2 DEF Handler
    <3> QED
      BY <1>0, <3>1, <3>2, FinishFields, GotoFields
  <2> QED
    BY <1>1, <2>1 DEF Owing
<1>11. CASE DeliveryFails(h) \/ DeliveryIsPostponed(h)
  <2>1. /\ proc'[h].pc = "idle" /\ proc[h].pc = "send"
        /\ \A g \in Handlers \ {h} : proc'[g] = proc[g]
        /\ UNCHANGED <<task, audit, comments, happened, faults>>
    BY <1>0, <1>11 DEF DeliveryFails, DeliveryIsPostponed, Finish, Idle, Unchanged
  <2> QED
    BY <1>1, <2>1 DEF Owing
<1>12. CASE DeliverySucceeds(h)
  <2>1. /\ proc[h].pc = "send" /\ UNCHANGED <<task, audit, comments, happened, faults>>
    BY <1>12 DEF DeliverySucceeds
  <2>2. CASE Finish(h)
    <3>1. proc'[h].pc = "idle" /\ \A g \in Handlers \ {h} : proc'[g] = proc[g]
      BY <1>0, <2>2 DEF Finish, Idle
    <3> QED
      BY <1>1, <2>1, <3>1 DEF Owing
  <2>3. CASE ~ Finish(h)
    <3>1. /\ proc'[h].pc = "save"
          /\ proc'[h].entry.action = "sent" /\ proc'[h].entry.ref = proc'[h].next.version
          /\ \A g \in Handlers \ {h} : proc'[g] = proc[g]
      <4> DEFINE next == TransitionTo(proc[h].snap, "sent")
                 entry == [action |-> "sent", ref |-> next.version, old |-> "created",
                           new |-> "sent", by |-> None]
      <4>1. proc' = [proc EXCEPT ![h].pc = "save", ![h].next = next, ![h].entry = entry]
        BY <1>12, <2>3 DEF DeliverySucceeds
      <4>2. entry.action = "sent" /\ entry.ref = next.version
        OBVIOUS
      <4> HIDE DEF next, entry
      <4>3. /\ proc'[h].pc = "save" /\ proc'[h].entry = entry /\ proc'[h].next = next
            /\ \A g \in Handlers \ {h} : proc'[g] = proc[g]
        BY <1>0, <4>1 DEF Handler
      <4> QED
        BY <4>2, <4>3
    <3>2. ~ Owing(h) /\ ~ Owing(h)'
      BY <2>1, <3>1 DEF Owing
    <3> QED
      BY <1>0, <2>1, <3>1, <3>2, LogQuiet
  <2> QED
    BY <2>2, <2>3
<1>13. CASE Fail(h)
  <2>1. /\ proc'[h].pc = "idle" /\ \A g \in Handlers \ {h} : proc'[g] = proc[g]
        /\ faults' = faults + 1 /\ UNCHANGED <<task, audit, comments, happened>>
    BY <1>0, <1>13 DEF Fail, Finish, Idle
  <2>2. faults' # 0
    BY <1>0, <2>1
  <2> QED
    BY <1>0, <2>1, <2>2, LogQuiet
<1> QED
  BY <1>2, <1>3, <1>4, <1>5, <1>6, <1>7, <1>8, <1>9, <1>10, <1>11, <1>12, <1>13 DEF Continue

LEMMA LogStep ==
  ASSUME IInv, IInv', LogInv, [Next]_vars
  PROVE  LogInv'
<1>1. CASE Next
  <2>1. proc' \in [Handlers -> Handler]
    BY DEF IInv, TypeOK
  <2> QED
    BY <1>1, <2>1, LogReads, LogContinues DEF Next
<1>2. CASE UNCHANGED vars
  BY <1>2 DEF vars, LogInv, EntriesNumbered, OwedOnce, Owing, AuditComplete, Owed
<1> QED
  BY <1>1, <1>2

\* Whichever handlers run at once: as long as none is cut short, every stored change is logged or
\* its handler is about to log it.
THEOREM AuditIsComplete == Spec => []AuditComplete
<1>1. LogInv => AuditComplete
  BY DEF LogInv, AuditComplete
<1>2. IInv /\ IInv' /\ LogInv /\ [Next]_vars => LogInv'
  BY LogStep
<1> QED
  BY <1>1, <1>2, Invariance, LogInit, PTL DEF Spec

-----------------------------------------------------------------------------
(* A sent task was delivered, an assignee is told *)

\* Somebody was told of an assignment; u is told, or about to be.
Delivered(rows) == \E i \in DOMAIN rows : IsAssignment(rows[i].key) /\ rows[i].is_sent

Told(rows, u) == \E i \in DOMAIN rows : IsAssignment(rows[i].key) /\ rows[i].key.to = u

Carries(p, u) == \E k \in DOMAIN p.notes : IsAssignment(p.notes[k]) /\ p.notes[k].to = u

Tells(p, u) == p.pc \in {"audit", "ensure", "notify"} /\ Carries(p, u)

\* A handler that changes the assignee has the notification with it, and one that stores a task in
\* status sent saw it so, or has delivered.
Minded(p, rows) ==
  /\ p.pc = "send" => p.index \in DOMAIN rows
  /\ p.pc = "save" =>
       /\ p.next.status = "sent" => Delivered(rows)
       /\ \/ p.next.user \in {p.snap.user, None}
          \/ p.op # "block" /\ Carries(p, p.next.user)
  /\ p.pc = "insert" =>
       /\ p.next.status # "sent"
       /\ p.next.user = None \/ Carries(p, p.next.user)
  /\ p.op = "deliver" => p.notes = <<>>
  /\ p.op \in {"link", "relink"} => \A k \in DOMAIN p.notes : p.notes[k].to = p.actor
  /\ p.pc = "ensure" => p.op \in {"link", "relink"}
  /\ p.pc = "comment" => p.op \in {"block", "comment"}

\* The assignee has been told or some handler is about to.
AssigneeInMind ==
  task # None /\ task.user # None =>
    Told(notifications, task.user) \/ \E h \in Handlers : Tells(proc[h], task.user)

NoticeInv ==
  /\ \A h \in Handlers : Minded(proc[h], notifications)
  /\ SentHasEvidence
  /\ faults = 0 => AssigneeInMind

\* Rows of notifications stay, keep their keys, and stay delivered.
Kept(rows, later) ==
  \A i \in DOMAIN rows :
    /\ i \in DOMAIN later
    /\ later[i].key = rows[i].key
    /\ rows[i].is_sent => later[i].is_sent

LEMMA NoticesStay ==
  ASSUME NEW rows, NEW later, Kept(rows, later)
  PROVE  /\ Delivered(rows) => Delivered(later)
         /\ \A u : Told(rows, u) => Told(later, u)
         /\ \A p : Minded(p, rows) => Minded(p, later)
BY DEF Kept, Delivered, Told, Minded

\* A step of h that keeps what the others rely on.
LEMMA NoticeStep ==
  ASSUME IInv, NoticeInv, NEW h \in Handlers,
         \A g \in Handlers \ {h} : proc'[g] = proc[g],
         Kept(notifications, notifications'),
         Minded(proc'[h], notifications'),
         task' # None /\ task'.status = "sent" => Delivered(notifications'),
         faults' = 0 => faults = 0,
         \A u \in Users : faults' = 0 /\ task' # None /\ task'.user = u =>
           \/ Told(notifications', u) \/ Tells(proc'[h], u)
           \/ task # None /\ task.user = u /\ ~Tells(proc[h], u),
         task' \in Task \cup {None}
  PROVE  NoticeInv'
<1>1. \A g \in Handlers : Minded(proc'[g], notifications')
  BY NoticesStay DEF NoticeInv
<1>2. SentHasEvidence'
  BY DEF SentHasEvidence, Delivered
<1>3. ASSUME faults' = 0, task' # None, task'.user # None
      PROVE  Told(notifications', task'.user) \/ \E g \in Handlers : Tells(proc'[g], task'.user)
  <2> DEFINE u == task'.user
  <2>1. u \in Users
    BY <1>3 DEF Task
  <2>2. CASE Told(notifications', u) \/ Tells(proc'[h], u)
    BY <2>2
  <2>3. CASE task # None /\ task.user = u /\ ~Tells(proc[h], u)
    <3>1. Told(notifications, u) \/ \E g \in Handlers : Tells(proc[g], u)
      BY <1>3, <2>1, <2>3, NoneAssumption DEF NoticeInv, AssigneeInMind
    <3>2. \A g \in Handlers : Tells(proc[g], u) => Tells(proc'[g], u)
      BY <2>3
    <3> QED
      BY <3>1, <3>2, NoticesStay
  <2> QED
    BY <1>3, <2>1, <2>2, <2>3
<1>4. (faults = 0 => AssigneeInMind)'
  BY <1>3 DEF AssigneeInMind
<1> QED
  BY <1>1, <1>2, <1>4 DEF NoticeInv

\* A step that leaves the row and the notifications alone, after which h tells what it told.
LEMMA NoticeQuiet ==
  ASSUME IInv, NoticeInv, NEW h \in Handlers,
         \A g \in Handlers \ {h} : proc'[g] = proc[g],
         UNCHANGED <<task, notifications>>, faults' = 0 => faults = 0,
         Minded(proc'[h], notifications),
         \A u \in Users : faults' = 0 /\ Tells(proc[h], u) =>
           Tells(proc'[h], u) \/ Told(notifications, u)
  PROVE  NoticeInv'
<1>1. Kept(notifications, notifications')
  BY DEF Kept
<1>2. task' # None /\ task'.status = "sent" => Delivered(notifications')
  BY DEF NoticeInv, SentHasEvidence, Delivered
<1>3. task' \in Task \cup {None}
  BY DEF IInv, TypeOK
<1> QED
  BY <1>1, <1>2, <1>3, NoticeStep

LEMMA IdleMinded == \A rows : Minded(Idle, rows)
BY DEF Minded, Idle

\* A handler that returns and was not about to tell anything.
LEMMA NoticeFinished ==
  ASSUME IInv, NoticeInv, NEW h \in Handlers, Finish(h),
         UNCHANGED <<task, notifications>>, faults' = 0 => faults = 0,
         \A u \in Users : faults' = 0 /\ Tells(proc[h], u) => Told(notifications, u)
  PROVE  NoticeInv'
<1>1. proc'[h] = Idle /\ \A g \in Handlers \ {h} : proc'[g] = proc[g]
  BY DEF IInv, TypeOK, Finish
<1> QED
  BY <1>1, IdleMinded, NoticeQuiet

\* A handler that has read the row.
LEMMA NoticeHeld ==
  ASSUME IInv, NoticeInv, NEW h \in Handlers, NEW op, NEW actor, NEW next, NEW entry, NEW notes,
         Hold(h, op, actor, next, entry, notes), ~(proc[h].pc \in {"audit", "ensure", "notify"}),
         task # None, op # "deliver",
         \/ next.user = task.user
         \/ next.user = None
         \/ /\ op # "block"
            /\ \E k \in DOMAIN notes : IsAssignment(notes[k]) /\ notes[k].to = next.user,
         next.status = "sent" => task.status = "sent",
         op \in {"link", "relink"} => \A k \in DOMAIN notes : notes[k].to = actor,
         UNCHANGED <<task, notifications, faults>>
  PROVE  NoticeInv'
<1> DEFINE p == [pc |-> "save", op |-> op, actor |-> actor, snap |-> task,
                 next |-> next, entry |-> entry, notes |-> notes, index |-> 0]
<1>1. proc'[h] = p /\ \A g \in Handlers \ {h} : proc'[g] = proc[g]
  BY DEF IInv, TypeOK, Hold
<1>2. Minded(p, notifications)
  BY DEF Minded, Carries, NoticeInv, SentHasEvidence, Delivered
<1>3. \A u : ~Tells(proc[h], u)
  BY DEF Tells
<1> QED
  BY <1>1, <1>2, <1>3, NoticeQuiet

\* The list of notifications of a new assignee.
LEMMA NoteCarried ==
  ASSUME NEW t \in Task, NEW kind \in {"task_assigned", "task_reassigned"}, NEW ref
  PROVE  LET notes == NoteToAssignee(kind, t, ref)
         IN  /\ t.user = None \/ \E k \in DOMAIN notes :
                                    IsAssignment(notes[k]) /\ notes[k].to = t.user
             /\ \A k \in DOMAIN notes : notes[k].to = t.user
<1>1. CASE t.user = None
  BY <1>1 DEF NoteToAssignee, NoteTo
<1>2. CASE t.user # None
  <2> DEFINE note == [kind |-> kind, to |-> t.user, ref |-> ref]
  <2>1. NoteToAssignee(kind, t, ref) = <<note>>
    BY <1>2 DEF NoteToAssignee, NoteTo
  <2>2. IsAssignment(note) /\ note.to = t.user
    BY DEF IsAssignment
  <2> HIDE DEF note
  <2>3. DOMAIN <<note>> = {1} /\ <<note>>[1] = note
    OBVIOUS
  <2> QED
    BY <2>1, <2>2, <2>3
<1> QED
  BY <1>1, <1>2

\* What is read and computed keeps the news with it.
LEMMA NoticeReads ==
  ASSUME IInv, NoticeInv, NEW h \in Handlers, Read(h)
  PROVE  NoticeInv'
<1>0. TypeOK /\ task \in Task \cup {None} /\ proc \in [Handlers -> Handler]
  BY DEF IInv, TypeOK
<1>1. ASSUME NEW res \in Resolutions, ReadForCreate(h, res)
      PROVE  NoticeInv'
  <2> DEFINE t == NewTask(Creator, res[1], res[2])
             p == [pc |-> "insert", op |-> "create", actor |-> Creator, snap |-> None,
                   next  |-> t,
                   entry |-> [action |-> "created", ref |-> 0, old |-> None,
                              new |-> "created", by |-> Creator],
                   notes |-> NoteToAssignee("task_assigned", t, 0),
                   index |-> 0]
  <2>1. proc'[h] = p /\ \A g \in Handlers \ {h} : proc'[g] = proc[g]
    BY <1>0, <1>1 DEF ReadForCreate
  <2>2. t \in Task /\ t.status = "created"
    BY ResolutionsAssumption, CreatorAssumption, NewTaskIsTask DEF NewTask
  <2> HIDE DEF t
  <2>3. Minded(p, notifications)
    BY <2>2, NoteCarried DEF Minded, Carries
  <2>4. \A u : ~Tells(proc[h], u)
    BY <1>1 DEF ReadForCreate, IsIdle, Tells
  <2> HIDE DEF p
  <2> QED
    BY <1>1, <2>1, <2>3, <2>4, NoticeQuiet DEF ReadForCreate, Unchanged
<1>2. ASSUME NEW actor \in Users, NEW requested \in Requestable,
             ReadForStatus(h, actor, requested)
      PROVE  NoticeInv'
  <2> DEFINE next == StatusWrite(actor, requested, task)
             status == NormalizeRequestedStatus(actor, task, requested)
             entry == [action |-> IF next.status = "in_review" THEN "review_requested"
                                                               ELSE "status_changed",
                       ref |-> next.version, old |-> task.status,
                       new |-> next.status, by |-> actor]
             notes == NotesTo("task_status", next, actor, next.version)
  <2>1. task # None /\ task \in Task /\ StatusAllowed(actor, requested, task)
    BY <1>0, <1>2 DEF ReadForStatus, Writable
  <2>2. next = TransitionTo(task, status) /\ status \in StampedStatus
    BY <2>1, StatusAllowedFacts
  <2>3. Hold(h, "status", actor, next, entry, notes) /\ UNCHANGED <<task, notifications, faults>>
    BY <1>2 DEF ReadForStatus, Unchanged
  <2>4. status # "sent"
    BY RequestableAssumption DEF NormalizeRequestedStatus
  <2> HIDE DEF next, status
  <2>5. next.status # "sent" /\ next.user = task.user
    BY <2>1, <2>2, <2>4, TransitionToFacts
  <2>6. proc[h].pc \notin {"audit", "ensure", "notify"}
    BY <1>2 DEF ReadForStatus, IsIdle
  <2> HIDE DEF entry, notes
  <2> QED
    BY <2>1, <2>3, <2>5, <2>6, "status" \notin {"link", "relink", "deliver"}, NoticeHeld
<1>3. ASSUME NEW actor \in Users, ReadForBlocker(h, actor)
      PROVE  NoticeInv'
  <2> DEFINE next == ApplyBlocker(task)
             entry == [action |-> "blocked", ref |-> next.version, old |-> task.status,
                       new |-> "blocked", by |-> actor]
             notes == NoteToCreator("task_blocked", next, actor, next.version)
  <2>1. task # None /\ task \in Task
    BY <1>0, <1>3 DEF ReadForBlocker, Writable
  <2>2. Hold(h, "block", actor, next, entry, notes) /\ UNCHANGED <<task, notifications, faults>>
    BY <1>3 DEF ReadForBlocker, Unchanged
  <2>3. next.status # "sent" /\ next.user = task.user
    BY <2>1, ApplyBlockerFacts
  <2>4. proc[h].pc \notin {"audit", "ensure", "notify"}
    BY <1>3 DEF ReadForBlocker, IsIdle
  <2> HIDE DEF next, entry, notes
  <2> QED
    BY <2>1, <2>2, <2>3, <2>4, "block" \notin {"link", "relink", "deliver"}, NoticeHeld
<1>4. ASSUME NEW actor \in Users, NEW res \in Resolutions, ReadForReassign(h, actor, res)
      PROVE  NoticeInv'
  <2> DEFINE next == Reassigned(task, res[1], res[2])
             entry == [action |-> "reassigned", ref |-> next.version,
                       old |-> task.status, new |-> next.status, by |-> actor]
             notes == NoteToAssignee("task_reassigned", next, next.version)
  <2>1. task # None /\ task \in Task
    BY <1>0, <1>4 DEF ReadForReassign, Writable
  <2>2. res[1] \in Users \cup {None} /\ res[2] \in Employees \cup {None}
    BY ResolutionsAssumption
  <2>3. next \in Task /\ next.status # "sent"
    BY <2>1, <2>2, ReassignedFacts
  <2>4. Hold(h, "reassign", actor, next, entry, notes) /\ UNCHANGED <<task, notifications, faults>>
    BY <1>4 DEF ReadForReassign, Unchanged
  <2>5. proc[h].pc \notin {"audit", "ensure", "notify"}
    BY <1>4 DEF ReadForReassign, IsIdle
  <2> HIDE DEF next, entry
  <2>6. next.user = None \/ \E k \in DOMAIN notes : IsAssignment(notes[k]) /\ notes[k].to = next.user
    BY <2>3, NoteCarried
  <2> HIDE DEF notes
  <2> QED
    BY <2>1, <2>3, <2>4, <2>5, <2>6, "reassign" \notin {"block", "link", "relink", "deliver"},
       NoticeHeld
<1>5. ASSUME NEW actor \in Users, ReadForComment(h, actor)
      PROVE  NoticeInv'
  <2> DEFINE p == [Idle EXCEPT !.pc = "comment", !.op = "comment",
                               !.actor = actor, !.snap = task]
  <2>1. proc'[h] = p /\ \A g \in Handlers \ {h} : proc'[g] = proc[g]
    BY <1>0, <1>5 DEF ReadForComment
  <2>2. Minded(p, notifications)
    BY DEF Minded, Idle
  <2>3. \A u : ~Tells(proc[h], u)
    BY <1>5 DEF ReadForComment, IsIdle, Tells
  <2> HIDE DEF p
  <2> QED
    BY <1>5, <2>1, <2>2, <2>3, NoticeQuiet DEF ReadForComment, Unchanged
<1>6. ASSUME NEW acc \in Accounts, ListForRecovery(h, acc)
      PROVE  NoticeInv'
  <2> DEFINE next == LinkRegisteredAssignee(task, acc[1])
             entry == [action |-> "assigned", ref |-> next.version,
                       old |-> task.status, new |-> task.status, by |-> acc[1]]
             notes == NoteToAssignee("task_assigned", next, 0)
  <2>1. task # None /\ task \in Task
    BY <1>0, <1>6 DEF ListForRecovery, Writable
  <2>2. next \in Task /\ next.status = task.status /\ next.user = acc[1]
    BY <2>1, AccountsAssumption, LinkFacts
  <2>3. Hold(h, "link", acc[1], next, entry, notes) /\ UNCHANGED <<task, notifications, faults>>
    BY <1>6 DEF ListForRecovery, Unchanged
  <2>4. proc[h].pc \notin {"audit", "ensure", "notify"}
    BY <1>6 DEF ListForRecovery, IsIdle
  <2> HIDE DEF next, entry
  <2>5. /\ next.user = None \/ \E k \in DOMAIN notes : IsAssignment(notes[k]) /\ notes[k].to = next.user
        /\ \A k \in DOMAIN notes : notes[k].to = acc[1]
    BY <2>2, NoteCarried
  <2> HIDE DEF notes
  <2> QED
    BY <2>1, <2>2, <2>3, <2>4, <2>5, "link" \notin {"block", "deliver"}, NoticeHeld
<1>7. ASSUME NEW i \in DOMAIN notifications, LoadForDelivery(h, i)
      PROVE  NoticeInv'
  <2> DEFINE p == [Idle EXCEPT !.pc = "send", !.op = "deliver",
                               !.snap = task, !.index = i]
  <2>1. proc'[h] = p /\ \A g \in Handlers \ {h} : proc'[g] = proc[g]
    BY <1>0, <1>7 DEF LoadForDelivery
  <2>2. Minded(p, notifications)
    BY DEF Minded, Idle
  <2>3. \A u : ~Tells(proc[h], u)
    BY <1>7 DEF LoadForDelivery, IsIdle, Tells
  <2> HIDE DEF p
  <2> QED
    BY <1>7, <2>1, <2>2, <2>3, NoticeQuiet DEF LoadForDelivery, Unchanged
<1>8. ASSUME NEW actor \in Users, NEW requested \in Requestable, Refuse(h, actor, requested)
      PROVE  NoticeInv'
  BY <1>8 DEF Refuse, vars, NoticeInv, SentHasEvidence, AssigneeInMind
<1> QED
  BY <1>1, <1>2, <1>3, <1>4, <1>5, <1>6, <1>7, <1>8 DEF Read

\* What a handler stores comes with the news of it.
LEMMA NoticeStores ==
  ASSUME IInv, IInv', NoticeInv, NEW h \in Handlers, Insert(h) \/ Save(h)
  PROVE  NoticeInv'
<1>0. /\ task' \in Task \cup {None} /\ proc \in [Handlers -> Handler] /\ task \in Task \cup {None}
      /\ Minded(proc[h], notifications) /\ proc[h] \in Handler
  BY DEF IInv, TypeOK, NoticeInv
<1>1. CASE Insert(h) /\ task = None
  <2>1. task' = proc[h].next /\ Goto(h, "audit") /\ UNCHANGED <<notifications, faults>>
    BY <1>1 DEF Insert
  <2>2. proc'[h] = [proc[h] EXCEPT !.pc = "audit"] /\ \A g \in Handlers \ {h} : proc'[g] = proc[g]
    BY <1>0, <2>1 DEF Goto
  <2>3. Minded(proc'[h], notifications)
    BY <1>0, <2>2 DEF Minded, Handler
  <2>4. proc[h].pc = "insert"
    BY <1>1 DEF Insert
  <2>5. task'.status # "sent" /\ (task'.user = None \/ Tells(proc'[h], task'.user))
    BY <1>0, <2>1, <2>2, <2>4 DEF Minded, Handler, Tells, Carries
  <2>6. Kept(notifications, notifications')
    BY <2>1 DEF Kept
  <2> QED
    BY <1>0, <2>1, <2>2, <2>3, <2>5, <2>6, NoneAssumption, NoticeStep
<1>2. CASE Insert(h) /\ task # None
  <2>1. Finish(h) /\ UNCHANGED <<task, notifications, faults>>
    BY <1>2 DEF Insert
  <2>2. \A u : ~Tells(proc[h], u)
    BY <1>2 DEF Insert, Tells
  <2> QED
    BY <2>1, <2>2, NoticeFinished
<1>3. CASE Save(h)
  <2> DEFINE step == IF proc[h].op = "block" THEN "comment" ELSE "audit"
  <2>1. /\ task \in Task /\ proc[h].snap = task /\ task' = proc[h].next
    BY <1>3, SaveFacts
  <2>2. proc[h].pc = "save" /\ Goto(h, step) /\ UNCHANGED <<notifications, faults>>
    BY <1>3 DEF Save
  <2>3. proc'[h] = [proc[h] EXCEPT !.pc = step] /\ \A g \in Handlers \ {h} : proc'[g] = proc[g]
    BY <1>0, <2>2 DEF Goto
  <2>4. Minded(proc'[h], notifications)
    BY <1>0, <2>3 DEF Minded, Handler
  <2>5. task'.status = "sent" => Delivered(notifications)
    BY <1>0, <2>1, <2>2 DEF Minded
  <2>6. /\ \/ task'.user \in {task.user, None}
           \/ proc[h].op # "block" /\ Carries(proc[h], task'.user)
        /\ \A u : ~Tells(proc[h], u)
    BY <1>0, <2>1, <2>2 DEF Minded, Tells
  <2>7. proc[h].op # "block" /\ Carries(proc[h], task'.user) => Tells(proc'[h], task'.user)
    BY <1>0, <2>3 DEF Carries, Tells, Handler
  <2>8. Kept(notifications, notifications')
    BY <2>2 DEF Kept
  <2>9. task # None /\ None \notin Users
    BY <2>1, NoneAssumption
  <2> QED
    BY <1>0, <2>1, <2>2, <2>3, <2>4, <2>5, <2>6, <2>7, <2>8, <2>9, NoticeStep
<1> QED
  BY <1>1, <1>2, <1>3 DEF Insert

\* The steps that write neither the row nor a notification.
LEMMA NoticeContinues ==
  ASSUME IInv, IInv', NoticeInv, NEW h \in Handlers,
         \/ Conflict(h) \/ RetryLink(h) \/ CreateComment(h) \/ AppendAudit(h)
         \/ EnsureNotification(h) \/ DeliveryIsPostponed(h) \/ Fail(h)
  PROVE  NoticeInv'
<1>0. /\ task \in Task \cup {None} /\ proc \in [Handlers -> Handler]
      /\ Minded(proc[h], notifications) /\ proc[h] \in Handler /\ Sound(proc[h], task, happened)
  BY DEF IInv, TypeOK, NoticeInv
<1>1. CASE Conflict(h)
  <2>1. UNCHANGED <<task, notifications, faults>> /\ proc[h].pc = "save"
    BY <1>1 DEF Conflict, Unchanged
  <2>2. \A u : ~Tells(proc[h], u)
    BY <2>1 DEF Tells
  <2>3. CASE Finish(h)
    BY <2>1, <2>2, <2>3, NoticeFinished
  <2>4. CASE Goto(h, "reread")
    <3>1. /\ proc'[h] = [proc[h] EXCEPT !.pc = "reread"]
          /\ \A g \in Handlers \ {h} : proc'[g] = proc[g]
      BY <1>0, <2>4 DEF Goto
    <3>2. Minded(proc'[h], notifications)
      BY <1>0, <3>1 DEF Minded, Handler
    <3> QED
      BY <2>1, <2>2, <3>1, <3>2, NoticeQuiet
  <2> QED
    BY <1>1, <2>3, <2>4 DEF Conflict
<1>2. CASE RetryLink(h)
  <2>0. UNCHANGED <<task, notifications, faults>> /\ proc[h].pc = "reread"
    BY <1>2 DEF RetryLink, Unchanged
  <2>1. CASE Finish(h)
    BY <2>0, <2>1, NoticeFinished DEF Tells
  <2>2. CASE ~Finish(h)
    <3> DEFINE actor == proc[h].actor
               next == LinkRegisteredAssignee(task, actor)
               entry == [action |-> "assigned", ref |-> next.version,
                         old |-> task.status, new |-> task.status, by |-> actor]
               notes == NoteToAssignee("task_assigned", next, 0)
    <3>1. Hold(h, "relink", actor, next, entry, notes)
      BY <1>2, <2>2 DEF RetryLink
    <3>2. task # None /\ task \in Task /\ actor \in Users
      <4>1. proc[h].snap # None /\ <<actor, proc[h].snap.employee>> \in Accounts
        BY <1>0, <2>0 DEF Sound
      <4>2. task \in Task
        BY <1>0, <4>1 DEF Sound
      <4>3. actor \in Users
        BY <4>1, AccountsAssumption
      <4> QED
        BY <4>2, <4>3, NoneAssumption
    <3>3. next \in Task /\ next.status = task.status /\ next.user = actor
      BY <3>2, LinkFacts
    <3> HIDE DEF next, entry
    <3>4. /\ next.user = None \/ \E k \in DOMAIN notes : IsAssignment(notes[k]) /\ notes[k].to = next.user
          /\ \A k \in DOMAIN notes : notes[k].to = actor
      BY <3>3, NoteCarried
    <3> HIDE DEF notes, actor
    <3> QED
      BY <2>0, <3>1, <3>2, <3>3, <3>4, "relink" \notin {"block", "deliver"}, NoticeHeld
  <2> QED
    BY <2>1, <2>2
<1>3. CASE CreateComment(h)
  <2>1. UNCHANGED <<task, notifications, faults>> /\ proc[h].pc = "comment"
    BY <1>3 DEF CreateComment
  <2>2. \A g \in Handlers \ {h} : proc'[g] = proc[g]
    BY <1>0, <1>3 DEF CreateComment, Goto
  <2>3. proc'[h].pc = "audit" /\ proc'[h].op = proc[h].op
    BY <1>0, <1>3 DEF CreateComment, Goto, Handler
  <2>4. proc[h].op \in {"block", "comment"}
    BY <1>0, <2>1 DEF Minded
  <2>5. Minded(proc'[h], notifications)
    BY <2>3, <2>4 DEF Minded
  <2> QED
    BY <2>1, <2>2, <2>5, NoticeQuiet DEF Tells
<1>4. CASE AppendAudit(h)
  <2>1. UNCHANGED <<task, notifications, faults>> /\ proc[h].pc = "audit"
    BY <1>4 DEF AppendAudit
  <2>2. CASE proc[h].op = "deliver"
    <3>1. Finish(h)
      BY <1>4, <2>2 DEF AppendAudit
    <3>2. \A u : ~Tells(proc[h], u)
      BY <1>0, <2>2 DEF Minded, Tells, Carries
    <3> QED
      BY <2>1, <3>1, <3>2, NoticeFinished
  <2>3. CASE proc[h].op # "deliver"
    <3> DEFINE step == IF proc[h].op \in {"link", "relink"} THEN "ensure" ELSE "notify"
    <3>1. /\ proc'[h] = [proc[h] EXCEPT !.pc = step]
          /\ \A g \in Handlers \ {h} : proc'[g] = proc[g]
      BY <1>0, <1>4, <2>3 DEF AppendAudit, Goto
    <3>2. Minded(proc'[h], notifications)
      BY <1>0, <3>1 DEF Minded, Handler
    <3>3. \A u : Tells(proc[h], u) => Tells(proc'[h], u)
      BY <1>0, <3>1 DEF Tells, Carries, Handler
    <3> QED
      BY <2>1, <3>1, <3>2, <3>3, NoticeQuiet
  <2> QED
    BY <2>2, <2>3
<1>5. CASE EnsureNotification(h)
  <2>1. UNCHANGED <<task, notifications, faults>> /\ proc[h].pc = "ensure"
    BY <1>5 DEF EnsureNotification, Unchanged
  <2> DEFINE rows == AssignmentRows(proc[h].actor)
  <2>2. CASE rows = {}
    <3>1. /\ proc'[h] = [proc[h] EXCEPT !.pc = "notify"]
          /\ \A g \in Handlers \ {h} : proc'[g] = proc[g]
      BY <1>0, <1>5, <2>2 DEF EnsureNotification, Goto
    <3>2. Minded(proc'[h], notifications)
      BY <1>0, <3>1 DEF Minded, Handler
    <3>3. \A u : Tells(proc[h], u) => Tells(proc'[h], u)
      BY <1>0, <3>1 DEF Tells, Carries, Handler
    <3> QED
      BY <2>1, <3>1, <3>2, <3>3, NoticeQuiet
  <2>3. CASE rows # {}
    <3>1. Told(notifications, proc[h].actor)
      BY <2>3 DEF AssignmentRows, Told
    <3>2. \A u : Tells(proc[h], u) => Told(notifications, u)
      BY <1>0, <2>1, <3>1 DEF Minded, Tells, Carries
    <3>3. CASE Finish(h)
      BY <2>1, <3>2, <3>3, NoticeFinished
    <3>4. CASE ~Finish(h)
      <4>1. PICK i \in rows : proc' = [proc EXCEPT ![h].pc = "requeue", ![h].index = i]
        BY <1>5, <2>3, <3>4 DEF EnsureNotification
      <4>2. /\ proc'[h] = [proc[h] EXCEPT !.pc = "requeue", !.index = i]
            /\ \A g \in Handlers \ {h} : proc'[g] = proc[g]
        BY <1>0, <4>1
      <4>3. Minded(proc'[h], notifications)
        BY <1>0, <4>2 DEF Minded, Handler
      <4> QED
        BY <2>1, <3>2, <4>2, <4>3, NoticeQuiet
    <3> QED
      BY <3>3, <3>4
  <2> QED
    BY <2>2, <2>3
<1>6. CASE DeliveryIsPostponed(h)
  BY <1>6, NoticeFinished DEF DeliveryIsPostponed, Unchanged, Tells
<1>7. CASE Fail(h)
  <2>1. Finish(h) /\ UNCHANGED <<task, notifications>> /\ faults' # 0
    BY <1>7 DEF Fail, IInv, TypeOK
  <2> QED
    BY <2>1, NoticeFinished
<1> QED
  BY <1>1, <1>2, <1>3, <1>4, <1>5, <1>6, <1>7


\* A row that is queued, or delivered, or given up stays what it was about.
LEMMA EnqueuedKept ==
  ASSUME NEW rows \in Seq(Notification), NEW note \in Note, NEW at \in Nat
  PROVE  /\ Kept(rows, Enqueued(rows, note, at))
         /\ IsAssignment(note) => Told(Enqueued(rows, note, at), note.to)
<1>1. CASE \E i \in DOMAIN rows : rows[i].key = note
  BY <1>1 DEF Kept, Enqueued, Told
<1>2. CASE ~\E i \in DOMAIN rows : rows[i].key = note
  <2> DEFINE row == [key |-> note, state |-> "pending", is_sent |-> FALSE, at |-> at]
             later == Append(rows, row)
  <2>1. Enqueued(rows, note, at) = later
    BY <1>2 DEF Enqueued
  <2>2. row.key = note
    OBVIOUS
  <2> HIDE DEF row
  <2>3. /\ DOMAIN rows = 1..Len(rows) /\ DOMAIN later = 1..Len(rows) + 1 /\ Len(rows) \in Nat
        /\ \A i \in 1..Len(rows) : later[i] = rows[i]
        /\ later[Len(rows) + 1] = row
    OBVIOUS
  <2> HIDE DEF later
  <2>4. Kept(rows, later)
    BY <2>3 DEF Kept
  <2>5. Len(rows) + 1 \in DOMAIN later
    BY <2>3
  <2> QED
    BY <2>1, <2>2, <2>3, <2>4, <2>5 DEF Told
<1> QED
  BY <1>1, <1>2

LEMMA OverwrittenKept ==
  ASSUME NEW rows \in Seq(Notification), NEW i, NEW x
  PROVE  /\ Kept(rows, [rows EXCEPT ![i].state = x])
         /\ Kept(rows, [rows EXCEPT ![i].at = x])
         /\ Kept(rows, [rows EXCEPT ![i].is_sent = TRUE])
<1>1. \A r \in Notification :
        /\ [r EXCEPT !.state = x].key = r.key /\ [r EXCEPT !.state = x].is_sent = r.is_sent
        /\ [r EXCEPT !.at = x].key = r.key /\ [r EXCEPT !.at = x].is_sent = r.is_sent
        /\ [r EXCEPT !.is_sent = TRUE].key = r.key /\ [r EXCEPT !.is_sent = TRUE].is_sent
  BY DEF Notification
<1>2. \A j \in DOMAIN rows : rows[j] \in Notification
  OBVIOUS
<1>3. ASSUME NEW r, i \in DOMAIN rows =>
               r.key = rows[i].key /\ (rows[i].is_sent => r.is_sent)
      PROVE  Kept(rows, [rows EXCEPT ![i] = r])
  BY <1>3 DEF Kept
<1>4. Kept(rows, [rows EXCEPT ![i] = [rows[i] EXCEPT !.state = x]])
  BY <1>1, <1>2, <1>3
<1>5. Kept(rows, [rows EXCEPT ![i] = [rows[i] EXCEPT !.at = x]])
  BY <1>1, <1>2, <1>3
<1>6. Kept(rows, [rows EXCEPT ![i] = [rows[i] EXCEPT !.is_sent = TRUE]])
  BY <1>1, <1>2, <1>3
<1> QED
  BY <1>4, <1>5, <1>6

\* Keeping is transitive.
LEMMA KeptTwice ==
  ASSUME NEW a, NEW b, NEW c, Kept(a, b), Kept(b, c)
  PROVE  Kept(a, c)
BY DEF Kept

\* A handler that writes to the notifications and returns.
LEMMA NoticeReturns ==
  ASSUME IInv, IInv', NoticeInv, NEW h \in Handlers, Kept(notifications, notifications'),
         Finish(h), UNCHANGED <<task, faults>>, proc[h].pc \notin {"audit", "ensure", "notify"}
  PROVE  NoticeInv'
<1>1. proc'[h] = Idle /\ \A g \in Handlers \ {h} : proc'[g] = proc[g]
  BY DEF IInv, TypeOK, Finish
<1>2. Minded(proc'[h], notifications')
  BY <1>1, IdleMinded
<1>3. task' # None /\ task'.status = "sent" => Delivered(notifications')
  BY NoticesStay DEF NoticeInv, SentHasEvidence, Delivered
<1>4. task' \in Task \cup {None}
  BY DEF IInv, TypeOK
<1> QED
  BY <1>1, <1>2, <1>3, <1>4, NoticeStep DEF Tells

\* The steps that write notifications.
LEMMA NoticeWrites ==
  ASSUME IInv, IInv', NoticeInv, NEW h \in Handlers,
         Enqueue(h) \/ Requeue(h) \/ DeliverySucceeds(h) \/ DeliveryFails(h)
  PROVE  NoticeInv'
<1>0. /\ task \in Task \cup {None} /\ proc \in [Handlers -> Handler]
      /\ notifications \in Seq(Notification)
      /\ Minded(proc[h], notifications) /\ proc[h] \in Handler /\ Sound(proc[h], task, happened)
  BY DEF IInv, TypeOK, NoticeInv
<1>1. CASE Enqueue(h)
  <2>0. UNCHANGED <<task, faults>> /\ proc[h].pc = "notify"
    BY <1>1 DEF Enqueue
  <2>1. CASE proc[h].notes = <<>>
    <3>1. Finish(h) /\ UNCHANGED notifications /\ \A u : ~Tells(proc[h], u)
      BY <1>1, <2>1 DEF Enqueue, Tells, Carries
    <3> QED
      BY <2>0, <3>1, NoticeFinished
  <2>2. CASE proc[h].notes # <<>>
    <3> DEFINE notes == proc[h].notes
    <3>1. /\ proc'[h] = [proc[h] EXCEPT !.notes = Tail(notes)]
          /\ \A g \in Handlers \ {h} : proc'[g] = proc[g]
          /\ notifications' = Enqueued(notifications, Head(notes), proc[h].entry.ref)
      BY <1>0, <1>1, <2>2 DEF Enqueue
    <3>2. Head(notes) \in Note /\ proc[h].entry.ref \in Nat /\ notes \in Seq(Note)
      BY <1>0, <2>2, HeadTailProperties DEF Handler, Entry
    <3>3. /\ Kept(notifications, notifications')
          /\ IsAssignment(Head(notes)) => Told(notifications', Head(notes).to)
      BY <1>0, <3>1, <3>2, EnqueuedKept
    <3>4. \A k \in DOMAIN Tail(notes) : k + 1 \in DOMAIN notes /\ Tail(notes)[k] = notes[k + 1]
      BY <2>2, <3>2
    <3>5. \A k \in DOMAIN notes : k # 1 => /\ k - 1 \in DOMAIN Tail(notes)
                                           /\ Tail(notes)[k - 1] = notes[k]
      BY <2>2, <3>2
    <3>6. /\ proc'[h].pc = "notify" /\ proc'[h].op = proc[h].op /\ proc'[h].actor = proc[h].actor
          /\ proc'[h].notes = Tail(notes)
      BY <1>0, <2>0, <3>1 DEF Handler
    <3>7. Minded(proc'[h], notifications')
      <4>1. proc[h].op # "deliver"
        BY <1>0, <2>2 DEF Minded
      <4>2. proc[h].op \in {"link", "relink"} =>
              \A k \in DOMAIN Tail(notes) : Tail(notes)[k].to = proc[h].actor
        BY <1>0, <3>4 DEF Minded
      <4> QED
        BY <3>6, <4>1, <4>2 DEF Minded
    <3>8. \A u : Tells(proc[h], u) => Tells(proc'[h], u) \/ Told(notifications', u)
      BY <2>0, <3>3, <3>5, <3>6 DEF Tells, Carries
    <3>9. task' # None /\ task'.status = "sent" => Delivered(notifications')
      BY <2>0, <3>3, NoticesStay DEF NoticeInv, SentHasEvidence, Delivered
    <3> QED
      BY <1>0, <2>0, <3>1, <3>3, <3>7, <3>8, <3>9, NoticeStep
  <2> QED
    BY <2>1, <2>2
<1>2. CASE Requeue(h)
  <2> DEFINE i == proc[h].index
             rows == [notifications EXCEPT ![i].state = "pending"]
             later == [rows EXCEPT ![i].at = proc[h].entry.ref]
  <2>1. /\ UNCHANGED <<task, faults>> /\ proc[h].pc = "requeue" /\ Finish(h)
        /\ notifications' = later
    BY <1>2 DEF Requeue
  <2>2. Kept(notifications, rows) /\ rows \in Seq(Notification)
    BY <1>0, OverwrittenKept, NotificationsExcept
  <2> HIDE DEF rows
  <2>3. Kept(rows, later)
    BY <2>2, OverwrittenKept
  <2> HIDE DEF later
  <2> QED
    BY <2>1, <2>2, <2>3, KeptTwice, NoticeReturns
<1>3. CASE DeliverySucceeds(h)
  <2> DEFINE i == proc[h].index
             t == proc[h].snap
             next == TransitionTo(t, "sent")
             entry == [action |-> "sent", ref |-> next.version,
                       old |-> "created", new |-> "sent", by |-> None]
             rows == [notifications EXCEPT ![i].state = "sent"]
             later == [rows EXCEPT ![i].is_sent = TRUE]
  <2>1. UNCHANGED <<task, faults>> /\ proc[h].pc = "send" /\ notifications' = later
    BY <1>3 DEF DeliverySucceeds
  <2>2. Kept(notifications, rows) /\ rows \in Seq(Notification)
    BY <1>0, OverwrittenKept, NotificationsExcept
  <2>3. i \in DOMAIN notifications /\ DOMAIN later = DOMAIN notifications
    BY <1>0, <2>1 DEF Minded
  <2>4. later[i].is_sent
    <3>1. rows[i] \in Notification /\ DOMAIN rows = DOMAIN notifications
      BY <2>2, <2>3
    <3> HIDE DEF rows
    <3>2. later[i] = [rows[i] EXCEPT !.is_sent = TRUE]
      BY <2>3, <3>1
    <3> QED
      BY <3>1, <3>2 DEF Notification
  <2> HIDE DEF rows
  <2>5. Kept(notifications, later)
    BY <2>2, OverwrittenKept, KeptTwice
  <2> HIDE DEF later
  <2>6. CASE Finish(h)
    BY <2>1, <2>5, <2>6, NoticeReturns
  <2>7. CASE ~Finish(h)
    <3>1. /\ MarksTaskSent(i, t)
          /\ proc'[h] = [proc[h] EXCEPT !.pc = "save", !.next = next, !.entry = entry]
          /\ \A g \in Handlers \ {h} : proc'[g] = proc[g]
      BY <1>0, <1>3, <2>7 DEF DeliverySucceeds
    <3>2. t \in Task /\ IsAssignment(notifications[i].key)
      BY <1>0, <3>1 DEF MarksTaskSent, Handler
    <3>3. next.user = t.user
      BY <3>2, TransitionToFacts DEF StampedStatus, TaskStatus
    <3> HIDE DEF next, entry
    <3>4. Delivered(later)
      BY <2>3, <2>4, <2>5, <3>2 DEF Delivered, Kept
    <3>5. /\ proc'[h].pc = "save" /\ proc'[h].op = proc[h].op /\ proc'[h].notes = proc[h].notes
          /\ proc'[h].snap = t /\ proc'[h].next = next
      BY <1>0, <3>1 DEF Handler
    <3>6. proc[h].op = "deliver"
      BY <1>0, <2>1 DEF Sound
    <3>7. Minded(proc'[h], later)
      BY <1>0, <3>3, <3>4, <3>5, <3>6 DEF Minded
    <3> QED
      BY <1>0, <2>1, <2>5, <3>1, <3>4, <3>7, NoticeStep DEF Tells
  <2> QED
    BY <2>6, <2>7
<1>4. CASE DeliveryFails(h)
  <2>1. /\ UNCHANGED <<task, faults>> /\ proc[h].pc = "send" /\ Finish(h)
        /\ notifications' = [notifications EXCEPT ![proc[h].index].state = "failed"]
    BY <1>4 DEF DeliveryFails
  <2>2. Kept(notifications, notifications')
    BY <1>0, <2>1, OverwrittenKept
  <2> QED
    BY <2>1, <2>2, NoticeReturns
<1> QED
  BY <1>1, <1>2, <1>3, <1>4

LEMMA NoticeInit == Init => NoticeInv
BY DEF Init, NoticeInv, Minded, Idle, SentHasEvidence, AssigneeInMind

LEMMA NoticeNext ==
  ASSUME IInv, IInv', NoticeInv, [Next]_vars
  PROVE  NoticeInv'
<1>1. CASE Next
  BY <1>1, NoticeReads, NoticeStores, NoticeContinues, NoticeWrites DEF Next, Continue
<1>2. CASE UNCHANGED vars
  BY <1>2 DEF vars, NoticeInv, SentHasEvidence, AssigneeInMind
<1> QED
  BY <1>1, <1>2

\* What handlers hold of the news, whichever of them run at once.
THEOREM NoticesAreKept == Spec => []NoticeInv
<1>1. IInv /\ IInv' /\ NoticeInv /\ [Next]_vars => NoticeInv'
  BY NoticeNext
<1> QED
  BY <1>1, Invariance, NoticeInit, PTL DEF Spec

\* No handler, however late, puts a task in status sent of which no assignment was delivered:
\* mark_related_task_as_sent comes after the delivery, and the other writes keep the status only if
\* the row they read had it.  A requeue takes the notification back but not its delivery.
THEOREM SentIsEvidenced == Spec => []SentHasEvidence
<1>1. NoticeInv => SentHasEvidence
  BY DEF NoticeInv
<1> QED
  BY <1>1, NoticesAreKept, PTL

\* Whoever holds the task was told of it once all handlers are done and none was cut short,
\* whichever of the creation, a reassignment and a recovery gave it to them.
THEOREM AssigneeIsNotified == Spec => []AssigneeNotified
<1>1. ASSUME NoticeInv PROVE AssigneeNotified
  <2> SUFFICES ASSUME AllIdle, faults = 0, task # None, task.user # None
               PROVE  Told(notifications, task.user)
    BY DEF AssigneeNotified, Told
  <2> QED
    BY <1>1 DEF NoticeInv, AssigneeInMind, Tells, AllIdle, IsIdle
<1> QED
  BY <1>1, NoticesAreKept, PTL

-----------------------------------------------------------------------------
(* The cards of the tasks *)

\* For any row at all: what is offered to somebody is accepted from them, but for a second
\* blocker.  (RoleAuthorizationPolicy::available_actions against the checks of
\* UpdateTaskStatusUseCase, ReportTaskBlockerUseCase, ReassignTaskUseCase and
\* AddTaskCommentUseCase.)
LEMMA OfferIsAccepted ==
  ASSUME NEW t \in Task, NEW actor \in Viewers(t), NEW action \in Actions,
         IsOffered(actor, t, action)
  PROVE  \/ IsAccepted(actor, t, action)
         \/ action = "ReportBlocker" /\ t.status = "blocked"
<1>1. /\ actor \in Users
      /\ actor # None
      /\ Participates(actor, t)
  BY NoneAssumption DEF Viewers
<1>2. CASE action = "StartProgress"
  <2>1. /\ t.status \in {"created", "sent", "blocked"}
        /\ actor = t.user \/ IsAdmin(actor)
    BY <1>2 DEF IsOffered, MayWorkOn
  <2>2. StatusAllowed(actor, "in_progress", t)
    BY <2>1 DEF StatusAllowed, NormalizeRequestedStatus, ReviewMissing, CanChangeStatus,
                AssigneeCanChangeStatus, CanTransitionTo, Edges
  <2>. QED BY <1>2, <2>2 DEF IsAccepted, AskedStatus
<1>3. CASE action = "SubmitForReview"
  <2>1. /\ t.status \in {"sent", "in_progress", "blocked"}
        /\ actor = t.user \/ IsAdmin(actor)
    BY <1>3 DEF IsOffered, MayWorkOn
  <2>2. StatusAllowed(actor, "in_review", t)
    BY <2>1 DEF StatusAllowed, NormalizeRequestedStatus, ReviewMissing, CanChangeStatus,
                AssigneeCanChangeStatus, CanTransitionTo, Edges
  <2>. QED BY <1>3, <2>2 DEF IsAccepted, AskedStatus
<1>4. CASE action = "ApproveReview"
  <2>1. /\ t.status = "in_review"
        /\ actor = t.creator \/ IsManagerOrAdmin(actor)
    BY <1>4 DEF IsOffered, MayManage
  <2>2. StatusAllowed(actor, "completed", t)
    BY <2>1 DEF StatusAllowed, NormalizeRequestedStatus, ReviewMissing, CanChangeStatus,
                CreatorCanChangeStatus, ManagerCanChangeStatus, CanTransitionTo, Edges
  <2>. QED BY <1>4, <2>2 DEF IsAccepted, AskedStatus
<1>5. CASE action = "ReturnToWork"
  <2>1. /\ t.status = "in_review"
        /\ actor = t.creator \/ IsManagerOrAdmin(actor)
    BY <1>5 DEF IsOffered, MayManage
  <2>2. StatusAllowed(actor, "in_progress", t)
    BY <2>1 DEF StatusAllowed, NormalizeRequestedStatus, ReviewMissing, CanChangeStatus,
                CreatorCanChangeStatus, ManagerCanChangeStatus, CanTransitionTo, Edges
  <2>. QED BY <1>5, <2>2 DEF IsAccepted, AskedStatus
<1>6. CASE action = "ReportBlocker"
  <2>1. /\ t.status \in {"created", "sent", "in_progress", "blocked"}
        /\ actor = t.user \/ IsAdmin(actor)
    BY <1>6 DEF IsOffered, MayWorkOn
  <2>2. t.status # "blocked" => BlockerAllowed(actor, t)
    BY <2>1 DEF BlockerAllowed, CanReportBlocker, CanTransitionTo, Edges
  <2>. QED BY <1>6, <2>2 DEF IsAccepted, AskedStatus
<1>7. CASE action = "Reassign"
  <2>1. ~IsTerminal(t.status)
    BY <1>7 DEF IsOffered
  <2>. QED BY <1>1, <1>7, <2>1 DEF IsAccepted, AskedStatus, ReassignAllowed
<1>8. CASE action = "Cancel"
  <2>1. /\ ~IsTerminal(t.status)
        /\ actor = t.user \/ actor = t.creator \/ IsManagerOrAdmin(actor)
    BY <1>8 DEF IsOffered, MayManage
  <2>2. t.status \in {"created", "sent", "in_progress", "blocked", "in_review"}
    BY <2>1 DEF IsTerminal, Task, TaskStatus
  <2>3. StatusAllowed(actor, "cancelled", t)
    BY <2>1, <2>2 DEF StatusAllowed, NormalizeRequestedStatus, ReviewMissing, CanChangeStatus,
                CreatorCanChangeStatus, AssigneeCanChangeStatus, ManagerCanChangeStatus,
                CanTransitionTo, Edges
  <2>. QED BY <1>8, <2>3 DEF IsAccepted, AskedStatus
<1>9. CASE action = "AddComment"
  BY <1>1, <1>9 DEF IsAccepted, AskedStatus
<1>. QED
  BY <1>2, <1>3, <1>4, <1>5, <1>6, <1>7, <1>8, <1>9 DEF Actions

\* Spec => []OffersAgreeWithUseCases: the stored row is always a row, so that the lemma is about
\* every card that is ever shown.
THEOREM OffersAgree == Spec => []OffersAgreeWithUseCases
<1>1. TypeOK => OffersAgreeWithUseCases
  <2> SUFFICES ASSUME TypeOK, task # None,
                      NEW actor \in Viewers(task), NEW action \in Actions,
                      IsOffered(actor, task, action)
               PROVE  \/ IsAccepted(actor, task, action)
                      \/ action = "ReportBlocker" /\ task.status = "blocked"
    BY DEF OffersAgreeWithUseCases
  <2>1. task \in Task
    BY DEF TypeOK
  <2>. QED BY <2>1, OfferIsAccepted
<1>. QED
  BY <1>1, TypeCorrect, PTL

=============================================================================
