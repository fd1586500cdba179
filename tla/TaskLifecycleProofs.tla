------------------------ MODULE TaskLifecycleProofs ------------------------
(***************************************************************************)
(* What every legal step of a task row guarantees, proved once from the    *)
(* definitions of TaskLifecycle and cited by the proofs about handlers.    *)
(***************************************************************************)
EXTENDS TaskLifecycle, TLAPS

\* Task::new makes a well-formed row.
LEMMA NewTaskIsTask ==
  ASSUME NEW creator \in Users, NEW res \in Resolutions
  PROVE  NewTask(creator, res[1], res[2]) \in Task
<1>1. res[1] \in Users \cup {None} /\ res[2] \in Employees \cup {None}
  BY ResolutionsAssumption
<1>2. NoStamps \in [StampedStatus -> Nat]
  BY DEF NoStamps
<1> QED
  BY <1>1, <1>2 DEF NewTask, Task, TaskStatus

\* One field of a row at a time may be overwritten with a value of its type.
LEMMA TaskExcept ==
  ASSUME NEW t \in Task
  PROVE  /\ \A x \in Nat : [t EXCEPT !.version = x] \in Task
         /\ \A x \in Users \cup {None} : [t EXCEPT !.user = x] \in Task
         /\ \A x \in Employees \cup {None} : [t EXCEPT !.employee = x] \in Task
         /\ \A x \in TaskStatus : [t EXCEPT !.status = x] \in Task
         /\ \A x \in {"none", "given"} : [t EXCEPT !.reason = x] \in Task
         /\ \A x \in [StampedStatus -> Nat] : [t EXCEPT !.stamps = x] \in Task
<1>1. \A x \in Nat : [t EXCEPT !.version = x] \in Task
  BY DEF Task
<1>2. \A x \in Users \cup {None} : [t EXCEPT !.user = x] \in Task
  BY DEF Task
<1>3. \A x \in Employees \cup {None} : [t EXCEPT !.employee = x] \in Task
  BY DEF Task
<1>4. \A x \in TaskStatus : [t EXCEPT !.status = x] \in Task
  BY DEF Task
<1>5. \A x \in {"none", "given"} : [t EXCEPT !.reason = x] \in Task
  BY DEF Task
<1>6. \A x \in [StampedStatus -> Nat] : [t EXCEPT !.stamps = x] \in Task
  BY DEF Task
<1> QED
  BY <1>1, <1>2, <1>3, <1>4, <1>5, <1>6

\* transition_to stores a well-formed row, one version on, in the status asked
\* for, and leaves the people alone.
LEMMA TransitionToFacts ==
  ASSUME NEW t \in Task, NEW next \in StampedStatus
  PROVE  /\ TransitionTo(t, next) \in Task
         /\ TransitionTo(t, next).version = t.version + 1
         /\ TransitionTo(t, next).status = next
         /\ TransitionTo(t, next).creator = t.creator
         /\ TransitionTo(t, next).user = t.user
         /\ TransitionTo(t, next).employee = t.employee
         /\ TransitionTo(t, next).reason = IF next = "blocked" THEN t.reason ELSE "none"
         /\ TransitionTo(t, next).stamps = MarkTimestamp(t, next)
<1> DEFINE stamps == MarkTimestamp(t, next)
           reason == IF next = "blocked" THEN t.reason ELSE "none"
           a == [t EXCEPT !.version = t.version + 1]
           b == [a EXCEPT !.status = next]
           c == [b EXCEPT !.stamps = stamps]
           d == [c EXCEPT !.reason = reason]
<1>1. stamps \in [StampedStatus -> Nat]
  BY DEF MarkTimestamp, Task
<1>2. reason \in {"none", "given"}
  BY DEF Task
<1>3. TransitionTo(t, next) = d
  BY DEF TransitionTo
<1>4. d \in Task
  <2> HIDE DEF stamps, reason
  <2>1. a \in Task
    BY TaskExcept DEF Task
  <2>2. b \in Task
    BY <2>1, TaskExcept DEF StampedStatus
  <2>3. c \in Task
    BY <2>2, <1>1, TaskExcept
  <2> QED
    BY <2>3, <1>2, TaskExcept
<1> HIDE DEF stamps, reason
<1>5. /\ d.version = t.version + 1
      /\ d.status = next
      /\ d.creator = t.creator
      /\ d.user = t.user
      /\ d.employee = t.employee
      /\ d.reason = reason
      /\ d.stamps = stamps
  BY DEF Task
<1> QED
  BY <1>3, <1>4, <1>5 DEF stamps, reason

\* reassign stores a well-formed row that starts again for the new assignee.
LEMMA ReassignedFacts ==
  ASSUME NEW t \in Task, NEW user \in Users \cup {None},
         NEW employee \in Employees \cup {None}
  PROVE  /\ Reassigned(t, user, employee) \in Task
         /\ Reassigned(t, user, employee).version = t.version + 1
         /\ Reassigned(t, user, employee).status = "created"
         /\ Reassigned(t, user, employee).creator = t.creator
         /\ Reassigned(t, user, employee).user = user
         /\ Reassigned(t, user, employee).employee = employee
         /\ Reassigned(t, user, employee).reason = "none"
         /\ Reassigned(t, user, employee).stamps = NoStamps
<1> DEFINE a == [t EXCEPT !.version = t.version + 1]
           b == [a EXCEPT !.user = user]
           c == [b EXCEPT !.employee = employee]
           d == [c EXCEPT !.status = "created"]
           e == [d EXCEPT !.reason = "none"]
           f == [e EXCEPT !.stamps = NoStamps]
<1>1. NoStamps \in [StampedStatus -> Nat]
  BY DEF NoStamps
<1>2. Reassigned(t, user, employee) = f
  BY DEF Reassigned
<1>3. f \in Task
  <2>1. a \in Task
    BY TaskExcept DEF Task
  <2>2. b \in Task
    BY <2>1, TaskExcept
  <2>3. c \in Task
    BY <2>2, TaskExcept
  <2>4. d \in Task
    BY <2>3, TaskExcept DEF TaskStatus
  <2>5. e \in Task
    BY <2>4, TaskExcept
  <2> QED
    BY <2>5, <1>1, TaskExcept
<1>4. /\ f.version = t.version + 1
      /\ f.status = "created"
      /\ f.creator = t.creator
      /\ f.user = user
      /\ f.employee = employee
      /\ f.reason = "none"
      /\ f.stamps = NoStamps
  BY DEF Task
<1> QED
  BY <1>2, <1>3, <1>4

\* apply_blocker is a transition to blocked that sets the reason.
LEMMA ApplyBlockerFacts ==
  ASSUME NEW t \in Task
  PROVE  /\ ApplyBlocker(t) \in Task
         /\ ApplyBlocker(t).version = t.version + 1
         /\ ApplyBlocker(t).status = "blocked"
         /\ ApplyBlocker(t).creator = t.creator
         /\ ApplyBlocker(t).user = t.user
         /\ ApplyBlocker(t).employee = t.employee
         /\ ApplyBlocker(t).reason = "given"
         /\ ApplyBlocker(t).stamps = MarkTimestamp(t, "blocked")
<1> DEFINE a == TransitionTo(t, "blocked")
<1>1. /\ a \in Task
      /\ a.version = t.version + 1
      /\ a.status = "blocked"
      /\ a.creator = t.creator
      /\ a.user = t.user
      /\ a.employee = t.employee
      /\ a.stamps = MarkTimestamp(t, "blocked")
  BY TransitionToFacts DEF StampedStatus, TaskStatus
<1>2. ApplyBlocker(t) = [a EXCEPT !.reason = "given"]
  BY DEF ApplyBlocker
<1> HIDE DEF a
<1>3. [a EXCEPT !.reason = "given"] \in Task
  BY <1>1, TaskExcept
<1> QED
  BY <1>1, <1>2, <1>3 DEF Task

\* link_registered_assignee changes the version and the account only.
LEMMA LinkFacts ==
  ASSUME NEW t \in Task, NEW user \in Users
  PROVE  /\ LinkRegisteredAssignee(t, user) \in Task
         /\ LinkRegisteredAssignee(t, user).version = t.version + 1
         /\ LinkRegisteredAssignee(t, user).status = t.status
         /\ LinkRegisteredAssignee(t, user).creator = t.creator
         /\ LinkRegisteredAssignee(t, user).user = user
         /\ LinkRegisteredAssignee(t, user).employee = t.employee
         /\ LinkRegisteredAssignee(t, user).reason = t.reason
         /\ LinkRegisteredAssignee(t, user).stamps = t.stamps
<1> DEFINE a == [t EXCEPT !.version = t.version + 1]
           b == [a EXCEPT !.user = user]
<1>1. LinkRegisteredAssignee(t, user) = b
  BY DEF LinkRegisteredAssignee
<1>2. a \in Task
  BY TaskExcept DEF Task
<1>3. b \in Task
  BY <1>2, TaskExcept
<1> QED
  BY <1>1, <1>3 DEF Task

\* The edges of the state machine lead out of an open status into a stamped one.
LEMMA EdgesLeaveOpenStatus ==
  ASSUME NEW from, NEW to, CanTransitionTo(from, to)
  PROVE  ~IsTerminal(from) /\ to \in StampedStatus /\ from \in TaskStatus
BY DEF CanTransitionTo, Edges, IsTerminal, StampedStatus, TaskStatus

\* A requested status is never normalized to a blocker, and completing needs
\* the creator or a manager or an admin, and a review.
LEMMA StatusAllowedFacts ==
  ASSUME NEW t \in Task, NEW actor \in Users, NEW requested \in Requestable,
         StatusAllowed(actor, requested, t)
  PROVE  LET next == NormalizeRequestedStatus(actor, t, requested)
         IN  /\ next \in StampedStatus \ {"blocked"}
             /\ ~IsTerminal(t.status)
             /\ StatusWrite(actor, requested, t) = TransitionTo(t, next)
             /\ next = "completed" => /\ actor = t.creator \/ IsManagerOrAdmin(actor)
                                      /\ t.status = "in_review"
<1> DEFINE next == NormalizeRequestedStatus(actor, t, requested)
<1>1. CanTransitionTo(t.status, next) /\ CanChangeStatus(actor, t, next)
  BY DEF StatusAllowed
<1>2. next # "blocked"
  BY RequestableAssumption DEF NormalizeRequestedStatus
<1>3. StatusWrite(actor, requested, t) = TransitionTo(t, next)
  BY DEF StatusWrite
<1> HIDE DEF next
<1>4. next = "completed" => /\ actor = t.creator \/ IsManagerOrAdmin(actor)
                            /\ t.status = "in_review"
  BY <1>1 DEF CanChangeStatus, AssigneeCanChangeStatus, IsAdmin, IsManagerOrAdmin,
              CanTransitionTo, Edges
<1> QED
  BY <1>1, <1>2, <1>3, <1>4, EdgesLeaveOpenStatus DEF next

\* What a legal step does to the parts of a row that the invariants relate.
StepEffect(before, after) ==
  /\ after \in Task
  /\ after.version = before.version + 1
  /\ after.creator = before.creator
  /\ ~IsTerminal(before.status)
  /\ \A s \in StampedStatus :
       after.stamps[s] \in {0, before.stamps[s], before.version + 1}
  /\ \/ after.reason = before.reason /\ after.status = before.status
     \/ after.reason = "given" /\ after.status = "blocked"
     \/ after.reason = "none" /\ after.status # "blocked"
  /\ \/ after.user = before.user /\ after.employee = before.employee
     \/ <<after.user, after.employee>> \in Resolutions \cup Accounts

\* The first entry into a status is stamped with the version of the write.
LEMMA MarkTimestampFacts ==
  ASSUME NEW t \in Task, NEW next \in StampedStatus, NEW s \in StampedStatus
  PROVE  MarkTimestamp(t, next)[s] \in {0, t.stamps[s], t.version + 1}
BY DEF MarkTimestamp, Task

\* A legal step starts from an open task and stores a well-formed row of the
\* same creator, one version on: a blocker comes with its reason, the account
\* and the record belong together, no old timestamp is touched.
LEMMA LegalStepFacts ==
  ASSUME NEW before \in Task, NEW after, LegalStep(before, after)
  PROVE  StepEffect(before, after)
<1> USE DEF StepEffect
<1>1. CASE ChangeStatusStep(before, after)
  <2>1. PICK actor \in Users, requested \in Requestable :
          /\ StatusAllowed(actor, requested, before)
          /\ after = StatusWrite(actor, requested, before)
    BY <1>1 DEF ChangeStatusStep
  <2> DEFINE next == NormalizeRequestedStatus(actor, before, requested)
  <2>2. /\ next \in StampedStatus \ {"blocked"}
        /\ ~IsTerminal(before.status)
        /\ after = TransitionTo(before, next)
    BY <2>1, StatusAllowedFacts
  <2> HIDE DEF next
  <2> QED
    BY <2>2, TransitionToFacts, MarkTimestampFacts
<1>2. CASE ReportBlockerStep(before, after)
  <2>1. CanTransitionTo(before.status, "blocked") /\ after = ApplyBlocker(before)
    BY <1>2 DEF ReportBlockerStep, BlockerAllowed
  <2>2. "blocked" \in StampedStatus
    BY DEF StampedStatus, TaskStatus
  <2> QED
    BY <2>1, <2>2, EdgesLeaveOpenStatus, ApplyBlockerFacts, MarkTimestampFacts
<1>3. CASE ReassignStep(before, after)
  <2>1. PICK res \in Resolutions :
          after = Reassigned(before, res[1], res[2]) /\ ~IsTerminal(before.status)
    BY <1>3 DEF ReassignStep, ReassignAllowed
  <2>2. /\ res[1] \in Users \cup {None} /\ res[2] \in Employees \cup {None}
        /\ res = <<res[1], res[2]>>
    BY ResolutionsAssumption
  <2>3. \A s \in StampedStatus : NoStamps[s] = 0
    BY DEF NoStamps
  <2> QED
    BY <2>1, <2>2, <2>3, ReassignedFacts
<1>4. CASE LinkStep(before, after)
  <2>1. PICK acc \in Accounts :
          /\ after = LinkRegisteredAssignee(before, acc[1])
          /\ before.employee = acc[2]
          /\ ~IsTerminal(before.status)
    BY <1>4 DEF LinkStep, ShouldLinkTask
  <2>2. acc[1] \in Users /\ acc = <<acc[1], acc[2]>>
    BY AccountsAssumption
  <2> QED
    BY <2>1, <2>2, LinkFacts
<1>5. CASE MarkSentStep(before, after)
  <2>1. before.status = "created" /\ after = TransitionTo(before, "sent")
    BY <1>5 DEF MarkSentStep, SentAllowed
  <2>2. "sent" \in StampedStatus
    BY DEF StampedStatus, TaskStatus
  <2> QED
    BY <2>1, <2>2, TransitionToFacts, MarkTimestampFacts DEF IsTerminal
<1> QED
  BY <1>1, <1>2, <1>3, <1>4, <1>5 DEF LegalStep

=============================================================================
