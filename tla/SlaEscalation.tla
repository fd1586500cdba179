---------------------------- MODULE SlaEscalation ----------------------------
(***************************************************************************)
(* UpdateSlaStatesUseCase, the worker that watches the deadlines of open   *)
(* tasks.                                                                  *)
(*                                                                         *)
(* A scan lists open tasks with a deadline, the nearest deadline first and *)
(* at most ScanLimit of them, and goes through the copies one by one: it   *)
(* stores the state and level of the day the scan began, records a raised  *)
(* level in sla_escalations, and queues a notification for the assignee.   *)
(* These are three separate writes.  An error of the first two ends the    *)
(* scan, an error of the third is logged, and the process may stop between *)
(* any two.  Users assign and close tasks all the while.                   *)
(***************************************************************************)
EXTENDS Integers, FiniteSets

CONSTANTS
  Tasks,
  Users,
  None,
  Days,        \* bound on the calendar: day numbers 0 .. Days
  ScanLimit,   \* the limit of list_active_with_deadline
  MaxEdits,    \* bound on assignments, closings and toggles of the flag
  MaxFaults    \* bound on failing calls and process stops

ASSUME NoneAssumption == None \notin Users
ASSUME ScanLimitAssumption == ScanLimit \in Nat \ {0}
ASSUME BoundsAssumption == Days \in Nat /\ MaxEdits \in Nat /\ MaxFaults \in Nat

VARIABLES
  today,
  enabled,      \* the sla_escalations feature flag
  task,         \* the row of each task
  escalations,  \* the rows of sla_escalations: task and level
  outbox,       \* queued notifications: dedupe key and recipient
  scan,         \* the running scan
  silent,       \* history: escalations that had nobody to tell
  lost,         \* history: tasks whose escalation a fault cut short
  edits, faults \* history: what the bounds count

vars == <<today, enabled, task, escalations, outbox, scan, silent, lost, edits,
          faults>>

History == <<silent, lost>>

-----------------------------------------------------------------------------
(* Data *)

Levels == 0 .. 2

\* A task starts with state NULL and level 0.
Row == [deadline : 0 .. Days,
        open     : {"open", "closed"},
        assignee : Users \cup {None},
        state    : {"null", "healthy", "at_risk", "breached"},
        level    : Levels]

\* days_remaining taken without its sign, for a mutant.
LevelOfDistance(days) ==
  IF days < -1 \/ days > 1 THEN 0 ELSE 1

\* at_risk from the day before the deadline, breached from the day after it.
LevelOf(days) == IF days < 0 THEN 2 ELSE IF days <= 1 THEN 1 ELSE 0

StateOf(level) == <<"healthy", "at_risk", "breached">>[level + 1]

Idle == [step |-> "idle", day |-> 0, todo |-> {}, at |-> None]

\* What a scan copied of a task.
Copy == [task : Tasks, deadline : 0 .. Days, assignee : Users \cup {None},
         state : {"null", "healthy", "at_risk", "breached"}, level : Levels]

Copied(t) == [task |-> t, deadline |-> task[t].deadline,
              assignee |-> task[t].assignee, state |-> task[t].state,
              level |-> task[t].level]

\* Any ScanLimit open tasks, for a mutant.
ListedInAnyOrder ==
  LET open == {t \in Tasks : task[t].open = "open"}
  IN  {S \in SUBSET open :
         Cardinality(S) = IF Cardinality(open) <= ScanLimit
                          THEN Cardinality(open) ELSE ScanLimit}

\* The first ScanLimit open tasks in the order of their deadlines; tasks of one
\* deadline come in any order.
Listed ==
  LET open == {t \in Tasks : task[t].open = "open"}
  IN  {S \in SUBSET open :
         /\ Cardinality(S) = IF Cardinality(open) <= ScanLimit
                             THEN Cardinality(open) ELSE ScanLimit
         /\ \A s \in S, t \in open \ S : task[s].deadline <= task[t].deadline}

\* The level a copy has reached on the day of the scan.
Reached(c) == LevelOf(c.deadline - scan.day)

UpToDate(c) == c.state = StateOf(Reached(c)) /\ c.level >= Reached(c)

\* An escalation one level late, for a mutant.
RaisedTwice(c) == Reached(c) > c.level + 1

Raised(c) == Reached(c) > c.level

-----------------------------------------------------------------------------
Init ==
  /\ today = 0
  /\ enabled = "on"
  /\ task \in [Tasks -> {r \in Row : r.open = "open" /\ r.state = "null" /\ r.level = 0}]
  /\ escalations = {} /\ outbox = {}
  /\ scan = Idle
  /\ silent = {} /\ lost = {}
  /\ edits = 0 /\ faults = 0

-----------------------------------------------------------------------------
(* Users and the calendar *)

Edit ==
  /\ edits < MaxEdits
  /\ edits' = edits + 1

\* A reassignment, maybe to an employee without an account, or a recovery.
Assign(t, u) ==
  /\ Edit
  /\ task[t].open = "open"
  /\ task[t].assignee # u
  /\ task' = [task EXCEPT ![t].assignee = u]
  /\ UNCHANGED <<today, enabled, escalations, outbox, scan, History, faults>>

\* The task is completed or cancelled.
Close(t) ==
  /\ Edit
  /\ task[t].open = "open"
  /\ task' = [task EXCEPT ![t].open = "closed"]
  /\ UNCHANGED <<today, enabled, escalations, outbox, scan, History, faults>>

\* The flag is turned off or on in the admin panel.
Toggle ==
  /\ Edit
  /\ enabled' = IF enabled = "on" THEN "off" ELSE "on"
  /\ UNCHANGED <<today, task, escalations, outbox, scan, History, faults>>

NewDay ==
  /\ today < Days
  /\ today' = today + 1
  /\ UNCHANGED <<enabled, task, escalations, outbox, scan, History, edits, faults>>

-----------------------------------------------------------------------------
(* The worker *)

\* A scan begins, the one before having returned.
StartScan ==
  /\ scan.step = "idle"
  /\ enabled = "on"
  /\ \E S \in Listed :
       scan' = [step |-> "next", day |-> today, at |-> None,
                todo |-> {Copied(t) : t \in S}]
  /\ UNCHANGED <<today, enabled, task, escalations, outbox, History, edits, faults>>

EndScan ==
  /\ scan.step = "next" /\ scan.todo = {}
  /\ scan' = Idle
  /\ UNCHANGED <<today, enabled, task, escalations, outbox, History, edits, faults>>

\* The copies are taken in the order of their deadlines.
IsNext(c) ==
  /\ scan.step = "next"
  /\ c \in scan.todo
  /\ \A d \in scan.todo : c.deadline <= d.deadline

Dropped(c) == scan' = [scan EXCEPT !.todo = @ \ {c}]

Skip(c) ==
  /\ IsNext(c)
  /\ UpToDate(c)
  /\ Dropped(c)
  /\ UNCHANGED <<today, enabled, task, escalations, outbox, History, edits, faults>>

\* update_sla_state, whatever the row is by now; an escalation follows if the level
\* has risen.
UpdateState(c) ==
  /\ IsNext(c)
  /\ ~UpToDate(c)
  /\ task' = [task EXCEPT ![c.task].state = StateOf(Reached(c)),
                          ![c.task].level = Reached(c)]
  /\ IF Raised(c)
     THEN scan' = [scan EXCEPT !.step = "record", !.todo = @ \ {c}, !.at = c]
     ELSE Dropped(c)
  /\ UNCHANGED <<today, enabled, escalations, outbox, History, edits, faults>>

Escalation(c) == <<c.task, Reached(c)>>

Proceed(step) ==
  scan' = [scan EXCEPT !.step = step, !.at = IF step = "next" THEN None ELSE @]

\* record_escalation: INSERT OR IGNORE.  An escalation that was there before, or a
\* copy without an assignee, needs no notification.
RecordEscalation ==
  /\ scan.step = "record"
  /\ escalations' = escalations \cup {Escalation(scan.at)}
  /\ Proceed(IF Escalation(scan.at) \in escalations \/ scan.at.assignee = None
             THEN "next" ELSE "notify")
  /\ silent' = IF scan.at.assignee = None THEN silent \cup {Escalation(scan.at)}
               ELSE silent
  /\ UNCHANGED <<today, enabled, task, outbox, lost, edits, faults>>

\* NotificationRepository::enqueue, under a key of the task and the level.
EnqueueNotification ==
  /\ scan.step = "notify"
  /\ outbox' = IF \E n \in outbox : n.key = Escalation(scan.at) THEN outbox
               ELSE outbox \cup {[key |-> Escalation(scan.at), to |-> scan.at.assignee]}
  /\ Proceed("next")
  /\ UNCHANGED <<today, enabled, task, escalations, History, edits, faults>>

-----------------------------------------------------------------------------
(* Faults *)

Fault ==
  /\ faults < MaxFaults
  /\ faults' = faults + 1
  /\ lost' = IF scan.step \in {"record", "notify"} THEN lost \cup {scan.at.task} ELSE lost

\* The process stops, or a call other than enqueue fails: the scan is over.
ScanAborts ==
  /\ Fault
  /\ scan.step # "idle"
  /\ scan' = Idle
  /\ UNCHANGED <<today, enabled, task, escalations, outbox, silent, edits>>

\* enqueue fails: the scan logs it and goes on.
EnqueueFails ==
  /\ Fault
  /\ scan.step = "notify"
  /\ Proceed("next")
  /\ UNCHANGED <<today, enabled, task, escalations, outbox, silent, edits>>

-----------------------------------------------------------------------------
Worker ==
  \/ StartScan \/ EndScan
  \/ \E c \in scan.todo : Skip(c) \/ UpdateState(c)
  \/ RecordEscalation \/ EnqueueNotification

Next ==
  \/ \E t \in Tasks : Close(t) \/ \E u \in Users \cup {None} : Assign(t, u)
  \/ Toggle
  \/ NewDay
  \/ Worker
  \/ ScanAborts \/ EnqueueFails

\* The ticker fires, the calls of a scan return, and days go by.
Fairness == WF_vars(Worker) /\ WF_vars(NewDay)

Spec == Init /\ [][Next]_vars /\ Fairness

-----------------------------------------------------------------------------
(* Properties *)

TypeOK ==
  /\ today \in 0 .. Days
  /\ enabled \in {"on", "off"}
  /\ task \in [Tasks -> Row]
  /\ escalations \subseteq Tasks \X Levels
  /\ outbox \subseteq [key : Tasks \X Levels, to : Users]
  /\ scan \in [step : {"idle", "next", "record", "notify"}, day : 0 .. Days,
               todo : SUBSET Copy, at : Copy \cup {None}]
  /\ silent \subseteq Tasks \X Levels
  /\ lost \subseteq Tasks
  /\ edits \in Nat /\ faults \in Nat

\* A level is an alarm that is not taken back: although each scan overwrites it
\* from a copy and from the day the scan began, it never falls.
LevelsOnlyRise ==
  [][\A t \in Tasks : task'[t].level >= task[t].level]_vars

\* The timeline of a task is complete: a level that was stored has its escalation,
\* and an escalation that found an assignee its notification, unless the worker is
\* about to write them or a fault came in between.
LevelsAreEscalated ==
  \A t \in Tasks \ lost, l \in 1 .. 2 :
    LET underWay == scan.step \in {"record", "notify"} /\ scan.at.task = t
    IN  /\ task[t].level = l => <<t, l>> \in escalations \/ underWay
        /\ <<t, l>> \in escalations \ silent =>
             underWay \/ \E n \in outbox : n.key = <<t, l>>

\* Nobody is alarmed early or for nothing: a queued notification has its escalation,
\* and the deadline it speaks of has come near or passed.
AlarmsAreReal ==
  \A n \in outbox :
    /\ n.key \in escalations
    /\ task[n.key[1]].deadline - today <= 1
    /\ n.key[2] = 2 => task[n.key[1]].deadline < today

\* Tasks a scan may list before t.
Ahead(t) ==
  {q \in Tasks \ {t} : task[q].open = "open" /\ task[q].deadline <= task[t].deadline}

Unwatched(t) == task[t].open = "closed" \/ enabled = "off"

\* A task that is overdue and stays open is found breached as long as the flag is on, if fewer
\* than ScanLimit open tasks are due by its deadline.
OverdueIsSeen ==
  \A t \in Tasks :
    task[t].deadline < today /\ Cardinality(Ahead(t)) < ScanLimit
      ~> task[t].state = "breached" \/ Unwatched(t)

=============================================================================
