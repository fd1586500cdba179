------------------------------ MODULE DailyJobs ------------------------------
(***************************************************************************)
(* The three jobs that run once a day (infrastructure/scheduler            *)
(* spawn_daily_job, application/use_cases enqueue_task_reminders and       *)
(* enqueue_daily_summaries).  A job ticks again and again and runs when    *)
(* the hour is its own and the date is not that of its last run, which it  *)
(* keeps in memory.  A run reads the tasks, then queues one notification   *)
(* after another; the key of a notification keeps it from being queued     *)
(* twice.  An error ends the run, and the date is noted all the same.      *)
(*                                                                         *)
(* The tasks are changed by others meanwhile.  The jobs share nothing but  *)
(* the tasks and the outbox, where their keys are distinct, so one of them *)
(* is followed, any of the three.  Within a day the hour may come or not,  *)
(* and a run that started in it may end on the next day.                   *)
(***************************************************************************)
EXTENDS Integers, FiniteSets

CONSTANTS
    Staff,       \* users
    Chores,      \* tasks
    Author,      \* [Chores -> Staff]
    DueOn,       \* [Chores -> Nat]: the deadlines, as days
    Nobody,
    FetchLimit,  \* REMINDER_TASK_FETCH_LIMIT, and the scan limit of the summaries
    AlertEvery,  \* an overdue task is brought up every so many days
    LastDay,     \* bounds
    MaxChanges,
    MaxStops

ASSUME DailyAssumption ==
    /\ Author \in [Chores -> Staff] /\ DueOn \in [Chores -> Nat]
    /\ Nobody \notin Staff \cup Chores /\ IsFiniteSet(Chores)
    /\ AlertEvery \in Nat \ {0} /\ FetchLimit \in Nat /\ LastDay \in Nat

VARIABLES
    kind,        \* the job that is followed
    day,
    chore,       \* the tasks: [open, doer, changed], changed being the day of the last change
    noted,       \* whether last_run_date is the present day
    job,         \* the run: [pc, date, today, pending]
    queued,      \* the dedupe keys of the notifications
    told,        \* the subjects there is a notification about
    again,       \* history: the subjects there is more than one about
    changes, stops

dailyVars == <<kind, day, chore, noted, job, queued, told, again, changes, stops>>

Jobs == {"deadline", "overdue", "summary"}

\* What a notification is about, and to whom: of a task, by its deadline or the days it is
\* late, or of a day.
Subjects == [kind : Jobs, chore : Chores \cup {Nobody}, to : Staff, on : Nat]

Waiting == [pc |-> "waiting", date |-> 0, today |-> 0, pending |-> {}]

DailyInit ==
    /\ kind \in Jobs
    /\ day = 1
    /\ chore \in [Chores -> [open : {TRUE}, doer : Staff \cup {Nobody}, changed : {0}]]
    /\ noted = FALSE
    /\ job = Waiting
    /\ queued = {}
    /\ told = {} /\ again = {}
    /\ changes = 0 /\ stops = 0

PassTime ==
    /\ day < LastDay
    /\ day' = day + 1
    /\ noted' = FALSE
    /\ UNCHANGED <<kind, chore, job, queued, told, again, changes, stops>>

\* Reassignment and closing, for which see TaskWorkflow.
ChangeChore(c) ==
    /\ changes < MaxChanges
    /\ changes' = changes + 1
    /\ \/ \E s \in Staff : chore' = [chore EXCEPT ![c].doer = s, ![c].changed = day]
       \/ chore' = [chore EXCEPT ![c].open = FALSE, ![c].changed = day]
    /\ UNCHANGED <<kind, day, noted, job, queued, told, again, stops>>

Tick ==
    /\ job.pc = "waiting"
    /\ ~noted
    /\ job' = [Waiting EXCEPT !.pc = "started", !.date = day]
    /\ UNCHANGED <<kind, day, chore, noted, queued, told, again, changes, stops>>

DueTomorrow(d) == {c \in Chores : chore[c].open /\ DueOn[c] = d + 1}

Overdue(d) == {c \in Chores : chore[c].open /\ DueOn[c] < d}

OpenChores == {c \in Chores : chore[c].open}

\* LIMIT, with the earliest deadlines first.
Fetched(found) ==
    {batch \in SUBSET found :
        /\ Cardinality(batch) = (IF Cardinality(found) < FetchLimit THEN Cardinality(found) ELSE FetchLimit)
        /\ \A c \in batch, other \in found \ batch : DueOn[c] <= DueOn[other]}

\* LIMIT, with the latest changes first.
Scanned ==
    {batch \in SUBSET OpenChores :
        Cardinality(batch) = (IF Cardinality(OpenChores) < FetchLimit
                              THEN Cardinality(OpenChores) ELSE FetchLimit)}

About(what, c, to, on) == [kind |-> what, chore |-> c, to |-> to, on |-> on]

Reminders(batch, d) ==
    {About("deadline", c, chore[c].doer, d + 1) : c \in {b \in batch : chore[b].doer # Nobody}}

Alerts(batch, d) ==
    UNION {{About("overdue", c, to, d - DueOn[c]) : to \in {Author[c], chore[c].doer} \ {Nobody}}
             : c \in {b \in batch : (d - DueOn[b]) % AlertEvery = 0}}

Summaries(batch, d) ==
    {About("summary", Nobody, to, d) : to \in {chore[c].doer : c \in batch} \ {Nobody}}

\* What a run of day d tells, and whom, of the tasks it has read.
Tidings(batch, d) ==
    CASE kind = "deadline" -> Reminders(batch, d)
      [] kind = "overdue" -> Alerts(batch, d)
      [] kind = "summary" -> Summaries(batch, d)

\* The run asks the clock for the date again, and reads the tasks.
Begin ==
    /\ job.pc = "started"
    /\ \E batch \in CASE kind = "deadline" -> Fetched(DueTomorrow(day))
                      [] kind = "overdue" -> Fetched(Overdue(day))
                      [] kind = "summary" -> Scanned :
          job' = [job EXCEPT !.pc = "queueing", !.today = day, !.pending = Tidings(batch, day)]
    /\ UNCHANGED <<kind, day, chore, noted, queued, told, again, changes, stops>>

\* Mutant: the key of an overdue alert does not name the recipient.
KeyMutant(s) == IF s.kind = "summary" THEN <<s.kind, s.to, s.on>> ELSE <<s.kind, s.chore, s.on>>

\* dedupe_key: that of a reminder does not name the recipient.
Key(s) ==
    CASE s.kind = "deadline" -> <<s.kind, s.chore, s.on>>
      [] s.kind = "overdue" -> <<s.kind, s.chore, s.to, s.on>>
      [] s.kind = "summary" -> <<s.kind, s.to, s.on>>

\* Mutant: a restarted process queues what it does not remember having queued.
IsNewMutant(s) == Key(s) \notin queued \/ stops > 0

\* ON CONFLICT (dedupe_key) DO NOTHING.
IsNew(s) == Key(s) \notin queued

Queue ==
    /\ job.pc = "queueing"
    /\ \E s \in job.pending :
          /\ job' = [job EXCEPT !.pending = @ \ {s}]
          /\ queued' = queued \cup {Key(s)}
          /\ told' = IF IsNew(s) THEN told \cup {s} ELSE told
          /\ again' = IF IsNew(s) /\ s \in told THEN again \cup {s} ELSE again
    /\ UNCHANGED <<kind, day, chore, noted, changes, stops>>

\* The run is over, well or not, and its date noted.
End ==
    /\ job' = Waiting
    /\ noted' = (noted \/ job.date = day)

FinishRun ==
    /\ job.pc = "queueing" /\ job.pending = {}
    /\ End
    /\ UNCHANGED <<kind, day, chore, queued, told, again, changes, stops>>

FailRun ==
    /\ job.pc # "waiting"
    /\ stops < MaxStops
    /\ stops' = stops + 1
    /\ End
    /\ UNCHANGED <<kind, day, chore, queued, told, again, changes>>

RestartJobs ==
    /\ stops < MaxStops
    /\ stops' = stops + 1
    /\ job' = Waiting
    /\ noted' = FALSE
    /\ UNCHANGED <<kind, day, chore, queued, told, again, changes>>

DailyNext ==
    \/ PassTime
    \/ \E c \in Chores : ChangeChore(c)
    \/ Tick \/ Begin \/ Queue \/ FinishRun \/ FailRun
    \/ RestartJobs

DailySpec == DailyInit /\ [][DailyNext]_dailyVars

(***************************************************************************)
(* Properties.                                                             *)
(***************************************************************************)

\* A restart in the hour runs the jobs again, and a creator may be the assignee: still nobody is
\* told twice of the same deadline, the same delay or the same day.
ToldOnce == again = {}

\* The tasks that a run of day d looks for, and those that somebody closed before it came to them.
Concerned(d) ==
    {c \in Chores :
        /\ chore[c].open \/ chore[c].changed >= d
        /\ CASE kind = "deadline" -> DueOn[c] = d + 1
             [] kind = "overdue" -> DueOn[c] < d
             [] kind = "summary" -> TRUE}

Steady(d) == {c \in Concerned(d) : chore[c].open /\ chore[c].changed < d}

\* A run that comes to its end has told everybody concerned, at least of the tasks nobody changed
\* on that day or since, as long as the tasks it looks for are not more than it reads.
EveryoneIsTold ==
    job.pc = "queueing" /\ job.pending = {} =>
        LET d == job.today
        IN  Cardinality(Concerned(d)) <= FetchLimit => Tidings(Steady(d), d) \subseteq told

=============================================================================
