# Task-manager in TLA+

Telegram bot for assigning and following up tasks (Rust, tokio, teloxide, SQLite through
sqlx). This directory holds TLA+ models of its core, the TLC instances that check them, and
TLAPS proofs of their main properties for every value of the constants. `PROJECT.json` says
for each definition which lines of the code it stands for; paths below are relative to
`src/src/`, the Rust crate, unless they start with `docs/` or `README.md`.

1. [The system](#1-the-system)
2. [The modules](#2-the-modules)
3. [What is checked](#3-what-is-checked)
4. [What is proved](#4-what-is-proved)
5. [Where the code and its documentation disagree](#5-where-the-code-and-its-documentation-disagree)
6. [Abstractions](#6-abstractions)
7. [Plan](#7-plan)
8. [How to run](#8-how-to-run)

## 1. The system

One process. teloxide hands updates to handlers, which run concurrently for different chats;
a scheduler runs seven background jobs beside them. All of them share one SQLite database in
WAL mode through a pool of ten connections. A use case is a chain of awaited repository calls
*without* a transaction around it, so that between any two of its calls every other handler
and job may run, and any call may be the last one before the process stops.

| Component | State | Operations | Hard behaviour | What makes it correct |
|---|---|---|---|---|
| Task entity, `domain/task/` | the row of a task: status, assignee (account and directory record), version, stamps, blocker | transition, blocker, reassign, link | guards that depend on the actor, the status and the review; which stamps survive | no edge outside the status graph; work starts clean after a reassignment; a blocker exactly while blocked |
| Authorization, `policies/role_authorization.rs` | none | requested status to stored status; who may do what | the same click means different things by role and by self-assignment | an assignee never closes reviewed work |
| Task use cases, `use_cases/{create_task,update_task_status,report_task_blocker,reassign_task,add_task_comment}*.rs` | what each handler read | read, check, compare-and-swap by version, audit entry, notifications | stale copies, lost updates, a stop between two writes | handlers look atomic; the log tells the truth; nothing moves a closed task |
| Registration recovery, `use_cases/register_user/` | batches of open tasks of a directory record | link to the account (one retry), backfill of the notification | races with reassignment, closing and delivery | account and record always belong together; the assignee hears of the task |
| Outbox, `use_cases/process_notifications.rs`, `notification_repository.rs` | rows with state, attempts and `next_attempt_at`; copies in flight | enqueue, list, deliver, record, retry, requeue | batches and permits, lost answers, crashes between send and record | at least once, once when everything is recorded; limits and back-off are those of the row; nothing is stranded |
| SLA worker, `use_cases/update_sla_states.rs` | state and level of a task, escalations, the copies of a scan | scan, store, record, notify | three writes, copies, midnight | levels never fall, no false alarm, nothing overdue unseen |
| Recurrence worker, `use_cases/process_recurrence_rules.rs` | `next_run_at`, tasks by source key | list due rules, create, advance | crash between create and advance, missed ticks, failing templates | one task per firing, no starvation |
| Admin panel, `use_cases/admin.rs`, `admin_nonce_store.rs`, `dispatcher_admin.rs`, `user_repository.rs` | roles and accounts, confirmations and flags in memory, audit log | prepare, confirm, change, toggle, promote at start-up | decisions on copies, count-then-write, two places for a flag, restarts | an active admin remains; a confirmation is worth one change; everything is logged |
| Daily jobs, `enqueue_task_reminders.rs`, `enqueue_daily_summaries.rs`, `scheduler/mod.rs` | date of the last run, in memory; dedupe keys | run in an hour of the day | restart within the hour, a reassignment between two runs, a query with a limit | nobody is told twice, everybody concerned is told |
| Onboarding, `use_cases/onboarding/`, `register_user/`, `dispatcher_handlers.rs`, `dispatcher_registration.rs` | row of a person with state and version; offered employees | gate, first name, last name, completion, preview, registration, choice of an employee | two chats of one person at once; completion and registration are two commits; rows of earlier versions | it never goes back; a stored name and a link stay; nobody is shut out |
| Gateway, `presentation/telegram/gateway.rs`, `dispatcher.rs`, `dispatcher_transport.rs` | chat locks, a bounded duplicate filter, UX barriers | serialize, filter, dispatch, show once | two updates at a chat without a lock, redelivery, eviction, restart | one update of a chat at a time, each handled once |
| Screens, `active_screens.rs`, `callbacks/`, `ui_keyboards.rs` | one active screen per chat | gates, keyboards, codec of the buttons | buttons of old screens and of earlier versions of the program | only what the present stage accepts; a button means what it was made for |
| Conversation, `dispatcher_guided.rs`, `dispatcher_voice.rs`, `dispatcher_handlers.rs`, `drafts.rs`, `interactions.rs` | creation session, pending choice of an assignee, interaction prompt, all in memory | text, voice, presses, submission | presses that race with texts and with edits of the keyboard, lost screens, failing services, restarts | the screen and the session agree; what is stored was shown; a draft is submitted once |
| Voice records, `domain/voice.rs`, `voice_processing_repository.rs` | a row per file | start, stage changes, retry, completion, failure, purge | clients at once in deferred transactions | one of them is told to transcribe |
| Circuit breaker and retry, `infrastructure/http/`, `ai/`, `google_sheets_client.rs` | failures in a row, the time it is open to | call, retry, record | calls that began before it opened; all callers come back at once | a failing service is left alone |
| Task lists, `list_tasks.rs`, `task_repository.rs` | none; the cursor is in the button | pages by identifier, sections | tasks change between two pages | nothing twice, nothing passed over |
| Employee directory, `use_cases/sync_employees.rs` | records | upsert per row of the sheet | a partial sync | links survive a sync |
| Deadlines, names, `domain/{deadline,name_matching,parsing}.rs` | none | calendar, ranking of candidates | boundaries, ties | agreement with a reference definition |
| Search, statistics, texts, AI prompts, HTTP, configuration | none of their own | read-only queries, layout, wiring | | |

How they interact:

```
 Telegram --> gateway --> gate (onboarding, register) --> recovery -----.
              (lock,        |                                           |
              filter)       +--> task use cases -- CAS on version ------+--> tasks, task_history
                 |          |          |                                |
                 |          |          +------ enqueue (dedupe key) ----+--> notifications
              barrier       +--> sessions, drafts, choices (memory)
                 |          +--> admin panel --> users, flags, admin_audit_log
                 |          +--> transcription, draft generation --> breaker, retry
                 v          |
              active screen <-  keyboards  -->  callback data  -->  back as a press
 scheduler --> outbox job: notifications --> Telegram --> mark task sent
           --> SLA job: tasks --> sla_escalations --> notifications
           --> recurrence job: recurrence_rules --> tasks
           --> daily jobs: tasks --> notifications
```

Components meet on the same data in three places. The row of a task (use cases, recovery,
outbox job, SLA job) is `TaskWorkflow`. The outbox (everybody enqueues, one job delivers) is
split: `TaskWorkflow` has the rows as its handlers see them, `NotificationQueue` the pipeline
behind them. The stores of a chat in memory (every handler of its updates) are `Conversation`,
which may take a handler as one step because `UpdateGateway` serializes them.

## 2. The modules

```
 TaskLifecycle  --EXTENDS--  TaskBoard                        (abstract)
      |                          ^ refined by (row <- task)
      +--EXTENDS--  TaskWorkflow-+--  TaskWorkflowProofs
      |                  +--EXTENDS--  TaskCards  --  MCTaskWorkflow  (its theorem is in TaskWorkflowProofs)
      +--EXTENDS--  TaskLifecycleProofs
 DeliveryPromise                                              (abstract)
      ^ refined by (status <- Status)
 NotificationQueue  --  MCNotificationQueue,  NotificationQueueProofs
 SlaEscalation      --  MCSlaEscalation,      SlaEscalationProofs
 Recurrence         --  MCRecurrence,         RecurrenceProofs
 AdminPanel         --  MCAdminPanel,         AdminPanelProofs
 Screens  --EXTENDS--  Conversation  --  MCConversation,  ConversationProofs
 Onboarding     --  MCOnboarding          |
 UpdateGateway, DailyJobs, ServiceCalls,  +--  MCParts,  PartsProofs
 VoiceRecords, TaskLists, CallbackCodec --'
```

**TaskLifecycle** is the domain without any state: a task as a record, `CanTransitionTo`,
`TransitionTo`, `ApplyBlocker`, `Reassigned`, `LinkRegisteredAssignee` as functions of the
task (`domain/task/entity.rs`, `types.rs`), the policy as predicates
(`role_authorization.rs`), and one predicate per use case (`ChangeStatusStep`,
`ReassignStep`, ...) that says which row an actor may turn a row into. `LegalStep` is their
disjunction. Stamps hold the version at which the code would have taken the time.

**TaskBoard** is what the application promises of one task: `Create`, then `Change` by legal
steps of the *current* row, atomically.

**TaskWorkflow** is how it is done. `proc[h]` is what handler `h` holds: the row it read
(`snap`), the row it wants stored (`next`), the audit entry and the notifications it still
owes. The actions follow the awaits of the code:

| Action | Code |
|---|---|
| `ReadForStatus`, `ReadForBlocker`, `ReadForReassign`, `ReadForComment`, `ReadForCreate` | the head of each `execute`: `find_by_uid`, normalisation, policy, entity method |
| `ListForRecovery`, `RetryLink` | `recover_pending_assignments`, `link_task_to_registered_user` |
| `Insert` | `create_if_absent` and the re-read that follows it |
| `Save`, `Conflict` | `UPDATE ... WHERE version = ?` and its zero-row answer |
| `AppendAudit`, `Enqueue`, `CreateComment` | the calls after the write |
| `EnsureNotification`, `Requeue` | `ensure_assignment_notification` |
| `LoadForDelivery`, `DeliverySucceeds`, `DeliveryFails`, `DeliveryIsPostponed` | one delivery of the outbox job, with `mark_related_task_as_sent` |
| `Refuse`, `Fail` | a policy error; an error or a stop at any point |

**TaskCards** adds what the card of that task offers to each account (`available_actions`, a
second formulation of the rights beside the guards of the use cases), which status the button
of an action asks for, and whether the use case behind it would accept. It has no steps of its
own: the property compares the two over every row that `TaskWorkflow` reaches.

**DeliveryPromise** is the outbox as its callers may think of it; **NotificationQueue** has
the rows, the batch, the permits (`Spawn`), the outcomes (`SendAccepted`, `SendRefused`,
`SendDropped`: the answer may be lost with the message out), the records (`MarkSent`,
`MarkFailed`, `MarkRetry`), the requeue of a recovery (`SeeFailed`, then `Requeue` by id and
without a condition), failing repository calls, restarts, and the clock in minutes.

**SlaEscalation** has a scan as the set of copies it still has to look at and the day it
began; `UpdateState`, `RecordEscalation`, `EnqueueNotification` are its three writes.
**Recurrence** has a tick in the same way, over an arbitrary set of firings per rule.

**AdminPanel** has accounts, confirmations (`AdminNonceStore`), the flag as stored and as in
force, the audit log, and handlers that decide with the copy of their actor's account taken
when their update arrived. Role changes and deactivations are deferred transactions: `Check`
reads in a snapshot, `Write` succeeds only if no other connection has committed since
(`stale`), `WriteIsRefused` is SQLite's `SQLITE_BUSY_SNAPSHOT`. `Restart` empties memory,
reloads the flag and promotes the configured accounts (`bootstrap_admins.rs`).

**Screens** has the screens and buttons as tuples, the stage of a screen and what the stage
accepts (`ActiveScreenState`, the gates in `handle_callback_query`), which buttons count as
mutating, and the keyboards (`ui_keyboards.rs`) as sets of buttons.

**Conversation** is one chat of a registered user: quick capture, the guided draft with its
edits, the spoken draft, clarifications, prompts of a card, and the commands. `active` is the
screen the bot remembers, `keyboards` what lies in the chat, `chat` the three stores in
memory. A handler is one step (the lock of the chat makes it so), but the user is not in
step with it: `PressVisible` takes a button of any message still there, `PressLate` one that
the last edit took away while the press was under way. `faults` counts services that fail,
screens that do not arrive and restarts. Texts are members of a set, and `Named` says whom
the directory takes one to mean.

**CallbackCodec** has the data of every button as the sequence of their parts, the table by
which they are written and the two by which they are read, the earlier forms first.

**UpdateGateway** has every delivered update as a task of its own: find or make the lock of
the chat, wait for it, ask the duplicate filter, install the barrier, handle, remove the
barrier, release. The filter forgets the oldest key when it is full; a restart forgets all.

**Onboarding** is the gate that every update of a person passes, from several chats at once.
Each repository call is a step: `Probe` reads the row, `Ensure`/`InsertRow` make it,
`ReadSession` and `Answer` advance it if the version is still the one read,
`CompleteOnboarding` closes the session, `Match`/`PreviewLink` ask the directory and
`Register` upserts the account with its link and then recovers the tasks of its employee, as
`LinkByPress` does; `recovered` notes whose recovery came to its end (what it does to the tasks is
`TaskWorkflow`'s). `FailAt` is an error or a stop before any of these steps; one between the upsert
and the end of the recovery is part of `Register` and `LinkByPress`.

**DailyJobs** follows one of the three jobs over some days: `noted` says whether the date
kept in memory is the present one, a run reads the open tasks up to its limit and queues one notification after another
under the key of the code, while tasks close and change hands and the process restarts.

**ServiceCalls** has the callers of one client sharing its breaker; each tries `MaxAttempts`
times and meets a result, an error status, no answer, or an answer it must refuse.

**VoiceRecords** has the processing table and clients that call any operation in any order,
each a read in a snapshot and a write that SQLite refuses if anything was written since.
Only the repository's tests call this adapter so far.

**TaskLists** is a walk through a list by the button for more, with tasks inserted and changed
between two presses; a page is a query by identifier and is then split into sections.

**MCEventual** holds two parts side by side whose promise is one of the future: the outbox, and
the onboarding with the recovery that follows a link. A behaviour runs one of them.

**MCParts** holds the instances of the seven parts above that meet only through the database
or not at all. A behaviour chooses one part at its start and runs it; the others keep
one initial state, so that the states add up instead of multiplying.

Definitions whose comment begins with "Mutant" (or says "for a mutant") are not part of any
specification. Each is a plausible bug in the definition below it; replacing that definition by
it makes a run fail, which shows that the property checked there depends on the code.

## 3. What is checked

| Run | Instance | Properties | What it shows |
|---|---|---|---|
| `workflow_work` | 2 handlers, creator + executor + manager, versions to 3 | `NoInheritedProgress`, `OffersAgreeWithUseCases`, `OnlyApproversComplete`, `AuditFaithful`, `ImplementsBoard` | Two handlers that create, move, block and reassign one task concurrently behave as if they were atomic; no interleaving closes work without an approver, carries progress over a reassignment or logs what was not stored; a button of an up-to-date card is accepted |
| `workflow_recovery` | 2 handlers, 4 people, 2 records, versions to 2, one handler cut short | `AssigneeMatchesDirectory`, `AssigneeNotified`, `TerminalFrozen` | Recovery, reassignment, cancellation and delivery race: an account is linked to its own record only, ends up with an assignment notification, and nothing touches a closed row |
| `workflow_talk` | 2 handlers, create, comment, block, deliver, one handler cut short | `AuditComplete`, `SentHasEvidence` | Every stored change is logged unless its handler is cut short; only a delivery marks a task sent |
| `outbox` | 3 notifications, batches of 2, 2 permits, 2 attempts, 1 requeue, 1 fault | `CopiesAreCurrent`, `RepeatedOnlyIfUnrecorded`, `GivenUpForCause`, `KeepsPromise` | What a delivery knows of its row stays current; repeats, failures and retries happen for cause only |
| `sla_scans` | 2 tasks with any deadlines, room for one in a scan, 1 user, days 0 to 3, 1 edit, 1 fault | `LevelsAreEscalated`, `LevelsOnlyRise`, `OverdueIsSeen` | Copies, midnight and edits do not lower a level; every stored level is recorded and notified unless a fault came between; an overdue task among the first of the list is found breached, whatever else is open |
| `recurrence_firings` | 2 rules with any firings in 1 to 3, one rule per tick, 1 toggle, 1 fault | `RepeatedOnlyByFault`, `FiringsAreAnswered`, `CatchesUpOnce`, `DueIsServed` | Firings repeat only after a fault and are passed over only for cause; the firings a rule missed are made up for by one task; a due rule is served |
| `admin_changes` | 2 accounts with any roles, 2 handlers, 4 updates, 1 fault | `ConfirmedOnce`, `ChangesAreLogged`, `FlagInForceIsStored`, `AdminRemains` | Two admins that demote and deactivate each other never leave the bot without one; a confirmation is worth one change; the flag in force is the stored one |
| `conversation_screens` | 1 employee, 2 texts, a task that is closed and one to be made, 2 new screens or faults | `PromptsMatchSession`, `ButtonsAreAlive`, `FinishedDraftsAreClosed`, `GuidedTextWasShown` | Old and late presses, lost screens and restarts: the screen asks for what the session expects, its buttons find what they need, a finished draft is gone, what is stored was shown |
| `eventually` | 2 notifications, batches of 1, 3 attempts, 1 requeue, 1 fault; a person without a row in one chat, 1 name, 2 employees, 2 failures | `EventuallySettled`, `LinkedIsRecovered` | A failing row does not keep the others out, and nothing is stranded; whoever is linked and keeps writing has the employee's tasks handed over, also if the update that linked failed or was cut short before |
| `parts_apart` | see below | `ChatsAreSerial`, `HandledOnce`, `ToldOnce`, `EveryoneIsTold`, `ServiceIsSpared`, `OneStart`, `ListedExactlyOnce`, `ButtonsMeanWhatTheySay`, `AnswersAreKept` | Each of the seven parts of `MCParts` |

Two more runs (`conversation_assignee`, `onboarding_stuck`) are expected to find a violation; see
section 5.

The properties of `parts_apart`, by part:

| Part | Instance | Property |
|---|---|---|
| gateway | 2 tasks, 3 updates (2 of one chat), 2 deliveries each, a filter of 2 keys, 1 restart, 2 effects tried | `ChatsAreSerial`: one update of a chat at a time, with its own barrier and one effect; `HandledOnce`: once, and once more for each time its key was forgotten |
| onboarding | 2 chats of one person, 2 names, 2 employees, 1 failure | `AnswersAreKept`: the state never falls, a stored name or link stays, nobody completes without both names |
| daily jobs | 2 users, 2 tasks due on different days, days to 3, a query of 1 row, 2 changes, 1 restart | `ToldOnce`, `EveryoneIsTold`: at most once per subject, and everyone the finished run was about |
| calls | 3 callers, threshold 2, open for 2 of 6 instants, 3 attempts, 4 calls | `ServiceIsSpared`: error statuses within one opening are bounded by the threshold and the calls under way |
| voice | 3 clients, 2 files, 5 operations | `OneStart`: one client at most is told to transcribe a file |
| lists | 3 tasks, pages of 1, 1 change during the walk, 4 shapes, every scope | `ListedExactlyOnce`: no task on two pages, none that stayed in the list passed over |
| buttons | every callback with 2 tasks, 2 numbers, a cursor or none | `ButtonsMeanWhatTheySay`: reading what was written gives the callback back |

**Why the bounds are enough.** A race of two handlers needs two; a third could only repeat
what the second does to the row, and the theorems of section 4 remove the bound where they
apply. Versions to 3 allow a creation, a change and a reassignment between a read and its
write; `workflow_talk` needs one change beside the insertion, since comments and deliveries do
the rest. In `outbox`, three rows with batches of two leave one row behind; two attempts give
one retry and one failure; one requeue brings a failed row back. Time is counted in what is
left to wait, so the clock needs no bound. In `sla_scans` the days 0 to 3 carry any deadline
through healthy, at risk and breached; one of two tasks is left out of every scan, and either may be
due first; scans of several tasks are in the theorems. In `recurrence_firings` three instants hold
a firing, a missed one and a later one. In `admin_changes` four updates are two requests for a
confirmation and their two redemptions, which is what a mutual demotion takes. In `eventually`
two employees make the directory's answer unclear and let a press change the link, and two
failures cut short a recovery and the one that would make up for it. A second chat, which
`parts_apart` has, is left out there: with it the search for cycles is too large.

In `conversation_screens` the only bounded count is that of messages: presses, texts and edits
of the active screen are free, so drafts of any length of conversation are covered; two new
messages give an old keyboard beside the present one, or a restart and what follows it. In
`parts_apart`, two updates of one chat and a third elsewhere give contention, eviction (the
filter holds two keys) and redelivery; three callers let two be under way when the third opens
the breaker, and six instants open it twice; three clients of the voice table are two that race
and one that makes a snapshot old; three tasks on pages of one give a cursor with a task on
either side. The bounded calendars and numbers of updates run out, which is why some
configurations do not check deadlock; the runs of `TaskWorkflow` do.

`conversation_screens` runs under a `VIEW` that leaves out of a state whose name the last
confirmation showed. No step and no property of that run looks at it; `AssignedAsShown` does,
and has a run of its own without the view.

**Symmetry** is declared for handlers or keys, and in `MCParts` for what runs at once and for
names, in runs with safety properties only. The runs that check liveness use none.

**Fairness.** `NotificationQueue`, `SlaEscalation` and `Recurrence` assume weak fairness of
the job as a whole and of time. `spawn_interval_job` (`scheduler/mod.rs`) justifies the first:
its loop ticks for ever and awaits each run, every run awaits only calls that return (with a
result or an error), and the order within a run is the order of the code. Nothing is assumed
fair that users do (enqueue, assign, toggle), that fails, or that restarts; that faults stop
coming is the bound `MaxFaults`. `Onboarding` assumes that a step once begun is finished, since
every call returns, and that the person keeps writing, which is the premise of both its properties
("a later message"). For `NobodyIsStuck` the person keeps writing everything that can be
written, and the run shows that even this does not help a row of an earlier version; for
`LinkedIsRecovered` plain messages are enough (`PersonFairness`). The other modules assume no fairness.

## 4. What is proved

TLAPS proves these for every set of users, records, keys, handlers, chats and tasks and every
value of the bounds. `Invariance` is the inductive invariant behind the others of its module.

| Theorem | Statement |
|---|---|
| `TaskWorkflowProofs!TypeCorrect` | `Spec => []TypeOK` |
| `...!AuditIsFaithful`, `CompletionIsApproved`, `ReassignmentStartsClean`, `BlockerHasReason`, `AssigneeIsOfRecord` | `AuditFaithful`, `OnlyApproversComplete`, `NoInheritedProgress`, `BlockedHasReason`, `AssigneeMatchesDirectory` are invariants |
| `...!AuditIsComplete` | `AuditComplete` is an invariant: with no handler cut short, every change is logged or about to be |
| `...!TerminalIsFrozen` | `Spec => TerminalFrozen` |
| `...!WorkflowImplementsBoard` | `Spec => ImplementsBoard`: the handlers refine `TaskBoard` |
| `...!SentIsEvidenced`, `AssigneeIsNotified` | `SentHasEvidence`, `AssigneeNotified` are invariants, by `NoticesAreKept` (`NoticeInv`) |
| `...!OffersAgree` | `OffersAgreeWithUseCases` is an invariant |
| `NotificationQueueProofs!TypeCorrect`, `SnapshotsStayCurrent`, `BackoffIsRespected`, `GivesUpForCause`, `RepeatsAreAccounted` | `TypeOK`, `CopiesAreCurrent`, `BackoffRespected`, `GivenUpForCause`, `RepeatedOnlyIfUnrecorded` are invariants |
| `...!PipelineKeepsPromise` | `Spec => KeepsPromise`: the pipeline refines `DeliveryPromise` |
| `AdminPanelProofs!TypeCorrect`, `ConfirmationsWorkOnce`, `ChangesLogged`, `FlagsAgree` | `TypeOK`, `ConfirmedOnce`, `ChangesAreLogged`, `FlagInForceIsStored` are invariants |
| `...!AdminStays` | `Spec => AdminRemains` |
| `SlaEscalationProofs!TypeCorrect`, `LevelsEscalated`, `AlarmsReal` | `TypeOK`, `LevelsAreEscalated`, `AlarmsAreReal` are invariants |
| `...!LevelsRise` | `Spec => LevelsOnlyRise` |
| `RecurrenceProofs!TypeCorrect`, `FiringsRepeatByFault`, `FiringsAnswered`, `RulesCatchUpOnce` | `TypeOK`, `RepeatedOnlyByFault`, `FiringsAreAnswered`, `CatchesUpOnce` are invariants |
| `ConversationProofs!TypeCorrect`, `PromptsAreMeant`, `ButtonsLive`, `DraftsAreClosed` | `TypeOK`, `PromptsMatchSession`, `ButtonsAreAlive`, `FinishedDraftsAreClosed` are invariants |
| `...!GuidedTextIsShown` | `Spec => GuidedTextWasShown`: no draft is stored with a text that was not on the screen |
| `PartsProofs!GatewayTypes`, `SerialUpdates`, `UpdatesHandledOnce` | `GatewayTypeOK`, `ChatsAreSerial`, `HandledOnce` are invariants of `UpdateGateway` |
| `...!OnboardingKeepsAnswers` | `OnboardingSpec => AnswersAreKept` |
| `...!DailyToldOnce`, `DailyTellsEveryone` | `ToldOnce`, `EveryoneIsTold` are invariants of `DailyJobs`, by `DailyInvariance` |
| `...!CallsSpareTheService` | `ServiceIsSpared` is an invariant of `ServiceCalls` |
| `...!VoiceStartsOnce` | `OneStart` is an invariant of `VoiceRecords` |
| `...!ListsAreWhole` | `ListedExactlyOnce` is an invariant of `TaskLists` |
| `...!ButtonsMeanIt` | `CodecInit => ButtonsMeanWhatTheySay` |

The type invariants, `BlockedHasReason`, `BackoffRespected` and `AlarmsAreReal`, which are proved,
are not listed in the runs: they follow for every instance.

*Assumptions.* Those the modules declare: the bounds are natural numbers, limits are positive,
`None` is no user, record or instant, configured admins are accounts, and the pairs of account
and record the resolver and the recovery work with come from the directory. `Conversation` asks
that pages are among the screens of the menu stage and that `None` is none of the values it stands
in for, `CallbackCodec` that the words for "no cursor" and "no task" are no task identifiers (which are
UUIDs), `DailyJobs` and `ServiceCalls` that tasks and callers are finitely many. TLC evaluates all of them.

*TaskWorkflow.* The invariants speak of rows, the danger is in the copies. `Sound(p, t, ...)`
says of a handler that is about to save: its `next` is a legal step of its `snap`, has the
version of `snap` plus one, and `snap` is the row itself if the versions agree. The last part
is what optimistic locking is about: a row is determined by its version, because every
change raises it by one. From it, a successful `Save` is a legal step of the current row, which
gives the refinement and, with the lemmas on legal steps in `TaskLifecycleProofs`, the
invariants of the row. `RowInv` collects what legal steps preserve. For `AuditComplete` the
entries and the debts of handlers are numbered by the version they are about
(`EntriesNumbered`), so that no two handlers owe the same entry (`OwedOnce`) and a debt that
is paid is the one that is missing.

For `SentHasEvidence` and `AssigneeNotified`, `NoticeInv` says what a handler has in hand:
whoever is about to store a task in status sent saw it so or has delivered, and whoever is about to
store another assignee carries the notification that tells him, until it is queued
(`AssigneeInMind`). Rows of the outbox are never removed and never change their recipient, so the
evidence stays (`NoticesStay`). "Has been delivered" must be a mark that stays, too: a recovery
that saw a row failed may requeue it after another recovery did and it was delivered, so that the
row is pending again while the task is sent. `is_sent` is that mark. The proofs of both hold for all
operations together, recoveries included.

*TaskCards.* On every well-typed row, and `TypeCorrect` says that there are no others, the offers
and the guards are compared action by action.

*NotificationQueue.* `CopiesAreCurrent` and `BackoffRespected` need to know where copies are
(`StepsInPlace`), in particular that a row a recovery is about to requeue is failed and hence
not in flight: this is why a requeue without a condition is harmless. It rests on one recovery at
a time per row (section 6).
`ArrivalsAccounted` is an equation, delivered = unrecorded + in hand + sent, and
`AttemptsAccounted` bounds the attempts of a row by the errors there were.

*AdminPanel.* `SnapshotsHold` is the heart: a handler in a transaction whose snapshot is
current still sees that its change is not one of the last admin. Any commit makes other
snapshots stale, so a step that changes accounts cannot invalidate it. `NoncesDiffer` and
`SpentOnce` say that a confirmation is in the store, in one hand or executed; `Numbered` and
`Accounted` that an update belongs to one handler and is done exactly when its handler owes an
entry; `OneToggle` that without overlapping toggles one handler at a time is between the
database and the registry.

*SlaEscalation.* `CopiesAgree`: a scan runs with the day it began on, and its copies still have
the deadline and the level of their rows, since nobody else changes these, however often
assignees and statuses change. `InSeason`: no stored level is above that of the present day and
no escalation above the stored level. `UnderWay` describes the copy whose escalation is being
written. `Recorded` is `LevelsAreEscalated` for rows and records: a stored level has its record,
or the scan is about to make it, or a fault took it; likewise a record and its notification.

*Recurrence.* `KeysKnown` ties each task to the tick that made it: the rule was advanced since, or
the task is for the firing the rule is still at. `Answered` says that what a tick advances past
has been answered, `Uncut` that a firing which no fault cut short has one task and its rule is
past it or about to be. For `CatchesUpOnce`, a task stands for the firings from its own to
the tick that made it. `SpansEnd`: its rule is past that tick, or still at the task's firing, under
way or because a fault kept it there; so the next task begins later. `PassedBehind`: what a rule was
advanced from is behind it, which tells the last such firing before any other. The next firing of
a schedule is the least element of a set of numbers; that it exists is proved by the
well-foundedness of `<`.

*UpdateGateway.* `SerialInv`: chats have locks of their own (`LocksDiffer`), a task that found its
lock has the lock of its chat (`LocksFound`), a lock is held by one task (`OneInside`), and the
barrier in force is that of the task that handles (`BarrierHolds`). `Counted` is behind
`HandledOnce`: how often an update was handled, or is past the filter and about to be, is at
most how often it was forgotten, plus one while its key is remembered.

*Onboarding.* Every answer is a write under the version that was read. `DeskFits` says of a handler
in the middle of its calls that the copy it holds is the row or an earlier version of it
(`StillIs`), and that the names it completes with are those of that copy. `Grows` is what any
write makes of a row: a new version that keeps what was there, or a link alone. A copy stays a copy
when the row grows (`GrowthIsSeen`), which is why two chats of one person do no harm.

*DailyJobs.* `KeysAreTold` ties the keys in the outbox to the subjects that were told. The key of
a reminder does not name its recipient; `RemindersReachTheDoer` shows that the recipient is
nevertheless determined as long as the task was not changed since, which is what `ToldOnce` asks.
`NobodyIsForgotten` says that a run under way has told or still holds whatever is due of the
tasks nobody changed.

*ServiceCalls.* `StatusesCount`: each error status counts once, and those from the threshold on
have kept the breaker open until their time plus the cool-down. `OpenSpares` bounds the recent
statuses and the calls still out together: a call that comes back moves from one to the other, and
none goes out while the breaker is open. The counting is by the library's theorems on cardinalities.

*VoiceRecords.* `ReadsAreFresh`: a transaction that is not stale has read what is there.
`StartedHasLeft`: a record somebody was told to transcribe is out of the queue and no transition
leads back.

*TaskLists.* The cursor parts what was listed from what is to come (`CursorParts`), and what was in
the list all the time is behind it and shown, or ahead (`ShownBehind`, `NothingAhead`).

*CallbackCodec.* There are no steps; the theorem is about the tables. The first words and the number of
arguments tell any two forms apart (`WordsDiffer`), the words of earlier versions are no words of
the present ones (`OnlyItselfFits`), and what is read of a part written for an argument is the
argument and nothing else (`ReadsWhatIsWritten`). Identifiers and numbers are any values.

*Conversation.* The invariant relates the screen, the stores and the tasks. `ScreenFits`: unless the
screen is torn, its prompt is what the session waits for and its buttons find what they need;
`TornForCause` says that it is torn by faults only. `DraftWasShown` follows the draft's text: a
keyboard that submits belongs to a screen that showed the text of the draft, and one taken away by
the last edit (`late`) to a screen that did, or showed that there was none yet; a pending question
about the draft holds its text. Nearly every step ends by showing a view, so that the proof has three lemmas
for all of them: `ShowStep` for a handler that shows a view fitting the stores it leaves,
`KeepStep` for one that leaves the screen alone, `FailStep` for a service that fails. Each button and
each text is then a lemma that names its view. `GuidedTextWasShown` is an action property;
`StoredAsShown` is its statement about one step, and is shown for each step from the invariant.

*Only model-checked:* the liveness properties `EventuallySettled`, `OverdueIsSeen`, `DueIsServed` and
`LinkedIsRecovered`, since liveness under fairness is out of the prover's reach. Every other property
that a passing run checks is a theorem. (`AssignedAsShown` and `NobodyIsStuck` are violated.)

## 5. Where the code and its documentation disagree

With a run that exhibits it:

- **`AssignedAsShown`** (`conversation_assignee`). The comment at `dispatcher_guided.rs:311-315`
  says that the confirmed employee ID "guarantees no silent wrong assignment".
  `confirm_assignee` (`:119`) sets that ID and leaves the name as it was. A press on a candidate
  of earlier suggestions, arriving after the user wrote another name, makes the confirmation
  show the one and the submission assign the other.
- **`NobodyIsStuck`** (`onboarding_stuck`). `onboarding/mod.rs:130-131`: unknown states are
  completed "so legacy users never get stuck"; also `domain/user.rs:46-47` and
  `dispatcher_handlers.rs:235-237`. A row from before the migration is completed and has no
  names, the gate (`:170`) wants both, and the handlers it calls instead neither admit the
  person nor ask.

Found in `TaskWorkflow`, `SlaEscalation`, `Recurrence` and `AdminPanel`, whose properties are stated
so that they hold of the code as it is; these have no run of their own:

- The comment at `domain/recurrence.rs:138` calls `next_fire_after` the "next firing time at or after
  `from`"; the code (`:142`) takes the next one strictly after it, as the comment on
  `compute_next_run` (`process_recurrence_rules.rs:197-198`) says. They differ when a tick begins
  at the instant of a firing. `NextFireAfter` is the code, `NextFireFrom` what the first comment
  says. No property asks for the one or the other as such; under `NextFireFrom` a rule is due again
  at the firing it was just served for, which `RepeatedOnlyByFault` notices.
- `update_sla_states.rs:3`: "Scans every open task with a concrete deadline". A scan lists the first
  500 in the order of deadlines (`:71`), and breached tasks stay among them until they are closed:
  with more of them the later ones are never given a state. `OverdueIsSeen` says which tasks are
  found all the same.
- `admin.rs:11-12`: "a deactivated admin cannot mutate roles". The check (`:101`) is made on the copy
  of the account read when the update arrived; a deactivation committed after that does not
  stop the change. `ConfirmedOnce` says what the code does ensure: the admin was active when the
  update arrived.
- `admin_nonce_store.rs:127-128`: `discard` is "used by the explicit "Cancel" button".
  `cancel_admin_pending` (`dispatcher_admin.rs:276`) does not call it, nor does anything but a test,
  and the stage of the menu it shows still takes a press of the confirm button that was under way:
  a confirmation that was cancelled is redeemed, once at most and by its user only
  (`ConfirmedOnce`).
- `docs/memory.md:309`: "`sent` means the assignment notification was actually delivered".
  `mark_related_task_as_sent` does not compare the notification's recipient with the task's
  assignee: a notification queued before a reassignment marks the task sent when the
  *previous* assignee gets it.
- `README.md:48`: "assignment delivery is backfilled safely". `ensure_assignment_notification`
  is content with any earlier delivered assignment notification of the same task and user, also
  one of an assignment that was since undone.
- `update_sla_states.rs:5-10` promises an escalation and a notification when the level rises.
  The level is stored first, and the next scan skips what is stored: a stop in between loses
  both for good (`LevelsAreEscalated` excuses a fault).
- `process_recurrence_rules.rs:113-115`: the key "deduplicates if the worker restarts and
  re-processes the same tick". It holds the instant of the tick, not the firing, so a repeated
  tick has another key (`RepeatedOnlyByFault`).

Noted while reading, without a run. Conversation and screens:

- `callback_data` may exceed the 64 bytes Telegram allows: `t:status:assigned:<uuid>:in_progress`
  has 66; the cards of the manager's inbox have 65 to 71.
- The confirmation of a recording is a second screen of one update and is swallowed by the
  barrier, so that the screen stays at "processing" (`active_screens.rs:43-44`;
  `docs/telegram-ux.md:145`, `docs/system-model.md:246` and `DEPLOYMENT.md:139` describe it as shown).
- A late Confirm after a second recording creates the task of a text nobody has seen; a Confirm
  that races with an edit of the transcript takes the old text. A description that begins with a
  name assigns the task although it was shown without an assignee; `skip_assignee` keeps an
  employee chosen before. A text written for an interaction prompt goes to a creation session
  that is still alive.
- A command or press that ends in an error clears the interaction while its prompt stays; the
  keyboard of the prompt has buttons that its stage refuses. Non-mutating buttons of old screens
  may alter a draft; the help page after a delivery takes the buttons of any card; the stage
  after a restart takes everything.
- `ReportBlocker` is offered on a blocked task (`docs/ARCHITECTURE.md:77` lists no such move).

Gateway, onboarding, jobs, clients:

- `UpdateDedup` is called an LRU (`gateway.rs:31,157`) and forgets in order of arrival.
- A press of a person whose row awaits a link is taken by the gate as a text, so that
  `handle_link_selection` is never reached; `DEPLOYMENT.md:136` lists an "optional employee
  link" that onboarding never offers.
- A stop between the write of the last name (`onboarding/mod.rs:265`) and the completion (`:287`)
  leaves the row awaiting an employee link. A text is then answered by asking for the selection,
  /start shows an empty list, and presses are taken as texts: nothing leads further, while
  `README.md:29` calls the state persistent.
- The key of a deadline reminder (`enqueue_task_reminders.rs:52`) has the task and the day, not the
  recipient: when the job runs again on a day on which the task has changed hands, the new assignee
  gets none. A daily summary is built from the first open tasks (`enqueue_daily_summaries.rs:41`):
  with more of them, some users get none. `EveryoneIsTold` is stated around both.
- An error in a daily job still notes the date: the rest of that day's notifications are lost.
- Transport errors and time-outs never count for the breaker, which has no half-open state: all
  callers go at once when it has been open long enough.
- A failed voice record is never purged: the purge asks for `completed_at`
  (`voice_processing_repository.rs:252`), which a failure does not set.
- A task may stand in two sections of one page.
- The comments on back-off speak of a third retry after 240 s (`process_notifications.rs:182`,
  `shared/constants/reliability.rs:3`) while the third failure is final (`:188`); `admin_nonces` of
  migration 007 is unused, the store is in memory.

## 6. Abstractions

- *Texts, names, times.* A title, comment or reason is present or not; a stamp is a version; a
  dedupe key is a record of its kind, recipient and reference.
- *One task* in `TaskWorkflow`. Its handlers never relate two tasks; the parts that do (batches,
  limits, order, pages) are in other modules.
- *More interleavings than the code has.* Several handlers of one actor may run at once although
  a chat's updates are serialized; deliveries of distinct notifications overlap freely in
  `TaskWorkflow`. What is shown holds a fortiori.
- *Merged steps.* In `TaskWorkflow`, sending and `mark_sent` are one action (they are apart in
  `NotificationQueue`, where it matters), and so are an insert and the re-read of the row it
  returns. In `AdminPanel` and `VoiceRecords`, the write and the commit of a transaction are one
  action, since SQLite refuses at the write. In `Conversation` a handler is one action.
- *Choices.* The resolution of a name to an account or record, whether a sending succeeds, the
  outcome of a service and the firings of a schedule are free choices.
- *Stops.* In `TaskWorkflow` a stop of the process is a sequence of `Fail` steps, one per handler
  in flight, which leaves the same tables. The other modules have it as one step.
- *Recoveries* take no part in `workflow_talk`, to keep it small: a recovery may mark a task sent on
  the ground of an earlier notification (section 5). The theorem on `SentHasEvidence` covers them.
- *Recipients* are reachable in `TaskWorkflow`; `RecipientMissing` is in `NotificationQueue`.
- *Roles* are constant in `TaskWorkflow`; a role that changes between a click and its check is
  a handler of `AdminPanel`. There, users and managers are one, since the panel tells them apart
  nowhere.
- *Requeues.* `SeeFailed` lets one recovery at a time hold a row. The compare-and-swap of the link
  lets one recovery through per link; for two at once, the task would have to be linked, taken
  off the account and linked to it again while the first recovery is between two of its calls, and
  a delivery to fail meanwhile. `NotificationQueue` leaves that out; `TaskWorkflow` does not.
- *Deadlines* never change in the code, templates and rules are written by an operator only;
  `SlaEscalation`, `Recurrence` and `DailyJobs` choose them at the start.
- *Cancel* in the admin panel leaves the confirmation where it is and changes nothing else that
  `AdminPanel` has, so that it is no step there (section 5). The audit entries of the promotion at
  start-up are left out.
- *Tasks in a conversation* are open or closed, with a text and an assignee; their statuses are
  those of `TaskWorkflow`, and `TaskCards` compares what the card offers with them.
- *Origins* of cards and lists travel with the buttons and are left out of `Screens`; that they
  survive the way through the data of a button is `CallbackCodec`.
- *A barrier* in `UpdateGateway` lets through one of any number of effects; which one that is
  decides the screen of `Conversation`.
- *Pauses* of retries are of any length; a request takes any time.
- *One of three jobs* in `DailyJobs`: their keys differ, so that they do not meet.

Not modelled, and why:

- Security audit: an append-only log that only a screen reads back.
- Working calendar, deadline phrases, name ranking with its string distances, `SlaState::compute`
  (used by no worker): pure functions of texts and dates, with tests of their own.
- The rate limiter: a count per window of the wall clock, in front of everything else.
- `handle_link_selection`: not reachable while the gate takes the presses (section 5).
- The sync of employees: one loop of upserts, with no state between its steps.
- Layout of the admin screens, texts, prompts and schemas; search and statistics, which are
  single queries; HTTP endpoints, configuration, logging and start-up: wiring and pure I/O.

Some hazards listed in `PROJECT.json` have no property. An earlier notification that passes for
a present one after a reassignment there and back (`register_user/mod.rs:390`) is a gap of the
code (section 5), and `AssigneeNotified` is stated around it. After a stop between the insertion of
a task and its notification (`create_task_from_message.rs:144`), the same message finds the task
and returns before the notification; nothing else queues it for an assignee who has an account
already. `AuditComplete` and `AssigneeNotified` state what holds when the handler is not cut short.
A confirmation that was cancelled, the reminders of a reassigned task, the summaries beyond the
limit of their query and a row that is left awaiting a link are gaps of the code, for which a
property could only fail (section 5). Two hazards are covered in part: `ConfirmedOnce` speaks of an
actor up to the arrival of the update that redeems (`admin.rs:101`), and `OverdueIsSeen` of the
tasks that one scan has room for (`update_sla_states.rs:71`).

## 7. Plan

Done: the task with its use cases, recovery and cards; the outbox; the SLA and recurrence
workers; the admin panel; the gateway; screens, conversation and codec; onboarding, daily jobs,
service calls, voice records and lists. All of these are model-checked, and their safety
properties proved.

Left, in this order:

| What | Properties | Theorems |
|---|---|---|
| Gateway and conversation composed | the barrier decides which screen of a handler arrives | that the composition implements `Conversation` |
| `EmployeeSync` | a partial sync loses no link | links survive any sequence of rows |
| `WorkingCalendar`, name ranking | agreement with reference definitions over bounded dates and scores | |
| Rate limiter, admin screens, `handle_link_selection` once reachable | a limit per window; the gates of the admin stages | |

## 8. How to run

    tlc -workers 2 -config MCTaskWorkflow_work.cfg MCTaskWorkflow
    tlapm TaskWorkflowProofs.tla

and likewise for the other configurations (`MC<module>_<run>.cfg`) and proof modules. The
longest run takes about two minutes on two cores, the longest proof about three.
