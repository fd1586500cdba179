-------------------------- MODULE NotificationQueue --------------------------
(***************************************************************************)
(* The outbox: rows of notifications, and the background job that delivers *)
(* them.                                                                   *)
(*                                                                         *)
(* spawn_interval_job runs ProcessNotificationsUseCase::execute again and  *)
(* again, and never starts it while it runs.  One run lists the due rows   *)
(* (at most BatchSize, oldest first) and spawns one delivery per row, at   *)
(* most MaxConcurrent at a time.  A delivery looks up its recipient, sends *)
(* the message, and records the outcome by the row's id, whatever the row  *)
(* is by then.  Any repository call may fail and the process may stop at   *)
(* any point; the answer of Telegram may be lost after the message is out. *)
(*                                                                         *)
(* Time is counted in minutes (NOTIFICATION_RETRY_BASE_SECONDS), as what   *)
(* is left until next_attempt_at.                                          *)
(***************************************************************************)
EXTENDS Naturals, FiniteSets

CONSTANTS
  Keys,           \* dedupe keys
  MaxAttempts,    \* MAX_NOTIFICATION_RETRY_ATTEMPTS
  BatchSize,      \* PENDING_NOTIFICATION_BATCH_SIZE
  MaxConcurrent,  \* MAX_CONCURRENT_NOTIFICATION_DELIVERIES
  MaxRequeues,    \* bound on how often a recovery queues a row again
  MaxFaults       \* bound on failing repository calls and process stops

ASSUME LimitsAssumption ==
  /\ MaxAttempts \in Nat \ {0}
  /\ BatchSize \in Nat \ {0}
  /\ MaxConcurrent \in Nat \ {0}
ASSUME BoundsAssumption == MaxRequeues \in Nat /\ MaxFaults \in Nat

VARIABLES
  rows,        \* the row of each key
  batch,       \* the copies listed and not yet spawned
  flight,      \* the copies being delivered
  recovering,  \* keys a registration recovery has seen failed
  delivered,   \* history: how often each message reached its chat
  tries,       \* history: transient errors of each key
  refused,     \* history: keys with a permanent error
  unrecorded,  \* history: deliveries whose outcome was never recorded
  requeues, faults  \* history: what the bounds count

vars == <<rows, batch, flight, recovering, delivered, tries, refused, unrecorded,
          requeues, faults>>

-----------------------------------------------------------------------------
(* Data *)

\* wait is zero when next_attempt_at is NULL or past; born orders the rows by
\* created_at and id.
Row == [state    : {"absent", "pending", "retry_pending", "sent", "failed"},
        attempts : Nat,
        wait     : Nat,
        born     : Nat]

Absent == [state |-> "absent", attempts |-> 0, wait |-> 0, born |-> 0]

\* What list_pending returned of a row, and how far its delivery has got.
Copy == [key      : Keys,
         attempts : Nat,
         step     : {"listed", "loaded", "accepted", "refused", "dropped"}]

\* Back-off before the next attempt: one minute doubled with each attempt, and an
\* hour at most.
Delay(attempt) ==
  IF attempt <= 6 THEN <<1, 2, 4, 8, 16, 32>>[attempt] ELSE 60

Queued(k) == rows[k].state \in {"pending", "retry_pending"}

\* A job that forgets the rows that wait for a retry, for a mutant.
DueFirstAttempts == {k \in Keys : rows[k].state = "pending" /\ rows[k].wait = 0}

\* The WHERE clause of list_pending.
Due == {k \in Keys : Queued(k) /\ rows[k].wait = 0}

\* Its ORDER BY and LIMIT: the oldest due rows, as many as fit.
Oldest(due) ==
  {k \in due : Cardinality({j \in due : rows[j].born < rows[k].born}) < BatchSize}

Present == {k \in Keys : rows[k].state # "absent"}

Held == batch \cup flight

-----------------------------------------------------------------------------
Init ==
  /\ rows = [k \in Keys |-> Absent]
  /\ batch = {} /\ flight = {} /\ recovering = {}
  /\ delivered = [k \in Keys |-> 0]
  /\ tries = [k \in Keys |-> 0]
  /\ refused = {}
  /\ unrecorded = [k \in Keys |-> 0]
  /\ requeues = 0 /\ faults = 0

Memory == <<batch, flight>>
History == <<delivered, tries, refused, unrecorded>>
Bounds == <<requeues, faults>>

-----------------------------------------------------------------------------
(* Callers *)

\* NotificationRepository::enqueue: INSERT OR IGNORE; a second enqueue of the
\* same key changes nothing.
Enqueue(k) ==
  /\ rows[k].state = "absent"
  /\ rows' = [rows EXCEPT ![k] = [state |-> "pending", attempts |-> 0, wait |-> 0,
                                  born |-> Cardinality(Present) + 1]]
  /\ UNCHANGED <<Memory, recovering, History, Bounds>>

\* A recovery that takes any settled notification for a failed one, for a mutant.
SeeSettled(k) ==
  /\ rows[k].state \in {"failed", "sent"}
  /\ k \notin recovering
  /\ requeues < MaxRequeues
  /\ requeues' = requeues + 1
  /\ recovering' = recovering \cup {k}
  /\ UNCHANGED <<rows, Memory, History, faults>>

\* A registration recovery looks its notification up and finds it failed.  The
\* compare-and-swap of the link lets one recovery get here per link; that the link
\* is undone and made again while the first is still here is left out.
SeeFailed(k) ==
  /\ rows[k].state = "failed"
  /\ k \notin recovering
  /\ requeues < MaxRequeues
  /\ requeues' = requeues + 1
  /\ recovering' = recovering \cup {k}
  /\ UNCHANGED <<rows, Memory, History, faults>>

\* NotificationRepository::requeue, by id and without a condition; attempt_count
\* keeps its value.
Requeue(k) ==
  /\ k \in recovering
  /\ recovering' = recovering \ {k}
  /\ rows' = [rows EXCEPT ![k].state = "pending", ![k].wait = 0]
  /\ UNCHANGED <<Memory, History, Bounds>>

-----------------------------------------------------------------------------
(* The job *)

\* A ticker that does not wait for the run before, for a mutant.
StartBatchAnytime ==
  /\ Due # {}
  /\ batch' = batch \cup {[key |-> k, attempts |-> rows[k].attempts,
                          step |-> "listed"] : k \in Oldest(Due)}
  /\ UNCHANGED <<rows, flight, recovering, History, Bounds>>

\* A run of the job starts, the one before having returned, and lists its batch.
StartBatch ==
  /\ batch = {} /\ flight = {}
  /\ Due # {}
  /\ batch' = {[key |-> k, attempts |-> rows[k].attempts, step |-> "listed"] :
                 k \in Oldest(Due)}
  /\ UNCHANGED <<rows, flight, recovering, History, Bounds>>

\* A permit of the semaphore is free and the next delivery is spawned.
Spawn(c) ==
  /\ c \in batch
  /\ Cardinality(flight) < MaxConcurrent
  /\ \A d \in batch : rows[c.key].born <= rows[d.key].born
  /\ batch' = batch \ {c}
  /\ flight' = flight \cup {[c EXCEPT !.step = "loaded"]}
  /\ UNCHANGED <<rows, recovering, History, Bounds>>

Advance(c, step) == flight' = (flight \ {c}) \cup {[c EXCEPT !.step = step]}

\* The recipient has no account or no chat: nothing is sent.
RecipientMissing(c) ==
  /\ c \in flight /\ c.step = "loaded"
  /\ Advance(c, "refused")
  /\ refused' = refused \cup {c.key}
  /\ UNCHANGED <<rows, batch, recovering, delivered, tries, unrecorded, Bounds>>

\* Telegram takes the message and says so.
SendAccepted(c) ==
  /\ c \in flight /\ c.step = "loaded"
  /\ Advance(c, "accepted")
  /\ delivered' = [delivered EXCEPT ![c.key] = @ + 1]
  /\ UNCHANGED <<rows, batch, recovering, tries, refused, unrecorded, Bounds>>

\* One of PERMANENT_DELIVERY_ERROR_CODES.
SendRefused(c) ==
  /\ c \in flight /\ c.step = "loaded"
  /\ Advance(c, "refused")
  /\ refused' = refused \cup {c.key}
  /\ UNCHANGED <<rows, batch, recovering, delivered, tries, unrecorded, Bounds>>

\* Any other error: the message did not arrive, or it did and the answer was lost.
SendDropped(c, arrived) ==
  /\ c \in flight /\ c.step = "loaded"
  /\ Advance(c, "dropped")
  /\ tries' = [tries EXCEPT ![c.key] = @ + 1]
  /\ IF arrived
     THEN /\ delivered' = [delivered EXCEPT ![c.key] = @ + 1]
          /\ unrecorded' = [unrecorded EXCEPT ![c.key] = @ + 1]
     ELSE UNCHANGED <<delivered, unrecorded>>
  /\ UNCHANGED <<rows, batch, recovering, refused, Bounds>>

Return(c) == flight' = flight \ {c}

\* Recording before sending, for a mutant.
MarkSentFirst(c) ==
  /\ c \in flight /\ c.step \in {"loaded", "accepted"}
  /\ rows' = [rows EXCEPT ![c.key].state = "sent", ![c.key].wait = 0]
  /\ Return(c)
  /\ UNCHANGED <<batch, recovering, History, Bounds>>

\* NotificationRepository::mark_sent
MarkSent(c) ==
  /\ c \in flight /\ c.step = "accepted"
  /\ rows' = [rows EXCEPT ![c.key].state = "sent", ![c.key].wait = 0]
  /\ Return(c)
  /\ UNCHANGED <<batch, recovering, History, Bounds>>

\* mark_failed
Failed(k) ==
  rows' = [rows EXCEPT ![k].state = "failed", ![k].wait = 0,
                       ![k].attempts = @ + 1]

\* mark_retry_pending
Retried(k, attempt) ==
  rows' = [rows EXCEPT ![k].state = "retry_pending", ![k].wait = Delay(attempt),
                       ![k].attempts = @ + 1]

MarkFailed(c) ==
  /\ c \in flight /\ c.step = "refused"
  /\ Failed(c.key)
  /\ Return(c)
  /\ UNCHANGED <<batch, recovering, History, Bounds>>

\* The limit is reached one attempt early, for a mutant.
LastAttemptEarly(attempt) == attempt >= MaxAttempts - 1

LastAttempt(attempt) == attempt >= MaxAttempts

\* handle_transient_failure counts from the copy, the row counts for itself.
MarkRetry(c) ==
  /\ c \in flight /\ c.step = "dropped"
  /\ IF LastAttempt(c.attempts + 1)
     THEN Failed(c.key)
     ELSE Retried(c.key, c.attempts + 1)
  /\ Return(c)
  /\ UNCHANGED <<batch, recovering, History, Bounds>>

-----------------------------------------------------------------------------
(* Faults and time *)

\* The copies whose message is out and whose outcome is not recorded.
Unrecorded(k) == Cardinality({c \in flight : c.key = k /\ c.step = "accepted"})

\* A repository call of a delivery fails: the run logs it and the row stays.
RepositoryFails(c) ==
  /\ c \in flight
  /\ faults < MaxFaults
  /\ faults' = faults + 1
  /\ Return(c)
  /\ unrecorded' = IF c.step = "accepted"
                   THEN [unrecorded EXCEPT ![c.key] = @ + 1] ELSE unrecorded
  /\ UNCHANGED <<rows, batch, recovering, delivered, tries, refused, requeues>>

\* The process stops and starts again: the rows are what is left.
Restart ==
  /\ faults < MaxFaults
  /\ faults' = faults + 1
  /\ batch' = {} /\ flight' = {} /\ recovering' = {}
  /\ unrecorded' = [k \in Keys |-> unrecorded[k] + Unrecorded(k)]
  /\ UNCHANGED <<rows, delivered, tries, refused, requeues>>

\* A minute passes.
Tick ==
  /\ \E k \in Keys : rows[k].wait > 0
  /\ rows' = [k \in Keys |-> [rows[k] EXCEPT !.wait = IF @ = 0 THEN 0 ELSE @ - 1]]
  /\ UNCHANGED <<Memory, recovering, History, Bounds>>

-----------------------------------------------------------------------------
Send(c) ==
  \/ RecipientMissing(c) \/ SendAccepted(c) \/ SendRefused(c)
  \/ \E arrived \in BOOLEAN : SendDropped(c, arrived)

Record(c) == MarkSent(c) \/ MarkFailed(c) \/ MarkRetry(c)

Job ==
  \/ StartBatch
  \/ \E c \in batch : Spawn(c)
  \/ \E c \in flight : Send(c) \/ Record(c)

Next ==
  \/ \E k \in Keys : Enqueue(k) \/ SeeFailed(k) \/ Requeue(k)
  \/ Job
  \/ \E c \in flight : RepositoryFails(c)
  \/ Restart
  \/ Tick

\* Time passes, the ticker of the job fires, its tasks are scheduled and every
\* call returns.  Nobody has to enqueue anything, and nothing has to fail.
Fairness == WF_vars(Job) /\ WF_vars(Tick)

Spec == Init /\ [][Next]_vars /\ Fairness

-----------------------------------------------------------------------------
(* Properties *)

TypeOK ==
  /\ rows \in [Keys -> Row]
  /\ batch \subseteq Copy
  /\ flight \subseteq Copy
  /\ recovering \subseteq Keys
  /\ delivered \in [Keys -> Nat]
  /\ tries \in [Keys -> Nat]
  /\ refused \subseteq Keys
  /\ unrecorded \in [Keys -> Nat]
  /\ requeues \in Nat /\ faults \in Nat

\* What a caller can tell of its notification.
Status(k) ==
  CASE rows[k].state = "absent" -> "none"
    [] Queued(k)               -> "queued"
    [] OTHER                   -> rows[k].state

Promise == INSTANCE DeliveryPromise WITH status <- [k \in Keys |-> Status(k)]

\* The pipeline keeps its promise: at least one delivery before sent, none after.
KeepsPromise == Promise!Spec

\* What a delivery knows of its row is current until it records its outcome: the
\* row is still queued and has counted as many attempts as the copy, so that the
\* limit decided on the copy is the limit of the row.  One copy of a row is held
\* at a time.
CopiesAreCurrent ==
  \A c \in Held :
    /\ Queued(c.key)
    /\ rows[c.key].attempts = c.attempts
    /\ \A d \in Held : d.key = c.key => d = c

\* A message arrives twice only if the outcome of an earlier arrival was never
\* recorded: a lost answer, a failed write, or a stop between send and mark_sent.
RepeatedOnlyIfUnrecorded ==
  \A k \in Keys : delivered[k] <= 1 + unrecorded[k]

\* A row is given up only after a permanent error or MaxAttempts transient ones.
GivenUpForCause ==
  \A k \in Keys :
    rows[k].state = "failed" => k \in refused \/ tries[k] >= MaxAttempts

\* A row that waits for a retry is left alone until its time has come.
BackoffRespected ==
  \A c \in Held : rows[c.key].wait = 0

\* Every queued notification is settled in the end, whatever the other rows do.
EventuallySettled ==
  \A k \in Keys : Queued(k) ~> rows[k].state \in {"sent", "failed"}

=============================================================================
