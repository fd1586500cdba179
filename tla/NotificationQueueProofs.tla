----------------------- MODULE NotificationQueueProofs -----------------------
(***************************************************************************)
(* Theorems about NotificationQueue for any set of dedupe keys, any limits *)
(* and any number of requeues and faults.                                  *)
(***************************************************************************)
EXTENDS NotificationQueue, FiniteSetTheorems, TLAPS

\* Some copy of k in flight has reached this step.
Has(k, step) == \E c \in flight : c.key = k /\ c.step = step

CountIf(b) == IF b THEN 1 ELSE 0

\* Where a copy is says how far it has got, a row a recovery is about to requeue
\* stays failed, and a refusal is remembered.
StepsInPlace ==
  /\ \A c \in batch : c.step = "listed"
  /\ \A c \in flight : c.step # "listed"
  /\ \A c \in flight : c.step = "refused" => c.key \in refused
  /\ \A k \in recovering : rows[k].state = "failed"

\* Every arrival of a message was recorded by mark_sent, is about to be, or never
\* will be.
ArrivalsAccounted ==
  \A k \in Keys :
    delivered[k] = unrecorded[k] + CountIf(Has(k, "accepted"))
                     + CountIf(rows[k].state = "sent")

\* A row counts no attempt that did not fail.
AttemptsAccounted ==
  \A k \in Keys :
    k \notin refused => rows[k].attempts + CountIf(Has(k, "dropped")) <= tries[k]

\* The strengthening under which the properties are inductive.
IInv ==
  /\ TypeOK
  /\ IsFiniteSet(Present)
  /\ StepsInPlace
  /\ CopiesAreCurrent
  /\ BackoffRespected
  /\ ArrivalsAccounted
  /\ AttemptsAccounted
  /\ GivenUpForCause

-----------------------------------------------------------------------------
(* Data *)

States == {"absent", "pending", "retry_pending", "sent", "failed"}

\* A delay is a number of minutes.
LEMMA DelayType == \A n \in Nat \ {0} : Delay(n) \in Nat
BY DEF Delay

\* The table after the outcome of a delivery of k is written: state and wait are
\* set, n attempts are added.
Written(k, s, w, n) ==
  IF n = 0
  THEN [rows EXCEPT ![k].state = s, ![k].wait = w]
  ELSE [rows EXCEPT ![k].state = s, ![k].wait = w, ![k].attempts = @ + 1]

\* Such a write keeps the type and touches no other row.
LEMMA RowWrite ==
  ASSUME NEW k \in Keys, NEW s \in States, NEW w \in Nat, NEW n \in {0, 1},
         rows \in [Keys -> Row]
  PROVE  /\ Written(k, s, w, n) \in [Keys -> Row]
         /\ \A j \in Keys \ {k} : Written(k, s, w, n)[j] = rows[j]
         /\ Written(k, s, w, n)[k].state = s
         /\ Written(k, s, w, n)[k].wait = w
         /\ Written(k, s, w, n)[k].attempts = rows[k].attempts + n
<1> DEFINE r == [rows EXCEPT ![k].state = s, ![k].wait = w]
           q == [rows EXCEPT ![k].state = s, ![k].wait = w, ![k].attempts = @ + 1]
<1>1. rows[k] \in Row /\ rows[k].attempts + 1 \in Nat
  BY DEF Row
<1>2. \A x \in Row, y \in States : [x EXCEPT !.state = y] \in Row
  BY DEF Row, States
<1>3. \A x \in Row, y \in Nat : [x EXCEPT !.wait = y] \in Row
  BY DEF Row
<1>4. \A x \in Row, y \in Nat : [x EXCEPT !.attempts = y] \in Row
  BY DEF Row
<1>5. r[k] = [[rows[k] EXCEPT !.state = s] EXCEPT !.wait = w]
  BY DEF Row
<1>6. q[k] = [[[rows[k] EXCEPT !.state = s] EXCEPT !.wait = w]
               EXCEPT !.attempts = rows[k].attempts + 1]
  BY DEF Row
<1>7. r[k] \in Row
  BY <1>1, <1>2, <1>3, <1>5
<1>8. q[k] \in Row
  BY <1>1, <1>2, <1>3, <1>4, <1>6
<1>9. \A j \in Keys \ {k} : r[j] = rows[j] /\ q[j] = rows[j]
  OBVIOUS
<1>10. r \in [Keys -> Row] /\ q \in [Keys -> Row]
  <2>1. r = [j \in Keys |-> r[j]] /\ q = [j \in Keys |-> q[j]]
    OBVIOUS
  <2>2. \A j \in Keys : r[j] \in Row /\ q[j] \in Row
    BY <1>7, <1>8, <1>9
  <2> HIDE DEF r, q
  <2> QED
    BY <2>1, <2>2
<1>11. /\ r[k].state = s /\ r[k].wait = w
       /\ r[k].attempts = rows[k].attempts /\ r[k].born = rows[k].born
  BY <1>1, <1>5 DEF Row
<1>12. /\ q[k].state = s /\ q[k].wait = w
       /\ q[k].attempts = rows[k].attempts + 1 /\ q[k].born = rows[k].born
  BY <1>1, <1>6 DEF Row
<1>13. CASE n = 0
  <2>1. Written(k, s, w, n) = r
    BY <1>13 DEF Written
  <2>2. rows[k].attempts + n = rows[k].attempts
    BY <1>1, <1>13 DEF Row
  <2> HIDE DEF r, q
  <2> QED
    BY <1>9, <1>10, <1>11, <2>1, <2>2
<1>14. CASE n = 1
  <2>1. Written(k, s, w, n) = q
    BY <1>14 DEF Written
  <2> HIDE DEF r, q
  <2> QED
    BY <1>9, <1>10, <1>12, <1>14, <2>1
<1> QED
  BY <1>13, <1>14

\* Moving one copy to another step keeps what it knows of its row.
LEMMA CopyExcept ==
  ASSUME NEW c \in Copy,
         NEW s \in {"listed", "loaded", "accepted", "refused", "dropped"}
  PROVE  LET d == [c EXCEPT !.step = s]
         IN  d \in Copy /\ d.key = c.key /\ d.attempts = c.attempts /\ d.step = s
BY DEF Copy

-----------------------------------------------------------------------------
(* Copies that move *)

\* A row has one copy, and it is at one step.
LEMMA HasStep ==
  ASSUME CopiesAreCurrent, NEW c \in flight
  PROVE  \A s : Has(c.key, s) <=> c.step = s
BY DEF CopiesAreCurrent, Held, Has

\* A delivery that returns leaves no copy of its row.
LEMMA ReturnMoves ==
  ASSUME IInv, NEW c \in flight, Return(c), batch' = batch
  PROVE  /\ Held' \subseteq Held
         /\ \A d \in Held' : d.key # c.key
         /\ \A k, s : k # c.key => (Has(k, s)' <=> Has(k, s))
         /\ \A s : ~Has(c.key, s)'
<1>1. flight' = flight \ {c}
  BY DEF Return
<1>2. Held' = batch \cup (flight \ {c})
  BY <1>1 DEF Held
<1>3. c \notin batch
  BY DEF IInv, StepsInPlace
<1>4. \A d \in Held : d.key = c.key => d = c
  BY DEF IInv, CopiesAreCurrent, Held
<1>5. \A d \in Held' : d.key # c.key
  BY <1>2, <1>3, <1>4 DEF Held
<1>6. \A k, s : k # c.key => (Has(k, s)' <=> Has(k, s))
  BY <1>1 DEF Has
<1>7. \A s : ~Has(c.key, s)'
  BY <1>5 DEF Has, Held
<1> QED
  BY <1>2, <1>5, <1>6, <1>7 DEF Held

\* A delivery that goes on replaces the copy of its row by one at the new step.
LEMMA AdvanceMoves ==
  ASSUME IInv, NEW c \in flight, batch' = batch,
         NEW s \in {"loaded", "accepted", "refused", "dropped"}, Advance(c, s)
  PROVE  LET d == [c EXCEPT !.step = s]
         IN  /\ d \in Copy /\ d.key = c.key /\ d.attempts = c.attempts /\ d.step = s
             /\ flight' = (flight \ {c}) \cup {d}
             /\ Held' = (Held \ {c}) \cup {d}
             /\ \A e \in Held \ {c} : e.key # c.key
             /\ \A k, x : k # c.key => (Has(k, x)' <=> Has(k, x))
             /\ \A x : Has(c.key, x)' <=> x = s
<1> DEFINE d == [c EXCEPT !.step = s]
<1>1. c \in Copy
  BY DEF IInv, TypeOK
<1>2. d \in Copy /\ d.key = c.key /\ d.attempts = c.attempts /\ d.step = s
  <2>1. s \in {"listed", "loaded", "accepted", "refused", "dropped"}
    OBVIOUS
  <2> QED
    BY <1>1, <2>1, CopyExcept
<1>3. flight' = (flight \ {c}) \cup {d}
  BY DEF Advance
<1> HIDE DEF d
<1>4. c \notin batch
  BY DEF IInv, StepsInPlace
<1>5. Held' = (Held \ {c}) \cup {d}
  BY <1>3, <1>4 DEF Held
<1>6. \A e \in Held \ {c} : e.key # c.key
  BY DEF IInv, CopiesAreCurrent, Held
<1>7. \A k, x : k # c.key => (Has(k, x)' <=> Has(k, x))
  BY <1>2, <1>3 DEF Has
<1>8. \A x : Has(c.key, x)' <=> x = s
  BY <1>2, <1>3, <1>6 DEF Has, Held
<1> QED
  BY <1>2, <1>3, <1>5, <1>6, <1>7, <1>8 DEF d

-----------------------------------------------------------------------------
(* One lemma per part of Next: it preserves the invariant *)

\* Looking the recipient up and sending.
LEMMA SendKeeps ==
  ASSUME IInv, NEW c \in flight, Send(c)
  PROVE  IInv'
<1> DEFINE k0 == c.key
<1>1. /\ c.step = "loaded"
      /\ UNCHANGED <<rows, batch, recovering, requeues, faults>>
  BY DEF Send, RecipientMissing, SendAccepted, SendRefused, SendDropped, Bounds
<1>2. PICK s \in {"accepted", "refused", "dropped"} :
        /\ Advance(c, s)
        /\ refused' = IF s = "refused" THEN refused \cup {k0} ELSE refused
        /\ tries' = IF s = "dropped" THEN [tries EXCEPT ![k0] = @ + 1] ELSE tries
        /\ \/ /\ s = "accepted"
              /\ delivered' = [delivered EXCEPT ![k0] = @ + 1]
              /\ unrecorded' = unrecorded
           \/ /\ s = "dropped"
              /\ delivered' = [delivered EXCEPT ![k0] = @ + 1]
              /\ unrecorded' = [unrecorded EXCEPT ![k0] = @ + 1]
           \/ /\ s # "accepted"
              /\ UNCHANGED <<delivered, unrecorded>>
  <2>1. CASE RecipientMissing(c) \/ SendRefused(c)
    BY <2>1 DEF RecipientMissing, SendRefused
  <2>2. CASE SendAccepted(c)
    BY <2>2 DEF SendAccepted
  <2>3. CASE \E arrived \in BOOLEAN : SendDropped(c, arrived)
    BY <2>3 DEF SendDropped
  <2> QED
    BY <2>1, <2>2, <2>3 DEF Send
<1> DEFINE d == [c EXCEPT !.step = s]
<1>3. /\ d \in Copy /\ d.key = k0 /\ d.attempts = c.attempts /\ d.step = s
      /\ flight' = (flight \ {c}) \cup {d}
      /\ Held' = (Held \ {c}) \cup {d}
      /\ \A e \in Held \ {c} : e.key # k0
      /\ \A k, x : k # k0 => (Has(k, x)' <=> Has(k, x))
      /\ \A x : Has(k0, x)' <=> x = s
  BY <1>1, <1>2, AdvanceMoves
<1>4. \A x : Has(k0, x) <=> x = "loaded"
  BY <1>1, HasStep DEF IInv
<1>5. /\ k0 \in Keys /\ Queued(k0) /\ c \in Held /\ c.attempts = rows[k0].attempts
      /\ rows[k0].wait = 0
  BY DEF IInv, TypeOK, Copy, CopiesAreCurrent, BackoffRespected, Held
<1> HIDE DEF d, k0
<1>6. TypeOK'
  <2>1. flight' \subseteq Copy
    BY <1>3 DEF IInv, TypeOK
  <2>2. refused' \subseteq Keys
    BY <1>2, <1>5 DEF IInv, TypeOK
  <2>3. tries' \in [Keys -> Nat]
    BY <1>2, <1>5 DEF IInv, TypeOK
  <2>4. delivered' \in [Keys -> Nat] /\ unrecorded' \in [Keys -> Nat]
    BY <1>2, <1>5 DEF IInv, TypeOK
  <2> QED
    BY <1>1, <2>1, <2>2, <2>3, <2>4 DEF IInv, TypeOK
<1>7. IsFiniteSet(Present)'
  BY <1>1 DEF IInv, Present
<1>8. StepsInPlace'
  BY <1>1, <1>2, <1>3 DEF IInv, StepsInPlace
<1>9. CopiesAreCurrent'
  BY <1>1, <1>3, <1>5 DEF IInv, CopiesAreCurrent, Queued
<1>10. BackoffRespected'
  BY <1>1, <1>3, <1>5 DEF IInv, BackoffRespected
<1>11. ArrivalsAccounted'
  <2> SUFFICES ASSUME NEW k \in Keys
               PROVE  delivered'[k] = unrecorded'[k] + CountIf(Has(k, "accepted")')
                                        + CountIf(rows'[k].state = "sent")
    BY DEF ArrivalsAccounted, CountIf
  <2>1. delivered[k] = unrecorded[k] + CountIf(Has(k, "accepted"))
                         + CountIf(rows[k].state = "sent")
    BY DEF IInv, ArrivalsAccounted
  <2>2. CASE k # k0
    BY <1>1, <1>2, <1>3, <2>1, <2>2 DEF IInv, TypeOK, CountIf
  <2>3. CASE k = k0
    <3>1. rows[k].state # "sent" /\ delivered[k] = unrecorded[k]
      BY <1>4, <1>5, <2>1, <2>3 DEF Queued, CountIf, IInv, TypeOK
    <3> QED
      BY <1>1, <1>2, <1>3, <2>3, <3>1 DEF IInv, TypeOK, CountIf
  <2> QED
    BY <2>2, <2>3
<1>12. AttemptsAccounted'
  <2> SUFFICES ASSUME NEW k \in Keys, k \notin refused'
               PROVE  rows'[k].attempts + CountIf(Has(k, "dropped")') <= tries'[k]
    BY DEF AttemptsAccounted, CountIf
  <2>1. rows[k].attempts + CountIf(Has(k, "dropped")) <= tries[k]
    BY <1>2 DEF IInv, AttemptsAccounted
  <2>2. rows[k].attempts \in Nat /\ tries[k] \in Nat
    BY DEF IInv, TypeOK, Row
  <2>3. CASE k # k0
    BY <1>1, <1>2, <1>3, <2>1, <2>2, <2>3 DEF IInv, TypeOK, CountIf
  <2>4. CASE k = k0
    BY <1>1, <1>2, <1>3, <1>4, <2>1, <2>2, <2>4 DEF IInv, TypeOK, CountIf
  <2> QED
    BY <2>3, <2>4
<1>13. GivenUpForCause'
  <2>1. refused \subseteq refused'
    BY <1>2
  <2>2. \A k \in Keys : tries[k] \in Nat /\ tries'[k] \in Nat /\ tries'[k] >= tries[k]
    BY <1>2, <1>5 DEF IInv, TypeOK
  <2>3. MaxAttempts \in Nat
    BY LimitsAssumption
  <2> QED
    BY <1>1, <2>1, <2>2, <2>3 DEF IInv, GivenUpForCause
<1> QED
  BY <1>6, <1>7, <1>8, <1>9, <1>10, <1>11, <1>12, <1>13 DEF IInv

\* What every recorded outcome of a delivery leaves of the invariant: the row of the
\* copy is settled or waits, its copy is gone, and nothing else is touched.
LEMMA OutcomeKeeps ==
  ASSUME IInv, NEW c \in flight, NEW s \in {"retry_pending", "sent", "failed"},
         NEW w \in Nat, NEW n \in {0, 1},
         Return(c), UNCHANGED <<batch, recovering, History, Bounds>>,
         rows' = Written(c.key, s, w, n),
         s = "sent" <=> c.step = "accepted",
         n = 1 => c.key \in refused \/ c.step = "dropped",
         s = "failed" => c.key \in refused \/ tries[c.key] >= MaxAttempts
  PROVE  IInv'
<1> DEFINE k0 == c.key
<1>1. UNCHANGED <<batch, recovering, delivered, tries, refused, unrecorded,
                  requeues, faults>>
  BY DEF History, Bounds
<1>2. /\ Held' \subseteq Held
      /\ \A d \in Held' : d.key # k0
      /\ \A k, x : k # k0 => (Has(k, x)' <=> Has(k, x))
      /\ \A x : ~Has(k0, x)'
  BY <1>1, ReturnMoves
<1>3. \A x : Has(k0, x) <=> c.step = x
  BY HasStep DEF IInv
<1>4. /\ k0 \in Keys /\ Queued(k0) /\ k0 \notin recovering
      /\ rows \in [Keys -> Row]
  BY DEF IInv, TypeOK, Copy, CopiesAreCurrent, Held, StepsInPlace, Queued
<1>5. /\ rows' \in [Keys -> Row]
      /\ \A j \in Keys \ {k0} : rows'[j] = rows[j]
      /\ rows'[k0].state = s
      /\ rows'[k0].attempts = rows[k0].attempts + n
  <2>1. s \in States
    BY DEF States
  <2> QED
    BY <1>4, <2>1, RowWrite
<1> HIDE DEF k0
<1>6. TypeOK'
  <2>1. flight' \subseteq flight
    BY DEF Return
  <2> QED
    BY <1>1, <1>5, <2>1 DEF IInv, TypeOK
<1>7. IsFiniteSet(Present)'
  <2>1. Present' = Present
    BY <1>4, <1>5 DEF Present, Queued
  <2> QED
    BY <2>1 DEF IInv
<1>8. StepsInPlace'
  <2>1. flight' \subseteq flight
    BY DEF Return
  <2>2. recovering \subseteq Keys \ {k0}
    BY <1>4 DEF IInv, TypeOK
  <2> QED
    BY <1>1, <1>5, <2>1, <2>2 DEF IInv, StepsInPlace
<1>9. \A d \in Held' : d \in Held /\ d.key \in Keys \ {k0}
  BY <1>2 DEF IInv, TypeOK, Copy, Held
<1>10. CopiesAreCurrent'
  BY <1>5, <1>9 DEF IInv, CopiesAreCurrent, Queued
<1>11. BackoffRespected'
  BY <1>5, <1>9 DEF IInv, BackoffRespected
<1>12. ArrivalsAccounted'
  <2> SUFFICES ASSUME NEW k \in Keys
               PROVE  delivered'[k] = unrecorded'[k] + CountIf(Has(k, "accepted")')
                                        + CountIf(rows'[k].state = "sent")
    BY DEF ArrivalsAccounted, CountIf
  <2>1. delivered[k] = unrecorded[k] + CountIf(Has(k, "accepted"))
                         + CountIf(rows[k].state = "sent")
    BY DEF IInv, ArrivalsAccounted
  <2>2. CASE k # k0
    BY <1>1, <1>2, <1>5, <2>1, <2>2 DEF CountIf
  <2>3. CASE k = k0
    <3>1. rows[k].state # "sent"
      BY <1>4, <2>3 DEF Queued
    <3>2. CountIf(Has(k, "accepted")) = CountIf(rows'[k].state = "sent")
      BY <1>3, <1>5, <2>3 DEF CountIf
    <3>3. ~Has(k, "accepted")'
      BY <1>2, <2>3
    <3>4. unrecorded[k] \in Nat /\ CountIf(Has(k, "accepted")) \in Nat
      BY DEF IInv, TypeOK, CountIf
    <3> QED
      BY <1>1, <2>1, <3>1, <3>2, <3>3, <3>4 DEF CountIf
  <2> QED
    BY <2>2, <2>3
<1>13. AttemptsAccounted'
  <2> SUFFICES ASSUME NEW k \in Keys, k \notin refused'
               PROVE  rows'[k].attempts + CountIf(Has(k, "dropped")') <= tries'[k]
    BY DEF AttemptsAccounted, CountIf
  <2>1. rows[k].attempts + CountIf(Has(k, "dropped")) <= tries[k]
    BY <1>1 DEF IInv, AttemptsAccounted
  <2>2. rows[k].attempts \in Nat /\ tries[k] \in Nat
    BY DEF IInv, TypeOK, Row
  <2>3. CASE k # k0
    BY <1>1, <1>2, <1>5, <2>1, <2>3 DEF CountIf
  <2>4. CASE k = k0
    <3>1. ~Has(k, "dropped")' /\ rows'[k].attempts = rows[k].attempts + n
      BY <1>2, <1>5, <2>4
    <3>2. n = 1 => Has(k, "dropped")
      BY <1>1, <1>3, <2>4 DEF k0
    <3> QED
      BY <1>1, <2>1, <2>2, <3>1, <3>2 DEF CountIf
  <2> QED
    BY <2>3, <2>4
<1>14. GivenUpForCause'
  BY <1>1, <1>5 DEF IInv, GivenUpForCause, k0
<1> QED
  BY <1>6, <1>7, <1>8, <1>10, <1>11, <1>12, <1>13, <1>14 DEF IInv

\* Recording an outcome.
LEMMA RecordKeeps ==
  ASSUME IInv, NEW c \in flight, Record(c)
  PROVE  IInv'
<1>1. /\ Return(c)
      /\ UNCHANGED <<batch, recovering, History, Bounds>>
  BY DEF Record, MarkSent, MarkFailed, MarkRetry
<1>2. c \in Copy /\ c.key \in Keys /\ rows[c.key] \in Row
      /\ c.attempts = rows[c.key].attempts
  BY DEF IInv, TypeOK, Copy, CopiesAreCurrent, Held
<1>3. CASE MarkSent(c)
  <2>1. c.step = "accepted" /\ rows' = Written(c.key, "sent", 0, 0)
    BY <1>3 DEF MarkSent, Written
  <2> QED
    BY <1>1, <2>1, OutcomeKeeps
<1>4. CASE MarkFailed(c)
  <2>1. c.step = "refused" /\ c.key \in refused
    BY <1>4 DEF MarkFailed, IInv, StepsInPlace
  <2>2. rows' = Written(c.key, "failed", 0, 1)
    BY <1>4 DEF MarkFailed, Failed, Written
  <2> QED
    BY <1>1, <2>1, <2>2, OutcomeKeeps
<1>5. CASE MarkRetry(c)
  <2>1. c.step = "dropped"
    BY <1>5 DEF MarkRetry
  <2>2. CASE LastAttempt(c.attempts + 1)
    <3>1. rows' = Written(c.key, "failed", 0, 1)
      BY <1>5, <2>2 DEF MarkRetry, Failed, Written
    <3>2. c.key \notin refused => rows[c.key].attempts + 1 <= tries[c.key]
      <4>1. Has(c.key, "dropped")
        BY <2>1 DEF Has
      <4> QED
        BY <1>2, <4>1 DEF IInv, AttemptsAccounted, CountIf
    <3>3. c.key \in refused \/ tries[c.key] >= MaxAttempts
      BY <1>2, <2>2, <3>2, LimitsAssumption DEF LastAttempt, IInv, TypeOK, Row
    <3> QED
      BY <1>1, <2>1, <3>1, <3>3, OutcomeKeeps
  <2>3. CASE ~LastAttempt(c.attempts + 1)
    <3>1. rows' = Written(c.key, "retry_pending", Delay(c.attempts + 1), 1)
      BY <1>5, <2>3 DEF MarkRetry, Retried, Written
    <3>2. Delay(c.attempts + 1) \in Nat
      BY <1>2, DelayType DEF Row
    <3> QED
      BY <1>1, <2>1, <3>1, <3>2, OutcomeKeeps
  <2> QED
    BY <2>2, <2>3
<1> QED
  BY <1>3, <1>4, <1>5 DEF Record

\* A repository call of a delivery fails.
LEMMA RepositoryFailsKeeps ==
  ASSUME IInv, NEW c \in flight, RepositoryFails(c)
  PROVE  IInv'
<1> DEFINE k0 == c.key
<1>1. /\ Return(c)
      /\ UNCHANGED <<rows, batch, recovering, delivered, tries, refused, requeues>>
      /\ faults' = faults + 1
      /\ unrecorded' = IF c.step = "accepted"
                       THEN [unrecorded EXCEPT ![k0] = @ + 1] ELSE unrecorded
  BY DEF RepositoryFails
<1>2. /\ Held' \subseteq Held
      /\ \A k, x : k # k0 => (Has(k, x)' <=> Has(k, x))
      /\ \A x : ~Has(k0, x)'
  BY <1>1, ReturnMoves
<1>3. \A x : Has(k0, x) <=> c.step = x
  BY HasStep DEF IInv
<1>4. k0 \in Keys /\ Queued(k0) /\ flight' \subseteq flight
  BY <1>1 DEF IInv, TypeOK, Copy, CopiesAreCurrent, Held, Return
<1> HIDE DEF k0
<1>5. TypeOK'
  <2>1. unrecorded' \in [Keys -> Nat]
    BY <1>1, <1>4 DEF IInv, TypeOK
  <2> QED
    BY <1>1, <1>4, <2>1 DEF IInv, TypeOK
<1>6. IsFiniteSet(Present)' /\ StepsInPlace' /\ GivenUpForCause'
  BY <1>1, <1>4 DEF IInv, Present, StepsInPlace, GivenUpForCause
<1>7. CopiesAreCurrent' /\ BackoffRespected'
  BY <1>1, <1>2 DEF IInv, CopiesAreCurrent, BackoffRespected, Queued
<1>8. ArrivalsAccounted'
  <2> SUFFICES ASSUME NEW k \in Keys
               PROVE  delivered'[k] = unrecorded'[k] + CountIf(Has(k, "accepted")')
                                        + CountIf(rows'[k].state = "sent")
    BY DEF ArrivalsAccounted, CountIf
  <2>1. delivered[k] = unrecorded[k] + CountIf(Has(k, "accepted"))
                         + CountIf(rows[k].state = "sent")
    BY DEF IInv, ArrivalsAccounted
  <2>2. CASE k # k0
    BY <1>1, <1>2, <2>1, <2>2 DEF CountIf, IInv, TypeOK
  <2>3. CASE k = k0
    <3>1. rows[k].state # "sent"
      BY <1>4, <2>3 DEF Queued
    <3>2. unrecorded'[k] = unrecorded[k] + CountIf(Has(k, "accepted"))
      BY <1>1, <1>3, <1>4, <2>3 DEF CountIf, IInv, TypeOK
    <3> QED
      BY <1>1, <1>2, <2>1, <2>3, <3>1, <3>2 DEF CountIf, IInv, TypeOK
  <2> QED
    BY <2>2, <2>3
<1>9. AttemptsAccounted'
  <2>1. \A k \in Keys : Has(k, "dropped")' => Has(k, "dropped")
    BY <1>4 DEF Has
  <2>2. \A k \in Keys : rows[k].attempts \in Nat /\ tries[k] \in Nat
    BY DEF IInv, TypeOK, Row
  <2>3. \A k \in Keys : CountIf(Has(k, "dropped")') <= CountIf(Has(k, "dropped"))
    BY <2>1 DEF CountIf
  <2>4. \A k \in Keys : /\ CountIf(Has(k, "dropped")) \in Nat
                        /\ CountIf(Has(k, "dropped")') \in Nat
    BY DEF CountIf
  <2> SUFFICES ASSUME NEW k \in Keys, k \notin refused'
               PROVE  rows'[k].attempts + CountIf(Has(k, "dropped")') <= tries'[k]
    BY DEF AttemptsAccounted, CountIf
  <2>5. rows[k].attempts + CountIf(Has(k, "dropped")) <= tries[k]
    BY <1>1 DEF IInv, AttemptsAccounted
  <2> QED
    BY <1>1, <2>2, <2>3, <2>4, <2>5
<1> QED
  BY <1>5, <1>6, <1>7, <1>8, <1>9 DEF IInv

\* A caller enqueues a notification.
LEMMA EnqueueKeeps ==
  ASSUME IInv, NEW k0 \in Keys, Enqueue(k0)
  PROVE  IInv'
<1> DEFINE r0 == [state |-> "pending", attempts |-> 0, wait |-> 0,
                  born |-> Cardinality(Present) + 1]
<1>1. /\ rows[k0].state = "absent" /\ rows' = [rows EXCEPT ![k0] = r0]
      /\ UNCHANGED <<batch, flight, recovering, delivered, tries, refused, unrecorded,
                     requeues, faults>>
  BY DEF Enqueue, Memory, History, Bounds
<1>2. r0 \in Row /\ r0.state = "pending" /\ r0.attempts = 0
  <2>1. Cardinality(Present) \in Nat
    BY FS_CardinalityType DEF IInv
  <2> QED
    BY <2>1 DEF Row
<1> HIDE DEF r0
<1>3. /\ rows \in [Keys -> Row] /\ rows' \in [Keys -> Row]
      /\ rows'[k0] = r0 /\ \A k \in Keys \ {k0} : rows'[k] = rows[k]
  BY <1>1, <1>2 DEF IInv, TypeOK
<1>4. \A c \in Held : c.key \in Keys \ {k0}
  BY <1>1 DEF IInv, TypeOK, Copy, CopiesAreCurrent, Held, Queued
<1>5. \A k, x : Has(k, x)' <=> Has(k, x)
  BY <1>1 DEF Has
<1>6. \A x : ~Has(k0, x)
  BY <1>4 DEF Has, Held
<1>7. TypeOK'
  BY <1>1, <1>3 DEF IInv, TypeOK
<1>8. IsFiniteSet(Present)'
  <2>1. Present' = Present \cup {k0}
    BY <1>2, <1>3 DEF Present
  <2> QED
    BY <2>1, FS_AddElement DEF IInv
<1>9. StepsInPlace'
  <2>1. recovering \subseteq Keys \ {k0}
    BY <1>1 DEF IInv, TypeOK, StepsInPlace
  <2> QED
    BY <1>1, <1>3, <2>1 DEF IInv, StepsInPlace
<1>10. Held' = Held
  BY <1>1 DEF Held
<1>11. CopiesAreCurrent' /\ BackoffRespected'
  BY <1>3, <1>4, <1>10 DEF IInv, CopiesAreCurrent, BackoffRespected, Queued
<1>12. ArrivalsAccounted'
  <2>1. \A k \in Keys : rows'[k].state = "sent" <=> rows[k].state = "sent"
    BY <1>1, <1>2, <1>3
  <2> QED
    BY <1>1, <1>5, <2>1 DEF IInv, ArrivalsAccounted, CountIf
<1>13. AttemptsAccounted'
  <2> SUFFICES ASSUME NEW k \in Keys, k \notin refused'
               PROVE  rows'[k].attempts + CountIf(Has(k, "dropped")') <= tries'[k]
    BY DEF AttemptsAccounted, CountIf
  <2>1. CASE k = k0
    BY <1>1, <1>2, <1>3, <1>5, <1>6, <2>1 DEF CountIf, IInv, TypeOK
  <2>2. CASE k # k0
    BY <1>1, <1>3, <1>5, <2>2 DEF CountIf, IInv, AttemptsAccounted
  <2> QED
    BY <2>1, <2>2
<1>14. GivenUpForCause'
  BY <1>1, <1>2, <1>3 DEF IInv, GivenUpForCause
<1> QED
  BY <1>7, <1>8, <1>9, <1>11, <1>12, <1>13, <1>14 DEF IInv

\* A registration recovery finds a failed notification and requeues it.
LEMMA RecoveryKeeps ==
  ASSUME IInv, NEW k0 \in Keys, SeeFailed(k0) \/ Requeue(k0)
  PROVE  IInv'
<1>1. CASE SeeFailed(k0)
  <2>1. /\ rows[k0].state = "failed" /\ recovering' = recovering \cup {k0}
        /\ requeues' = requeues + 1
        /\ UNCHANGED <<rows, batch, flight, delivered, tries, refused, unrecorded, faults>>
    BY <1>1 DEF SeeFailed, Memory, History
  <2>2. TypeOK' /\ IsFiniteSet(Present)' /\ StepsInPlace' /\ GivenUpForCause'
    BY <2>1 DEF IInv, TypeOK, Present, StepsInPlace, GivenUpForCause
  <2>3. CopiesAreCurrent' /\ BackoffRespected'
    BY <2>1 DEF IInv, CopiesAreCurrent, BackoffRespected, Queued, Held
  <2>4. ArrivalsAccounted' /\ AttemptsAccounted'
    BY <2>1 DEF IInv, ArrivalsAccounted, AttemptsAccounted, CountIf, Has
  <2> QED
    BY <2>2, <2>3, <2>4 DEF IInv
<1>2. CASE Requeue(k0)
  <2>1. /\ k0 \in recovering /\ recovering' = recovering \ {k0}
        /\ rows' = Written(k0, "pending", 0, 0)
        /\ UNCHANGED <<batch, flight, delivered, tries, refused, unrecorded, requeues,
                       faults>>
    BY <1>2 DEF Requeue, Written, Memory, History, Bounds
  <2>2. /\ rows' \in [Keys -> Row]
        /\ \A j \in Keys \ {k0} : rows'[j] = rows[j]
        /\ rows'[k0].state = "pending"
        /\ rows'[k0].attempts = rows[k0].attempts
    <3>1. "pending" \in States /\ rows[k0].attempts + 0 = rows[k0].attempts
      BY DEF States, IInv, TypeOK, Row
    <3> QED
      BY <2>1, <3>1, RowWrite DEF IInv, TypeOK
  <2>3. rows[k0].state = "failed"
    BY <2>1 DEF IInv, StepsInPlace
  <2>4. \A c \in Held : c.key \in Keys \ {k0}
    BY <2>3 DEF IInv, TypeOK, Copy, CopiesAreCurrent, Held, Queued
  <2>5. TypeOK'
    BY <2>1, <2>2 DEF IInv, TypeOK
  <2>6. IsFiniteSet(Present)'
    <3>1. Present' = Present
      BY <2>2, <2>3 DEF Present
    <3> QED
      BY <3>1 DEF IInv
  <2>7. StepsInPlace'
    <3>1. recovering' \subseteq Keys \ {k0}
      BY <2>1 DEF IInv, TypeOK
    <3> QED
      BY <2>1, <2>2, <3>1 DEF IInv, StepsInPlace
  <2>8. Held' = Held
    BY <2>1 DEF Held
  <2>9. CopiesAreCurrent' /\ BackoffRespected'
    BY <2>2, <2>4, <2>8 DEF IInv, CopiesAreCurrent, BackoffRespected, Queued
  <2>10. ArrivalsAccounted'
    <3>1. \A k \in Keys : rows'[k].state = "sent" <=> rows[k].state = "sent"
      BY <2>2, <2>3
    <3> QED
      BY <2>1, <3>1 DEF IInv, ArrivalsAccounted, CountIf, Has
  <2>11. AttemptsAccounted'
    <3>1. \A k \in Keys : rows'[k].attempts = rows[k].attempts
      BY <2>2
    <3> QED
      BY <2>1, <3>1 DEF IInv, AttemptsAccounted, CountIf, Has
  <2>12. GivenUpForCause'
    BY <2>1, <2>2 DEF IInv, GivenUpForCause
  <2> QED
    BY <2>5, <2>6, <2>7, <2>9, <2>10, <2>11, <2>12 DEF IInv
<1> QED
  BY <1>1, <1>2

\* A run of the job lists its batch.
LEMMA StartBatchKeeps ==
  ASSUME IInv, StartBatch
  PROVE  IInv'
<1>1. /\ batch = {} /\ flight = {}
      /\ batch' = {[key |-> k, attempts |-> rows[k].attempts, step |-> "listed"] :
                     k \in Oldest(Due)}
      /\ UNCHANGED <<rows, flight, recovering, delivered, tries, refused, unrecorded,
                     requeues, faults>>
  BY DEF StartBatch, History, Bounds
<1>2. \A c \in batch' : /\ c \in Copy /\ c.step = "listed"
                        /\ c.key \in Due /\ c.attempts = rows[c.key].attempts
                        /\ c = [key |-> c.key, attempts |-> rows[c.key].attempts,
                               step |-> "listed"]
  <2> SUFFICES ASSUME NEW k \in Oldest(Due)
               PROVE  LET c == [key |-> k, attempts |-> rows[k].attempts,
                                step |-> "listed"]
                      IN  /\ c \in Copy /\ c.step = "listed"
                          /\ c.key \in Due /\ c.attempts = rows[c.key].attempts
                          /\ c = [key |-> c.key, attempts |-> rows[c.key].attempts,
                                 step |-> "listed"]
    BY <1>1
  <2>1. k \in Due /\ k \in Keys
    BY DEF Oldest, Due
  <2>2. rows[k].attempts \in Nat
    BY <2>1 DEF IInv, TypeOK, Row
  <2> QED
    BY <2>1, <2>2 DEF Copy
<1>3. Held' = batch'
  BY <1>1 DEF Held
<1>4. TypeOK' /\ IsFiniteSet(Present)' /\ StepsInPlace' /\ GivenUpForCause'
  BY <1>1, <1>2 DEF IInv, TypeOK, Present, StepsInPlace, GivenUpForCause
<1>5. CopiesAreCurrent'
  <2>1. \A c, d \in batch' : d.key = c.key => d = c
    BY <1>2
  <2> QED
    BY <1>1, <1>2, <1>3, <2>1 DEF CopiesAreCurrent, Due, Queued
<1>6. BackoffRespected'
  BY <1>1, <1>2, <1>3 DEF BackoffRespected, Due
<1>7. ArrivalsAccounted' /\ AttemptsAccounted'
  BY <1>1 DEF IInv, ArrivalsAccounted, AttemptsAccounted, CountIf, Has
<1> QED
  BY <1>4, <1>5, <1>6, <1>7 DEF IInv

\* A delivery is spawned.
LEMMA SpawnKeeps ==
  ASSUME IInv, NEW c \in batch, Spawn(c)
  PROVE  IInv'
<1> DEFINE d == [c EXCEPT !.step = "loaded"]
<1>1. /\ batch' = batch \ {c} /\ flight' = flight \cup {d}
      /\ UNCHANGED <<rows, recovering, delivered, tries, refused, unrecorded,
                     requeues, faults>>
  BY DEF Spawn, History, Bounds
<1>2. c \in Copy /\ c \in Held /\ c \notin flight /\ c.step = "listed"
  BY DEF IInv, TypeOK, Held, StepsInPlace
<1>3. d \in Copy /\ d.key = c.key /\ d.attempts = c.attempts /\ d.step = "loaded"
  BY <1>2, CopyExcept
<1> HIDE DEF d
<1>4. Held' = (Held \ {c}) \cup {d}
  BY <1>1, <1>2 DEF Held
<1>5. TypeOK' /\ IsFiniteSet(Present)' /\ StepsInPlace' /\ GivenUpForCause'
  BY <1>1, <1>3 DEF IInv, TypeOK, Present, StepsInPlace, GivenUpForCause
<1>6. CopiesAreCurrent' /\ BackoffRespected'
  BY <1>1, <1>2, <1>3, <1>4 DEF IInv, CopiesAreCurrent, BackoffRespected, Queued
<1>7. /\ \A k : Has(k, "accepted")' <=> Has(k, "accepted")
      /\ \A k : Has(k, "dropped")' <=> Has(k, "dropped")
  BY <1>1, <1>3 DEF Has
<1>8. ArrivalsAccounted' /\ AttemptsAccounted'
  BY <1>1, <1>7 DEF IInv, ArrivalsAccounted, AttemptsAccounted, CountIf
<1> QED
  BY <1>5, <1>6, <1>8 DEF IInv

\* The arrivals a stop leaves unrecorded are those of the copies in flight, of which a
\* row has one at most.
LEMMA UnrecordedCount ==
  ASSUME CopiesAreCurrent, NEW k
  PROVE  Unrecorded(k) = CountIf(Has(k, "accepted"))
<1> DEFINE S == {c \in flight : c.key = k /\ c.step = "accepted"}
<1>1. CASE S = {}
  <2>1. ~Has(k, "accepted")
    BY <1>1 DEF Has
  <2> QED
    BY <1>1, <2>1, FS_EmptySet DEF Unrecorded, CountIf
<1>2. CASE S # {}
  <2>1. PICK c \in S : TRUE
    BY <1>2
  <2>2. S = {c}
    BY <2>1 DEF CopiesAreCurrent, Held
  <2>3. Cardinality(S) = 1
    BY <2>2, FS_Singleton
  <2>4. Has(k, "accepted")
    BY <2>1 DEF Has
  <2> QED
    BY <2>3, <2>4 DEF Unrecorded, CountIf
<1> QED
  BY <1>1, <1>2

\* The process stops and starts again.
LEMMA RestartKeeps ==
  ASSUME IInv, Restart
  PROVE  IInv'
<1>1. /\ batch' = {} /\ flight' = {} /\ recovering' = {} /\ faults' = faults + 1
      /\ unrecorded' = [k \in Keys |-> unrecorded[k] + Unrecorded(k)]
      /\ UNCHANGED <<rows, delivered, tries, refused, requeues>>
  BY DEF Restart
<1>2. \A k \in Keys : unrecorded'[k] = unrecorded[k] + CountIf(Has(k, "accepted"))
  BY <1>1, UnrecordedCount DEF IInv
<1>3. unrecorded' \in [Keys -> Nat]
  <2>1. \A k \in Keys : unrecorded'[k] \in Nat
    BY <1>2 DEF IInv, TypeOK, CountIf
  <2> QED
    BY <1>1, <2>1
<1>4. TypeOK' /\ IsFiniteSet(Present)' /\ StepsInPlace' /\ GivenUpForCause'
  BY <1>1, <1>3 DEF IInv, TypeOK, Present, StepsInPlace, GivenUpForCause
<1>5. CopiesAreCurrent' /\ BackoffRespected'
  BY <1>1 DEF CopiesAreCurrent, BackoffRespected, Held
<1>6. \A k, x : ~Has(k, x)'
  BY <1>1 DEF Has
<1>7. ArrivalsAccounted'
  <2>1. \A k \in Keys : /\ unrecorded[k] \in Nat
                        /\ CountIf(Has(k, "accepted")) \in Nat
    BY DEF IInv, TypeOK, CountIf
  <2> SUFFICES ASSUME NEW k \in Keys
               PROVE  delivered'[k] = unrecorded'[k] + CountIf(Has(k, "accepted")')
                                        + CountIf(rows'[k].state = "sent")
    BY DEF ArrivalsAccounted, CountIf
  <2>2. CountIf(Has(k, "accepted")') = 0
    BY <1>6 DEF CountIf
  <2>3. CountIf(rows'[k].state = "sent") = CountIf(rows[k].state = "sent")
    BY <1>1
  <2>4. delivered[k] = unrecorded[k] + CountIf(Has(k, "accepted"))
                         + CountIf(rows[k].state = "sent")
    BY DEF IInv, ArrivalsAccounted
  <2>5. CountIf(rows[k].state = "sent") \in Nat
    BY DEF CountIf
  <2> QED
    BY <1>1, <1>2, <2>1, <2>2, <2>3, <2>4, <2>5
<1>8. AttemptsAccounted'
  <2> SUFFICES ASSUME NEW k \in Keys, k \notin refused'
               PROVE  rows'[k].attempts + CountIf(Has(k, "dropped")') <= tries'[k]
    BY DEF AttemptsAccounted, CountIf
  <2>1. rows[k].attempts + CountIf(Has(k, "dropped")) <= tries[k]
    BY <1>1 DEF IInv, AttemptsAccounted
  <2>2. rows[k].attempts \in Nat /\ tries[k] \in Nat
    BY DEF IInv, TypeOK, Row
  <2> QED
    BY <1>1, <1>6, <2>1, <2>2 DEF CountIf
<1> QED
  BY <1>4, <1>5, <1>7, <1>8 DEF IInv

\* A minute passes.
LEMMA TickKeeps ==
  ASSUME IInv, Tick
  PROVE  IInv'
<1>1. /\ rows' = [k \in Keys |-> [rows[k] EXCEPT !.wait = IF @ = 0 THEN 0 ELSE @ - 1]]
      /\ UNCHANGED <<batch, flight, recovering, delivered, tries, refused, unrecorded,
                     requeues, faults>>
  BY DEF Tick, Memory, History, Bounds
<1>2. \A k \in Keys : /\ rows'[k] \in Row
                      /\ rows'[k].state = rows[k].state
                      /\ rows'[k].attempts = rows[k].attempts
                      /\ rows[k].wait = 0 => rows'[k].wait = 0
  <2> SUFFICES ASSUME NEW k \in Keys
               PROVE  /\ rows'[k] \in Row
                      /\ rows'[k].state = rows[k].state
                      /\ rows'[k].attempts = rows[k].attempts
                      /\ rows[k].wait = 0 => rows'[k].wait = 0
    OBVIOUS
  <2>1. rows[k] \in Row
    BY DEF IInv, TypeOK
  <2> DEFINE w == IF rows[k].wait = 0 THEN 0 ELSE rows[k].wait - 1
  <2>2. w \in Nat /\ (rows[k].wait = 0 => w = 0)
    BY <2>1 DEF Row
  <2>3. rows'[k] = [rows[k] EXCEPT !.wait = w]
    BY <1>1
  <2> HIDE DEF w
  <2> QED
    BY <2>1, <2>2, <2>3 DEF Row
<1>3. Held' = Held /\ \A c \in Held : c.key \in Keys
  BY <1>1 DEF Held, IInv, TypeOK, Copy
<1>4. TypeOK'
  <2>1. rows' \in [Keys -> Row]
    BY <1>1, <1>2
  <2> QED
    BY <1>1, <2>1 DEF IInv, TypeOK
<1>5. IsFiniteSet(Present)'
  <2>1. Present' = Present
    BY <1>2 DEF Present
  <2> QED
    BY <2>1 DEF IInv
<1>6. StepsInPlace' /\ GivenUpForCause'
  BY <1>1, <1>2 DEF IInv, TypeOK, StepsInPlace, GivenUpForCause
<1>7. CopiesAreCurrent' /\ BackoffRespected'
  BY <1>1, <1>2, <1>3 DEF IInv, CopiesAreCurrent, BackoffRespected, Queued
<1>8. ArrivalsAccounted' /\ AttemptsAccounted'
  BY <1>1, <1>2 DEF IInv, ArrivalsAccounted, AttemptsAccounted, CountIf, Has
<1> QED
  BY <1>4, <1>5, <1>6, <1>7, <1>8 DEF IInv

-----------------------------------------------------------------------------
(* Theorems *)

\* The invariant holds at first,
LEMMA InitInvariant == Init => IInv
<1> SUFFICES ASSUME Init
             PROVE  IInv
  OBVIOUS
<1>1. Absent \in Row /\ Absent.state = "absent" /\ Absent.attempts = 0
  BY DEF Absent, Row
<1>2. \A k \in Keys : rows[k] = Absent
  BY DEF Init
<1>3. \A k, x : ~Has(k, x)
  BY DEF Init, Has
<1>4. TypeOK
  BY <1>1 DEF Init, TypeOK
<1>5. IsFiniteSet(Present)
  <2>1. Present = {}
    BY <1>1, <1>2 DEF Present
  <2> QED
    BY <2>1, FS_EmptySet
<1>6. StepsInPlace /\ CopiesAreCurrent /\ BackoffRespected
  BY DEF Init, StepsInPlace, CopiesAreCurrent, BackoffRespected, Held
<1>7. ArrivalsAccounted /\ AttemptsAccounted /\ GivenUpForCause
  BY <1>1, <1>2, <1>3
     DEF Init, ArrivalsAccounted, AttemptsAccounted, GivenUpForCause, CountIf
<1> QED
  BY <1>4, <1>5, <1>6, <1>7 DEF IInv

\* and every step preserves it.
LEMMA NextInvariant == IInv /\ [Next]_vars => IInv'
<1> SUFFICES ASSUME IInv, [Next]_vars
             PROVE  IInv'
  OBVIOUS
<1>1. CASE \E k \in Keys : Enqueue(k)
  BY <1>1, EnqueueKeeps
<1>2. CASE \E k \in Keys : SeeFailed(k) \/ Requeue(k)
  BY <1>2, RecoveryKeeps
<1>3. CASE StartBatch
  BY <1>3, StartBatchKeeps
<1>4. CASE \E c \in batch : Spawn(c)
  BY <1>4, SpawnKeeps
<1>5. CASE \E c \in flight : Send(c)
  BY <1>5, SendKeeps
<1>6. CASE \E c \in flight : Record(c)
  BY <1>6, RecordKeeps
<1>7. CASE \E c \in flight : RepositoryFails(c)
  BY <1>7, RepositoryFailsKeeps
<1>8. CASE Restart
  BY <1>8, RestartKeeps
<1>9. CASE Tick
  BY <1>9, TickKeeps
<1>10. CASE UNCHANGED vars
  <2>1. UNCHANGED <<rows, batch, flight, recovering, delivered, tries, refused,
                    unrecorded, requeues, faults>>
    BY <1>10 DEF vars
  <2>2. TypeOK' /\ IsFiniteSet(Present)' /\ StepsInPlace' /\ GivenUpForCause'
    BY <2>1 DEF IInv, TypeOK, Present, StepsInPlace, GivenUpForCause
  <2>3. CopiesAreCurrent' /\ BackoffRespected'
    BY <2>1 DEF IInv, CopiesAreCurrent, BackoffRespected, Queued, Held
  <2>4. ArrivalsAccounted' /\ AttemptsAccounted'
    BY <2>1 DEF IInv, ArrivalsAccounted, AttemptsAccounted, CountIf, Has
  <2> QED
    BY <2>2, <2>3, <2>4 DEF IInv
<1> QED
  BY <1>1, <1>2, <1>3, <1>4, <1>5, <1>6, <1>7, <1>8, <1>9, <1>10 DEF Next, Job

\* The inductive invariant holds in every state of the pipeline.
THEOREM Invariance == Spec => []IInv
BY InitInvariant, NextInvariant, PTL DEF Spec

\* Rows, copies and counters keep their types.
THEOREM TypeCorrect == Spec => []TypeOK
<1>1. IInv => TypeOK
  BY DEF IInv
<1> QED
  BY <1>1, Invariance, PTL

\* Whatever restarts, requeues and failing calls do, the copy a delivery decides on is
\* the row it writes: list_pending's snapshot is never stale when its outcome is
\* recorded, and no row is delivered by two copies at once.
THEOREM SnapshotsStayCurrent == Spec => []CopiesAreCurrent
<1>1. IInv => CopiesAreCurrent
  BY DEF IInv
<1> QED
  BY <1>1, Invariance, PTL

\* next_attempt_at is honoured: no held row has time left to wait.
THEOREM BackoffIsRespected == Spec => []BackoffRespected
<1>1. IInv => BackoffRespected
  BY DEF IInv
<1> QED
  BY <1>1, Invariance, PTL

\* mark_failed is reached only by a permanent error or by MaxAttempts transient ones.
THEOREM GivesUpForCause == Spec => []GivenUpForCause
<1>1. IInv => GivenUpForCause
  BY DEF IInv
<1> QED
  BY <1>1, Invariance, PTL

\* A message arrives once more than outcomes were lost, at most: without lost answers,
\* failed writes and stops it arrives at most once.
THEOREM RepeatsAreAccounted == Spec => []RepeatedOnlyIfUnrecorded
<1>1. IInv => RepeatedOnlyIfUnrecorded
  <2> SUFFICES ASSUME IInv, NEW k \in Keys
               PROVE  delivered[k] <= 1 + unrecorded[k]
    BY DEF RepeatedOnlyIfUnrecorded
  <2>1. delivered[k] = unrecorded[k] + CountIf(Has(k, "accepted"))
                         + CountIf(rows[k].state = "sent")
    BY DEF IInv, ArrivalsAccounted
  <2>2. Has(k, "accepted") => rows[k].state # "sent"
    BY DEF Has, IInv, CopiesAreCurrent, Held, Queued
  <2>3. unrecorded[k] \in Nat
    BY DEF IInv, TypeOK
  <2> QED
    BY <2>1, <2>2, <2>3 DEF CountIf
<1> QED
  BY <1>1, Invariance, PTL

-----------------------------------------------------------------------------
(* The pipeline implements its promise *)

\* The status follows the state of the row.
LEMMA StatusIs ==
  ASSUME NEW k, rows[k].state \in States
  PROVE  /\ rows[k].state = "absent" => Status(k) = "none"
         /\ rows[k].state \in {"pending", "retry_pending"} => Status(k) = "queued"
         /\ rows[k].state \in {"sent", "failed"} => Status(k) = rows[k].state
BY DEF Status, Queued, States

\* A row whose state stays keeps its status.
LEMMA SameStatus ==
  ASSUME NEW k, rows'[k].state = rows[k].state
  PROVE  Status(k)' = Status(k)
BY DEF Status, Queued

\* A change of one row's status is a step of the promise.
LEMMA BecomeStep ==
  ASSUME NEW k \in Keys, NEW from, NEW to, Status(k) = from, Status(k)' = to,
         \A j \in Keys \ {k} : Status(j)' = Status(j),
         delivered' = delivered
  PROVE  Promise!Become(k, from, to)
<1> DEFINE st == [j \in Keys |-> Status(j)]
<1>1. st[k] = from
  OBVIOUS
<1>2. st' = [st EXCEPT ![k] = to]
  OBVIOUS
<1> QED
  BY <1>1, <1>2 DEF Promise!Become

\* A step that changes no status and delivers nothing is a stutter of the promise.
LEMMA StutterStep ==
  ASSUME \A k \in Keys : Status(k)' = Status(k), delivered' = delivered
  PROVE  UNCHANGED <<[k \in Keys |-> Status(k)], delivered>>
OBVIOUS

\* Batches, permits, retries, requeues, lost answers and stops never show through: the
\* pipeline delivers only what is queued, acknowledges only what was delivered, and
\* never delivers again what it acknowledged.
THEOREM PipelineKeepsPromise == Spec => KeepsPromise
<1>1. Init => Promise!Init
  <2> SUFFICES ASSUME Init
               PROVE  Promise!Init
    OBVIOUS
  <2>1. \A k \in Keys : rows[k].state = "absent"
    BY DEF Init, Absent
  <2>2. \A k \in Keys : Status(k) = "none"
    BY <2>1, StatusIs DEF States
  <2> QED
    BY <2>2 DEF Init, Promise!Init
<1>2. IInv /\ IInv' /\ [Next]_vars
        => [Promise!Next]_<<[k \in Keys |-> Status(k)], delivered>>
  <2> SUFFICES ASSUME IInv, IInv', [Next]_vars
               PROVE  \/ Promise!Next
                      \/ UNCHANGED <<[k \in Keys |-> Status(k)], delivered>>
    OBVIOUS
  <2>1. \A k \in Keys : rows[k].state \in States /\ rows'[k].state \in States
    BY DEF IInv, TypeOK, Row, States
  <2>2. CASE \E k \in Keys : Enqueue(k)
    <3>1. PICK k \in Keys : Enqueue(k)
      BY <2>2
    <3>2. /\ rows[k].state = "absent" /\ rows'[k].state = "pending"
          /\ \A j \in Keys \ {k} : rows'[j] = rows[j]
          /\ delivered' = delivered
      BY <3>1 DEF Enqueue, History, IInv, TypeOK
    <3>3. Status(k) = "none" /\ Status(k)' = "queued"
      BY <3>2 DEF Status, Queued
    <3>4. Promise!Become(k, "none", "queued")
      BY <3>2, <3>3, SameStatus, BecomeStep
    <3> QED
      BY <3>4 DEF Promise!Next
  <2>3. CASE \E k \in Keys : Requeue(k)
    <3>1. PICK k \in Keys : Requeue(k)
      BY <2>3
    <3>2. rows[k].state = "failed"
      BY <3>1 DEF Requeue, IInv, StepsInPlace
    <3>3. /\ rows'[k].state = "pending"
          /\ \A j \in Keys \ {k} : rows'[j] = rows[j]
          /\ delivered' = delivered
      <4>1. rows' = Written(k, "pending", 0, 0) /\ delivered' = delivered
        BY <3>1 DEF Requeue, Written, History
      <4>2. "pending" \in States
        BY DEF States
      <4> QED
        BY <4>1, <4>2, RowWrite DEF IInv, TypeOK
    <3>4. Status(k) = "failed" /\ Status(k)' = "queued"
      BY <3>2, <3>3 DEF Status, Queued
    <3>5. Promise!Become(k, "failed", "queued")
      BY <3>3, <3>4, SameStatus, BecomeStep
    <3> QED
      BY <3>5 DEF Promise!Next
  <2>4. CASE \E c \in flight : Send(c)
    <3>1. PICK c \in flight : Send(c)
      BY <2>4
    <3>2. c.key \in Keys /\ Status(c.key) = "queued"
      BY DEF IInv, TypeOK, Copy, CopiesAreCurrent, Held, Status, Queued
    <3>3. /\ rows' = rows
          /\ \/ delivered' = delivered
             \/ delivered' = [delivered EXCEPT ![c.key] = @ + 1]
      BY <3>1 DEF Send, RecipientMissing, SendAccepted, SendRefused, SendDropped
    <3>4. \A k \in Keys : Status(k)' = Status(k)
      BY <3>3, SameStatus
    <3>5. CASE delivered' = delivered
      BY <3>4, <3>5, StutterStep
    <3>6. CASE delivered' = [delivered EXCEPT ![c.key] = @ + 1]
      <4>1. Promise!Deliver(c.key)
        BY <3>2, <3>4, <3>6 DEF Promise!Deliver
      <4> QED
        BY <3>2, <4>1 DEF Promise!Next
    <3> QED
      BY <3>3, <3>5, <3>6
  <2>5. CASE \E c \in flight : Record(c)
    <3>1. PICK c \in flight : Record(c)
      BY <2>5
    <3> DEFINE k == c.key
    <3>2. k \in Keys /\ Status(k) = "queued" /\ delivered' = delivered
      BY <3>1 DEF IInv, TypeOK, Copy, CopiesAreCurrent, Held, Status, Queued,
         Record, MarkSent, MarkFailed, MarkRetry, History
    <3>3. PICK s \in {"retry_pending", "sent", "failed"}, w \in Nat, n \in {0, 1} :
            /\ rows' = Written(k, s, w, n)
            /\ s = "sent" => c.step = "accepted"
      <4>1. c.attempts \in Nat
        BY DEF IInv, TypeOK, Copy
      <4>2. CASE MarkSent(c)
        <5>1. rows' = Written(k, "sent", 0, 0) /\ c.step = "accepted"
          BY <4>2 DEF MarkSent, Written
        <5> QED
          BY <5>1
      <4>3. CASE MarkFailed(c)
        <5>1. rows' = Written(k, "failed", 0, 1)
          BY <4>3 DEF MarkFailed, Failed, Written
        <5> QED
          BY <5>1
      <4>4. CASE MarkRetry(c)
        <5>1. CASE LastAttempt(c.attempts + 1)
          <6>1. rows' = Written(k, "failed", 0, 1)
            BY <4>4, <5>1 DEF MarkRetry, Failed, Written
          <6> QED
            BY <6>1
        <5>2. CASE ~LastAttempt(c.attempts + 1)
          <6>1. rows' = Written(k, "retry_pending", Delay(c.attempts + 1), 1)
            BY <4>4, <5>2 DEF MarkRetry, Retried, Written
          <6>2. Delay(c.attempts + 1) \in Nat
            BY <4>1, DelayType
          <6> QED
            BY <6>1, <6>2
        <5> QED
          BY <5>1, <5>2
      <4> QED
        BY <3>1, <4>2, <4>3, <4>4 DEF Record
    <3>4. rows'[k].state = s /\ \A j \in Keys \ {k} : rows'[j] = rows[j]
      <4>1. s \in States
        BY DEF States
      <4> QED
        BY <3>2, <3>3, <4>1, RowWrite DEF IInv, TypeOK
    <3>5. \A j \in Keys \ {k} : Status(j)' = Status(j)
      BY <3>4, SameStatus
    <3>6. CASE s = "retry_pending"
      <4>1. Status(k)' = "queued"
        BY <3>4, <3>6 DEF Status, Queued
      <4> QED
        BY <3>2, <3>5, <4>1, StutterStep
    <3>7. CASE s = "sent"
      <4>1. Status(k)' = "sent"
        BY <3>4, <3>7 DEF Status, Queued
      <4>2. Promise!Become(k, "queued", "sent")
        BY <3>2, <3>5, <4>1, BecomeStep
      <4>3. Has(k, "accepted")
        BY <3>3, <3>7 DEF Has
      <4>4. delivered[k] > 0
        BY <3>2, <4>3 DEF IInv, TypeOK, ArrivalsAccounted, CountIf
      <4> QED
        BY <3>2, <4>2, <4>4 DEF Promise!Next
    <3>8. CASE s = "failed"
      <4>1. Status(k)' = "failed"
        BY <3>4, <3>8 DEF Status, Queued
      <4>2. Promise!Become(k, "queued", "failed")
        BY <3>2, <3>5, <4>1, BecomeStep
      <4> QED
        BY <3>2, <4>2 DEF Promise!Next
    <3> QED
      BY <3>6, <3>7, <3>8
  <2>6. CASE \/ \E k \in Keys : SeeFailed(k)
             \/ StartBatch
             \/ \E c \in batch : Spawn(c)
             \/ \E c \in flight : RepositoryFails(c)
             \/ Restart
             \/ UNCHANGED vars
    <3>1. UNCHANGED <<rows, delivered>>
      BY <2>6 DEF SeeFailed, StartBatch, Spawn, RepositoryFails, Restart, vars, History
    <3> QED
      BY <3>1, SameStatus, StutterStep
  <2>7. CASE Tick
    <3>1. delivered' = delivered /\ \A k \in Keys : rows'[k].state = rows[k].state
      BY <2>7 DEF Tick, History, IInv, TypeOK, Row
    <3> QED
      BY <3>1, SameStatus, StutterStep
  <2> QED
    BY <2>2, <2>3, <2>4, <2>5, <2>6, <2>7 DEF Next, Job
<1> QED
  BY <1>1, <1>2, Invariance, PTL DEF Spec, KeepsPromise, Promise!Spec

=============================================================================
