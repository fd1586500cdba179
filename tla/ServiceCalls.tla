---------------------------- MODULE ServiceCalls ----------------------------
(***************************************************************************)
(* The calls of a client of an outside service (infrastructure/http        *)
(* circuit_breaker and retry; infrastructure/ai gemini_client and          *)
(* openai_transcription_client; employee_directory google_sheets_client).  *)
(* The callers of one client share its circuit breaker; a call is tried up *)
(* to MaxAttempts times.  A retry after a pause of some length is a retry  *)
(* after any time: the pauses are far shorter than the time the breaker    *)
(* stays open, yet nothing bounds how long a request takes.                *)
(*                                                                         *)
(* What the service answers is external: a result, an error status, an     *)
(* answer that never comes or makes no sense (`lost'), or one that means   *)
(* something else went wrong (`refused': an empty transcript, a draft that *)
(* breaks the schema).                                                     *)
(***************************************************************************)
EXTENDS Integers, Sequences, FiniteSets

CONSTANTS
    Callers,
    Threshold,   \* CIRCUIT_BREAKER_FAILURE_THRESHOLD
    OpenFor,     \* CIRCUIT_BREAKER_OPEN_SECONDS, in ticks of the clock
    MaxAttempts, \* MAX_EXTERNAL_RETRY_ATTEMPTS
    LastTick,    \* bounds
    MaxCalls

ASSUME CallsAssumption ==
    /\ Threshold \in Nat \ {0} /\ OpenFor \in Nat \ {0} /\ MaxAttempts \in Nat \ {0}
    /\ LastTick \in Nat /\ MaxCalls \in Nat /\ IsFiniteSet(Callers)

VARIABLES
    breaker,     \* [failures, until]: consecutive_failures and opened_until, 0 for None
    caller,      \* [pc, attempt] of each caller
    clock,
    calls,       \* calls begun
    statuses     \* history: when the error statuses since the last success were recorded

callVars == <<breaker, caller, clock, calls, statuses>>

Free == [pc |-> "free", attempt |-> 0]

CallsInit ==
    /\ breaker = [failures |-> 0, until |-> 0]
    /\ caller = [c \in Callers |-> Free]
    /\ clock = 1
    /\ calls = 0
    /\ statuses = <<>>

PassTick ==
    /\ clock < LastTick
    /\ clock' = clock + 1
    /\ UNCHANGED <<breaker, caller, calls, statuses>>

Call(c) ==
    /\ caller[c].pc = "free"
    /\ calls < MaxCalls
    /\ calls' = calls + 1
    /\ caller' = [caller EXCEPT ![c] = [pc |-> "trying", attempt |-> 1]]
    /\ UNCHANGED <<breaker, clock, statuses>>

\* The arm of retry_with_backoff for an error that may be retried.
Again(c) ==
    caller' = [caller EXCEPT ![c] = IF @.attempt < MaxAttempts
                                      THEN [pc |-> "trying", attempt |-> @.attempt + 1]
                                      ELSE Free]

BreakerIsOpen == breaker.until # 0 /\ clock < breaker.until

\* The breaker's own error is one that is retried.
TurnedAway(c) ==
    /\ caller[c].pc = "trying" /\ BreakerIsOpen
    /\ Again(c)
    /\ UNCHANGED <<breaker, clock, calls, statuses>>

Send(c) ==
    /\ caller[c].pc = "trying" /\ ~BreakerIsOpen
    /\ caller' = [caller EXCEPT ![c].pc = "sent"]
    /\ UNCHANGED <<breaker, clock, calls, statuses>>

Succeed(c) ==
    /\ caller[c].pc = "sent"
    /\ breaker' = [failures |-> 0, until |-> 0]
    /\ statuses' = <<>>
    /\ caller' = [caller EXCEPT ![c] = Free]
    /\ UNCHANGED <<clock, calls>>

\* Mutant: the breaker opens when the threshold is met, not when it is passed.
OpensAtMutant(failures) == failures = Threshold

OpensAt(failures) == failures >= Threshold

ErrorStatus(c) ==
    /\ caller[c].pc = "sent"
    /\ LET failures == breaker.failures + 1
       IN  breaker' = [failures |-> failures,
                       until |-> IF OpensAt(failures) THEN clock + OpenFor ELSE breaker.until]
    /\ statuses' = Append(statuses, clock)
    /\ Again(c)
    /\ UNCHANGED <<clock, calls>>

\* Neither of the others is recorded.
Lost(c) ==
    /\ caller[c].pc = "sent"
    /\ Again(c)
    /\ UNCHANGED <<breaker, clock, calls, statuses>>

Refused(c) ==
    /\ caller[c].pc = "sent"
    /\ caller' = [caller EXCEPT ![c] = Free]
    /\ UNCHANGED <<breaker, clock, calls, statuses>>

CallsNext ==
    \/ PassTick
    \/ \E c \in Callers :
          \/ Call(c) \/ TurnedAway(c) \/ Send(c)
          \/ Succeed(c) \/ ErrorStatus(c) \/ Lost(c) \/ Refused(c)

CallsSpec == CallsInit /\ [][CallsNext]_callVars

(***************************************************************************)
(* Properties.                                                             *)
(***************************************************************************)

\* The error statuses of the last OpenFor ticks.
Recent == {i \in DOMAIN statuses : statuses[i] > clock - OpenFor}

\* A service that answers with error statuses is left alone: in as long as the breaker stays
\* open it answers so no more often than it takes to open the breaker, and once more for each
\* request that was under way when it opened, however many calls and retries there are and
\* however often the breaker has opened before.
ServiceIsSpared == Cardinality(Recent) <= Threshold - 1 + Cardinality(Callers)

=============================================================================
