---------------------------- MODULE VoiceRecords ----------------------------
(***************************************************************************)
(* The records of voice messages being transcribed (domain/voice,          *)
(* infrastructure/db/repositories/voice_processing_repository).  Nothing   *)
(* in the repository calls this adapter but its tests; its clients here    *)
(* are any that call any operation with any arguments, at once.  An        *)
(* operation is a transaction that reads a row and then writes it: SQLite  *)
(* reads a snapshot, and refuses the write (an error) when anything was    *)
(* written since.                                                          *)
(***************************************************************************)
EXTENDS Naturals, FiniteSets

CONSTANTS
    Clients,
    Files,       \* file_unique_id
    MaxRuns      \* bound on the operations

VARIABLES
    record,      \* of each file: [state, error, hash, completed]
    op,          \* what each client is doing: [pc, file, from, to, stale]
    granted,     \* [Files -> Nat]: how often a client was told Transitioned to transcribing
    runs

voiceVars == <<record, op, granted, runs>>

VoiceStates == {"queued", "transcribing", "transcribed", "failed"}

\* completed: completed_at, "never" for None, and "old" once it is past the retention window.
NoRow == [state |-> "none", error |-> FALSE, hash |-> FALSE, completed |-> "never"]

QueuedRow == [NoRow EXCEPT !.state = "queued"]

NoOp == [pc |-> "idle"]

VoiceInit ==
    /\ record = [f \in Files |-> NoRow]
    /\ op = [c \in Clients |-> NoOp]
    /\ granted = [f \in Files |-> 0]
    /\ runs = 0

CanTransition(from, to) ==
    \/ from = "queued" /\ to \in {"transcribing", "failed"}
    \/ from = "transcribing" /\ to \in {"transcribed", "failed"}

Open(c, request) ==
    /\ op[c].pc = "idle" /\ runs < MaxRuns
    /\ runs' = runs + 1
    /\ op' = [op EXCEPT ![c] = request]
    /\ UNCHANGED <<record, granted>>

Request(pc, f, from, to) == [pc |-> pc, file |-> f, from |-> from, to |-> to, stale |-> FALSE]

\* The reads.  An operation whose read does not let it write is over: it returned the row as it
\* is, InvalidTransition, NotFound or StaleExpectedState.
GetOrCreate(c, f) ==
    /\ record[f] = NoRow
    /\ Open(c, Request("insert", f, "none", "queued"))

\* Mutant: the state that was read is not compared with the one the caller expects.
ExpectedMutant(f, from) == record[f] # NoRow

Expected(f, from) == record[f].state = from

BeginTransition(c, f, from, to) ==
    /\ CanTransition(from, to)
    /\ Expected(f, from)
    /\ Open(c, Request("move", f, from, to))

MarkTranscribed(c, f) ==
    /\ Expected(f, "transcribing")
    /\ Open(c, Request("transcribed", f, "transcribing", "transcribed"))

\* The writes.  An error code comes with a failure, and with nothing else.
Written(c) ==
    LET o == op[c]
    IN  CASE o.pc = "insert" -> QueuedRow
          [] o.pc = "move" -> [record[o.file] EXCEPT !.state = o.to, !.error = o.to = "failed"]
          [] o.pc = "transcribed" ->
                [record[o.file] EXCEPT !.state = o.to, !.hash = TRUE, !.completed = "recent"]

Staled(ops) == [c \in Clients |-> IF ops[c].pc = "idle" THEN NoOp ELSE [ops[c] EXCEPT !.stale = TRUE]]

MayWrite(c) == op[c].pc # "idle" /\ ~op[c].stale

WriteRecord(c) ==
    /\ MayWrite(c)
    /\ record' = [record EXCEPT ![op[c].file] = Written(c)]
    /\ granted' = IF op[c].pc = "move" /\ op[c].to = "transcribing"
                    THEN [granted EXCEPT ![op[c].file] = @ + 1] ELSE granted
    /\ op' = Staled([op EXCEPT ![c] = NoOp])
    /\ UNCHANGED runs

\* A refused write, or a client that stopped: the transaction is rolled back.
RollBack(c) ==
    /\ op[c].pc # "idle"
    /\ op' = [op EXCEPT ![c] = NoOp]
    /\ UNCHANGED <<record, granted, runs>>

Grow(f) ==
    /\ record[f].completed = "recent"
    /\ record' = [record EXCEPT ![f].completed = "old"]
    /\ UNCHANGED <<op, granted, runs>>

Purgeable(f) ==
    /\ record[f].completed = "old"
    /\ record[f].state \in {"transcribed", "failed"}
    /\ record[f].hash \/ record[f].error

Purge ==
    /\ \E f \in Files : Purgeable(f)
    /\ record' = [f \in Files |-> IF Purgeable(f) THEN [record[f] EXCEPT !.hash = FALSE, !.error = FALSE]
                                               ELSE record[f]]
    /\ op' = Staled(op)
    /\ UNCHANGED <<granted, runs>>

VoiceNext ==
    \/ \E c \in Clients, f \in Files :
          \/ GetOrCreate(c, f) \/ MarkTranscribed(c, f)
          \/ \E from, to \in VoiceStates : BeginTransition(c, f, from, to)
    \/ \E c \in Clients : WriteRecord(c) \/ RollBack(c)
    \/ \E f \in Files : Grow(f)
    \/ Purge

VoiceSpec == VoiceInit /\ [][VoiceNext]_voiceVars

(***************************************************************************)
(* Properties.                                                             *)
(***************************************************************************)

\* However often a voice message is delivered, and to however many workers at once, one of them
\* at most is told to transcribe it.
OneStart == \A f \in Files : granted[f] <= 1

=============================================================================
