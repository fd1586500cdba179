----------------------------- MODULE Onboarding -----------------------------
(***************************************************************************)
(* How a person becomes a user (application/use_cases/onboarding,          *)
(* register_user up to the recovery of tasks, presentation/telegram        *)
(* run_onboarding_gate and dispatcher_registration).  Everything a person  *)
(* sends passes the gate: until first and last name are stored it is an    *)
(* answer of the onboarding, which advances the row of the person by       *)
(* versioned writes; afterwards it registers the person once more, looks   *)
(* for an employee on /start, and goes on to the handlers.                 *)
(*                                                                         *)
(* The updates of one chat come one at a time (UpdateGateway), those of a  *)
(* private chat and a group at the same time.  Every read and write of the *)
(* table is a step, and any of them may fail or be the last.  A press is   *)
(* text for the gate, like a message, and never a name.  handle_link_      *)
(* selection is left out: it is for rows that await a link, whose presses  *)
(* the gate takes.                                                         *)
(***************************************************************************)
EXTENDS Naturals, FiniteSets

CONSTANTS
    Rooms,        \* the chats the person writes in
    Names,        \* what counts as a name
    Matches,      \* the employees the directory may take the person for
    Nothing,
    FirstRow,     \* the row there is to begin with, or Nothing
    MaxFailures

VARIABLES
    row,       \* the person's row of users
    desk,      \* what each chat's handler is at: [pc, input, seen, first, last, link]
    offered,   \* registration_links: the employees offered in a chat, or Nothing
    admitted,  \* a message went on to the handlers
    recovered, \* employees whose open tasks a registration has handed over, to the end
    failures

onboardingVars == <<row, desk, offered, admitted, recovered, failures>>

States == <<"awaiting_first_name", "awaiting_last_name", "awaiting_employee_link", "completed">>

Rows ==
    [state : 1..4, version : Nat, first : Names \cup {Nothing}, last : Names \cup {Nothing},
     linked : Matches \cup {Nothing}]

\* Rows from before the migration count as completed and have no names.
LegacyRow ==
    [state |-> 4, version |-> 0, first |-> Nothing, last |-> Nothing, linked |-> Nothing]

NewRow == [LegacyRow EXCEPT !.state = 1]

Inputs ==
    {[kind |-> k, value |-> Nothing] : k \in {"start", "other", "voice", "continue"}}
      \cup {[kind |-> "name", value |-> n] : n \in Names}
      \cup {[kind |-> "pick", value |-> e] : e \in Matches}

ASSUME OnboardingAssumption ==
    /\ Nothing \notin Names \cup Matches \cup Rows \cup Inputs
    /\ FirstRow \in {Nothing, LegacyRow}

AtRest ==
    [pc |-> "rest", input |-> Nothing, seen |-> Nothing, first |-> Nothing, last |-> Nothing,
     link |-> Nothing]

OnboardingInit ==
    /\ row = FirstRow
    /\ desk = [c \in Rooms |-> AtRest]
    /\ offered = [c \in Rooms |-> Nothing]
    /\ admitted = FALSE
    /\ recovered = {}
    /\ failures = 0

Receive(c, input) ==
    /\ desk[c].pc = "rest"
    /\ desk' = [desk EXCEPT ![c] = [AtRest EXCEPT !.pc = "probe", !.input = input]]
    /\ UNCHANGED <<row, offered, admitted, recovered, failures>>

HasNames(r) == r.first # Nothing /\ r.last # Nothing

Rest(c) == desk' = [desk EXCEPT ![c] = AtRest]

GoTo(c, pc) == desk' = [desk EXCEPT ![c].pc = pc]

\* run_onboarding_gate; a probe that fails reads like a person without a row.
Probe(c) ==
    LET input == desk[c].input
    IN  /\ desk[c].pc = "probe"
        /\ UNCHANGED <<row, offered, admitted, recovered>>
        /\ \/ /\ UNCHANGED failures
              /\ IF row # Nothing /\ row.state = 4 /\ HasNames(row) THEN GoTo(c, "preview")
                 ELSE IF row = Nothing \/ input.kind = "start" THEN GoTo(c, "ensure")
                 ELSE IF input.kind # "voice" THEN GoTo(c, "session")
                 ELSE Rest(c)
           \/ /\ failures < MaxFailures
              /\ failures' = failures + 1
              /\ GoTo(c, "ensure")

\* handle_start: a row that is there decides what is asked; the list of employees to choose
\* from is empty.
Ensure(c) ==
    /\ desk[c].pc = "ensure"
    /\ IF row = Nothing THEN GoTo(c, "insert") /\ UNCHANGED offered
       ELSE /\ Rest(c)
            /\ offered' = IF row.state = 3 THEN [offered EXCEPT ![c] = {}] ELSE offered
    /\ UNCHANGED <<row, admitted, recovered, failures>>

\* telegram_id is unique.
InsertRow(c) ==
    /\ desk[c].pc = "insert"
    /\ row' = IF row = Nothing THEN NewRow ELSE row
    /\ Rest(c)
    /\ UNCHANGED <<offered, admitted, recovered, failures>>

\* handle_text: the row is read again and its state says what the text answers.
ReadSession(c) ==
    LET input == desk[c].input
    IN  /\ desk[c].pc = "session"
        /\ IF row.state \in {1, 2} /\ input.kind = "name"
           THEN desk' = [desk EXCEPT ![c].seen = row, ![c].pc = "answer"]
           ELSE Rest(c)
        /\ UNCHANGED <<row, offered, admitted, recovered, failures>>

\* Mutant: the write does not ask for the version.
VersionIsMutant(c) == TRUE

VersionIs(c) == row.version = desk[c].seen.version

\* step_first_name, and step_last_name up to its first write.  A row that was changed
\* meanwhile is left alone.
Answer(c) ==
    LET name == desk[c].input.value
        moved == [row EXCEPT !.version = @ + 1, !.state = desk[c].seen.state + 1]
        named == IF desk[c].seen.state = 1 THEN [moved EXCEPT !.first = name]
                                           ELSE [moved EXCEPT !.last = name]
    IN  /\ desk[c].pc = "answer"
        /\ IF VersionIs(c)
           THEN /\ row' = named
                /\ IF desk[c].seen.state = 1 THEN Rest(c)
                   ELSE desk' = [desk EXCEPT ![c] = [@ EXCEPT !.pc = "match", !.seen = named,
                                                             !.first = named.first, !.last = name]]
           ELSE UNCHANGED row /\ Rest(c)
        /\ UNCHANGED <<offered, admitted, recovered, failures>>

\* preview_linking within step_last_name: the row exists and the message is no /start, so that
\* the directory is not asked.
Match(c) ==
    /\ desk[c].pc = "match"
    /\ desk' = [desk EXCEPT ![c].link = row.linked, ![c].pc = "complete"]
    /\ UNCHANGED <<row, offered, admitted, recovered, failures>>

\* COALESCE: a link is kept when none is given.
Linked(link) == IF link = Nothing THEN row.linked ELSE link

CompleteOnboarding(c) ==
    /\ desk[c].pc = "complete"
    /\ IF VersionIs(c)
       THEN /\ row' = [state |-> 4, version |-> row.version + 1, first |-> desk[c].first,
                       last |-> desk[c].last, linked |-> Linked(desk[c].link)]
            /\ GoTo(c, "register")
       ELSE UNCHANGED row /\ Rest(c)
    /\ UNCHANGED <<offered, admitted, recovered, failures>>

\* Mutant: an account that has its link is not looked up again.
PreviewLinkMutant(c) ==
    LET asked == desk[c].input.kind = "start"
        decide(link) == desk' = [desk EXCEPT ![c].link = link, ![c].pc = "admit"]
    IN  /\ desk[c].pc = "preview"
        /\ \E found \in SUBSET Matches :
              IF row.linked # Nothing \/ ~asked THEN decide(Nothing) /\ UNCHANGED offered
              ELSE IF Cardinality(found) > 1
              THEN Rest(c) /\ offered' = [offered EXCEPT ![c] = found]
              ELSE decide(IF found = {} THEN Nothing ELSE CHOOSE e \in found : TRUE) /\ UNCHANGED offered
        /\ UNCHANGED <<row, admitted, recovered, failures>>

\* preview_linking for a person who is on board: a link that is there is used again, only
\* /start asks the directory, and an unclear answer becomes a question.
PreviewLink(c) ==
    LET asked == row.linked = Nothing /\ desk[c].input.kind = "start"
        decide(link) == desk' = [desk EXCEPT ![c].link = link, ![c].pc = "admit"]
    IN  /\ desk[c].pc = "preview"
        /\ \E found \in SUBSET Matches :
              IF ~asked THEN decide(row.linked) /\ UNCHANGED offered
              ELSE IF Cardinality(found) > 1
              THEN Rest(c) /\ offered' = [offered EXCEPT ![c] = found]
              ELSE decide(IF found = {} THEN Nothing ELSE CHOOSE e \in found : TRUE) /\ UNCHANGED offered
        /\ UNCHANGED <<row, admitted, recovered, failures>>

\* A call fails, or the process stops, which takes what was offered with it.
Interrupted(c) ==
    /\ failures < MaxFailures
    /\ failures' = failures + 1
    /\ \/ Rest(c) /\ UNCHANGED offered
       \/ desk' = [d \in Rooms |-> AtRest] /\ offered' = [d \in Rooms |-> Nothing]

\* recover_pending_assignments runs to its end, if there is an employee; what it does to the
\* tasks is TaskWorkflow's.
Recover(link) == recovered' = recovered \cup ({link} \ {Nothing})

\* execute_with_link_decision: names, state and version are not touched.  The row is written
\* first, and an error of the recovery that follows ends the update.
Register(c) ==
    /\ desk[c].pc \in {"register", "admit"}
    /\ row' = [row EXCEPT !.linked = Linked(desk[c].link)]
    /\ \/ /\ Recover(desk[c].link)
          /\ IF desk[c].pc = "register" THEN Rest(c) /\ UNCHANGED admitted
             ELSE IF desk[c].input.kind \in {"pick", "continue"}
             THEN GoTo(c, "link") /\ UNCHANGED admitted
             ELSE Rest(c) /\ admitted' = TRUE
          /\ UNCHANGED <<offered, failures>>
       \/ Interrupted(c) /\ UNCHANGED <<admitted, recovered>>

\* handle_registration_link_callback; the question is closed when the registration succeeds.
LinkByPress(c) ==
    LET input == desk[c].input
        stale == input.kind = "pick" /\ (offered[c] = Nothing \/ input.value \notin offered[c])
    IN  /\ desk[c].pc = "link"
        /\ UNCHANGED admitted
        /\ IF stale THEN Rest(c) /\ UNCHANGED <<row, offered, recovered, failures>>
           ELSE /\ row' = [row EXCEPT !.linked = Linked(input.value)]
                /\ \/ /\ Recover(input.value)
                      /\ offered' = [offered EXCEPT ![c] = Nothing]
                      /\ Rest(c)
                      /\ UNCHANGED failures
                   \/ Interrupted(c) /\ UNCHANGED recovered

\* An update ends between two of its steps.
FailAt(c) ==
    /\ desk[c].pc # "rest"
    /\ Interrupted(c)
    /\ UNCHANGED <<row, admitted, recovered>>

StepOf(c) ==
    \/ Probe(c) \/ Ensure(c) \/ InsertRow(c) \/ ReadSession(c) \/ Answer(c) \/ Match(c)
    \/ CompleteOnboarding(c) \/ PreviewLink(c) \/ Register(c) \/ LinkByPress(c)

OnboardingNext ==
    \E c \in Rooms : (\E input \in Inputs : Receive(c, input)) \/ StepOf(c) \/ FailAt(c)

\* A person who keeps writing: whatever can be sent is sent again and again, and answered.
OnboardingFairness ==
    \A c \in Rooms :
        /\ WF_onboardingVars(StepOf(c))
        /\ \A input \in Inputs : SF_onboardingVars(Receive(c, input))

OnboardingSpec == OnboardingInit /\ [][OnboardingNext]_onboardingVars /\ OnboardingFairness

(***************************************************************************)
(* Properties.                                                             *)
(***************************************************************************)

\* Answers of a person from two chats at once do not undo each other: the onboarding never goes
\* back, a name that was stored stays what it is, through the completion too, nobody is on board
\* without both, and no registration takes a link away.
AnswersAreKept ==
    [][row # Nothing
         => /\ row'.state >= row.state
            /\ row.first # Nothing => row'.first = row.first
            /\ row.last # Nothing => row'.last = row.last
            /\ (row'.state = 4 /\ row.state # 4) => HasNames(row)
            /\ row.linked # Nothing => row'.linked # Nothing]_row

\* Whoever has a row and keeps writing gets past the gate.
NobodyIsStuck == (row # Nothing) ~> admitted

LinkedTo(e) == row # Nothing /\ row.linked = e

\* A recovery that failed or was cut short is made up for: whoever is linked to an employee and
\* keeps writing has the employee's open tasks handed over in the end, by a later update if not
\* by the one that linked, as long as the link stands.
LinkedIsRecovered ==
    \A e \in Matches : LinkedTo(e) ~> (e \in recovered \/ ~LinkedTo(e))

=============================================================================
