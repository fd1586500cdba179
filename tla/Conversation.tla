---------------------------- MODULE Conversation ----------------------------
(***************************************************************************)
(* The conversation of one registered user with the bot (presentation/     *)
(* telegram/dispatcher*.rs): creating tasks by a message, by the guided    *)
(* draft or by voice, settling who an ambiguous name meant, following a    *)
(* task up, and the one active screen on which all of it is shown.         *)
(*                                                                         *)
(* The updates of a chat are handled one at a time (UpdateGateway), so     *)
(* that a handler is one step.  The user does not wait for them: a button  *)
(* may be pressed on any message that is still there, and on the keyboard  *)
(* that the last edit took away, if the press was on its way.              *)
(*                                                                         *)
(* A task is named by its source message key; deadlines, comments and the  *)
(* status of an open task are left out, since no step of the conversation  *)
(* depends on them.  A text is what the user writes, and Named says whom   *)
(* the directory takes it to mean.                                         *)
(***************************************************************************)
EXTENDS Naturals, Sequences, Screens

CONSTANTS
    Keys,         \* source message keys, of tasks and of drafts
    InitialTasks, \* [Keys -> None or a task]: those there are when the conversation begins
    Employees,    \* the directory
    Texts,        \* what the user may write or say
    Named,        \* [Texts -> Employees \cup {None, Several}]
    Several,      \* a name that several employees answer to
    Views,        \* the pages that only show something
    None,
    MaxEvents     \* bound on the screens sent as new messages, together with the restarts,
                  \* failing services and lost screens

ASSUME NamedAssumption == Named \in [Texts -> Employees \cup {None, Several}]
ASSUME ViewsAssumption == Views \subseteq ScreensOf.Main \ {"MainMenu"}
ASSUME EventsAssumption == MaxEvents \in Nat

VARIABLES
    active,     \* the active screen and the message it is on, as the bot remembers it
    keyboards,  \* the buttons under each message with a screen, oldest first
    late,       \* the buttons the last edit of the active message took away
    chat,       \* the stores in memory: [session, selection, interaction]
    tasks,      \* [Keys -> None or a task]
    shown,      \* what the user was last asked to confirm of the present session
    torn,       \* since a screen last arrived, one was lost or replaced by an error, or the
                \* memory was lost
    faults

vars == <<active, keyboards, late, chat, tasks, shown, torn, faults>>

Steps == {"Assignee", "Description", "Deadline", "Confirm"}

QuickCapture == [mode |-> "quick"]

Draft ==
    [mode : {"guided"}, key : Keys, assignee : Texts \cup {None},
     resolved : Employees \cup {None}, text : Texts \cup {None}, step : Steps]

NewDraft(key) ==
    [mode |-> "guided", key |-> key, assignee |-> None, resolved |-> None, text |-> None,
     step |-> "Assignee"]

VoiceDraft == [mode : {"voice"}, key : Keys, text : Texts, step : {"Confirm", "EditTranscript"}]

NewVoiceDraft(key, text) == [mode |-> "voice", key |-> key, text |-> text, step |-> "Confirm"]

\* A message a task can be made of: who is the text it names its assignee by.
Request == [key : Keys, text : Texts, who : Texts \cup {None}]

\* A question who was meant, for a new task or for a reassignment.
Selection ==
    [for : {"create"}, request : Request, candidates : SUBSET Employees]
      \cup [for : {"reassign"}, task : Keys, candidates : SUBSET Employees]

Interaction == [task : Keys, kind : {"Comment", "Blocker", "Reassign"}]

Task == [text : Texts, assignee : Employees \cup {None}, open : BOOLEAN]

\* A screen, and the message it is on.
Screen ==
    {<<name>> : name \in ScreenNames}
      \cup (ScreenNames \X (Keys \cup Steps \cup {"EditTranscript"}))
      \cup (ScreenNames \X Keys \X {"Comment", "Blocker", "Reassign"})

Place == [msg : Nat, screen : Screen]

\* What a confirmation shows of a draft.
Said == [text : Texts \cup {None}, assignee : Texts \cup {None}]

\* None is none of the things it stands in for.
ASSUME NoneAssumption ==
    /\ None \notin Keys \cup Employees \cup Texts \cup {Several, QuickCapture}
    /\ None \notin Draft /\ None \notin VoiceDraft
    /\ None \notin Selection /\ None \notin Interaction
    /\ None \notin Task /\ None \notin Place /\ None \notin Said

EmptyChat == [session |-> None, selection |-> None, interaction |-> None]

Mode == IF chat.session = None THEN "none" ELSE chat.session.mode

ASSUME TasksAssumption == InitialTasks \in [Keys -> Task \cup {None}]

\* A key that no task has, nor a draft or question of the stores: a new message or
\* submission key.
FreshKeys(stores) ==
    {k \in Keys : /\ tasks[k] = None
                  /\ stores.session \notin {None, QuickCapture} => stores.session.key # k
                  /\ (stores.selection # None /\ stores.selection.for = "create")
                       => stores.selection.request.key # k}

FreshKey(stores) == CHOOSE k \in FreshKeys(stores) : TRUE

Stored == {k \in Keys : tasks[k] # None}

TypeOK ==
    /\ Len(keyboards) + faults <= MaxEvents
    /\ active \in {None} \cup [msg : DOMAIN keyboards, screen : Screen]
    /\ chat.session \in {None, QuickCapture} \cup Draft \cup VoiceDraft
    /\ chat.selection \in {None} \cup Selection
    /\ chat.interaction \in {None} \cup Interaction
    /\ tasks \in [Keys -> Task \cup {None}]
    /\ shown \in {None} \cup Said
    /\ torn \in BOOLEAN
    /\ faults \in Nat

(***************************************************************************)
(* Rendering.  A view is a screen, its keyboard and, on a confirmation,    *)
(* what the user is asked to confirm.                                      *)
(***************************************************************************)
View(screen, keyboard) == [screen |-> screen, keyboard |-> keyboard, says |-> None]

Asking(view, text, assignee) == [view EXCEPT !.says = [text |-> text, assignee |-> assignee]]

\* A session with nothing in it yet.
Starting(session) == session \in {None, QuickCapture} \/ session.text = None

Arrived(view) ==
    /\ shown' = IF view.says # None THEN view.says ELSE IF Starting(chat'.session) THEN None ELSE shown
    /\ torn' = FALSE
    /\ UNCHANGED faults

Edit(on, view) ==
    /\ on # None
    /\ active' = [on EXCEPT !.screen = view.screen]
    /\ keyboards' = [keyboards EXCEPT ![on.msg] = view.keyboard]
    /\ late' = keyboards[on.msg] \ view.keyboard
    /\ Arrived(view)

SendMessage(view) ==
    /\ Len(keyboards) + faults < MaxEvents
    /\ keyboards' = Append(keyboards, view.keyboard)
    /\ active' = [msg |-> Len(keyboards) + 1, screen |-> view.screen]
    /\ late' = {}
    /\ Arrived(view)

\* The call to Telegram fails.
LoseScreen(on) ==
    /\ Len(keyboards) + faults < MaxEvents
    /\ faults' = faults + 1
    /\ torn' = TRUE
    /\ active' = on
    /\ UNCHANGED shown

\* It fails with the edit made, the answer being what is lost.
LoseAnswer(on, view) ==
    /\ on # None
    /\ keyboards' = [keyboards EXCEPT ![on.msg] = view.keyboard]
    /\ late' = keyboards[on.msg] \ view.keyboard
    /\ LoseScreen(on)

NothingArrives(on) == LoseScreen(on) /\ UNCHANGED <<keyboards, late>>

\* send_screen: the active message is edited; a new one is sent when there is none or it
\* cannot be edited.
SendScreen(on, view) ==
    Edit(on, view) \/ SendMessage(view) \/ LoseAnswer(on, view) \/ NothingArrives(on)

\* send_fresh_screen always sends a new message.
SendFreshScreen(on, view) == SendMessage(view) \/ NothingArrives(on)

\* send_error and the answers to a refused press leave the screen as it is.
KeepScreen(on) == active' = on /\ UNCHANGED <<keyboards, late, shown>>

Refuse(on) == KeepScreen(on) /\ UNCHANGED <<chat, tasks, torn, faults>>

\* A service fails: the user is told, by a message without buttons.
ServiceFails(on) ==
    /\ Len(keyboards) + faults < MaxEvents
    /\ faults' = faults + 1
    /\ torn' = TRUE
    /\ KeepScreen(on)

(***************************************************************************)
(* The views.                                                              *)
(***************************************************************************)
MainMenuView == View(<<"MainMenu">>, MainMenuKeyboard(Views))

PageView(page) == View(<<page>>, MainMenuKeyboard(Views))

ListView == View(<<"ListTasks">>, TaskListKeyboard(Stored))

CreateMenuView == View(<<"CreateMenu">>, CreateMenuKeyboard)

CardOf(key, task) ==
    View(<<"TaskDetail", key>>,
         TaskDetailKeyboard(key, IF task.open THEN {"open", "closed"} ELSE {}, task.assignee # None))

CardView(key) == CardOf(key, tasks[key])

\* The prompt for a comment, a blocker or a new assignee keeps the keyboard of the card.
PromptView(interaction) ==
    View(<<"TaskInteractionPrompt", interaction.task, interaction.kind>>,
         CardView(interaction.task).keyboard)

StepKeyboard ==
    [Assignee    |-> GuidedAssigneeKeyboard,
     Description |-> CreateMenuKeyboard,
     Deadline    |-> GuidedDeadlineKeyboard,
     Confirm     |-> GuidedConfirmationKeyboard]

StepView(draft) ==
    LET view == View(<<"GuidedStep", draft.step>>, StepKeyboard[draft.step])
    IN  IF draft.step = "Confirm" THEN Asking(view, draft.text, draft.assignee) ELSE view

VoiceView(draft) ==
    LET view == View(<<"VoiceCreate", draft.step>>,
                     IF draft.step = "Confirm" THEN VoiceConfirmationKeyboard ELSE VoiceEditKeyboard)
    IN  IF draft.step = "Confirm" THEN Asking(view, draft.text, draft.text) ELSE view

(***************************************************************************)
(* The use cases the conversation calls.                                   *)
(***************************************************************************)
\* Whom a name is taken to mean: one employee, or several or nobody and then a question.
Candidates(name) == IF Named[name] = Several THEN Employees ELSE {}

IsClear(name) == Named[name] \in Employees

IsUnclear(name) == name # None /\ ~IsClear(name)

\* The name a request is read to have: the one put before the description, or one the
\* description itself begins with.
NameIn(request) ==
    IF request.who # None THEN request.who
    ELSE IF Named[request.text] # None THEN request.text ELSE None

\* create_if_absent: a repeated key finds the task that is there.
Store(request, assignee) ==
    tasks' = IF tasks[request.key] # None THEN tasks
             ELSE [tasks EXCEPT ![request.key] =
                      [text |-> request.text, assignee |-> assignee, open |-> TRUE]]

\* Mutant: the question is dropped, the draft is not.
FinishedMutant(stores) == [stores EXCEPT !.selection = None]

\* A draft and the question about it are over.
Finished(stores) == [stores EXCEPT !.session = None, !.selection = None]

\* The task is stored and shown; or a service fails, before the task is stored or behind
\* it, and the stores stay as they were.  followUp: a new task without an assignee is
\* shown with a button to give it one.
CreateFor(on, request, assignee, stores, followUp) ==
    \/ /\ Store(request, assignee)
       /\ chat' = Finished(stores)
       /\ SendScreen(on, View(<<"TaskCreationResult", request.key>>,
                              IF followUp /\ tasks[request.key] = None
                              THEN CreatedTaskKeyboard(request.key, assignee = None)
                              ELSE OutcomeKeyboard(request.key)))
    \/ /\ Store(request, assignee) \/ UNCHANGED tasks
       /\ chat' = stores
       /\ ServiceFails(on)

\* execute: a name that is not clear turns into a question, kept as the pending selection.
CreateTask(on, request, stores, asking, question, followUp) ==
    LET name == NameIn(request)
    IN  \/ /\ ~IsUnclear(name)
           /\ CreateFor(on, request, IF name = None THEN None ELSE Named[name], stores, followUp)
        \/ /\ IsUnclear(name)
           /\ \/ /\ chat' = [asking EXCEPT !.selection =
                               [for |-> "create", request |-> request, candidates |-> Candidates(name)]]
                 /\ SendScreen(on, question)
              \/ chat' = stores /\ ServiceFails(on)
           /\ UNCHANGED tasks

\* The question about a request, on the screen of a creation.
Question(request) ==
    View(<<"TaskCreationResult">>, ClarificationKeyboard(Candidates(NameIn(request)), TRUE))

\* A task changes and its card is shown; a closed task is refused, and a service may fail
\* before the change or behind it.
ChangeTask(on, task, new, stores, after) ==
    LET open == tasks[task].open
    IN  \/ /\ open
           /\ tasks' = [tasks EXCEPT ![task] = new]
           /\ \/ chat' = after /\ SendScreen(on, CardOf(task, new))
              \/ chat' \in {stores, after} /\ ServiceFails(on)
        \/ ~open /\ KeepScreen(on) /\ chat' = stores /\ UNCHANGED <<tasks, torn, faults>>
        \/ open /\ ServiceFails(on) /\ chat' = stores /\ UNCHANGED tasks

(***************************************************************************)
(* What the buttons do.  A press clears the pending interaction before     *)
(* anything else; on is the active screen it found, and idle what the      *)
(* stores then hold.                                                       *)
(***************************************************************************)
ShowOnly(on, after, view) == chat' = after /\ UNCHANGED tasks /\ SendScreen(on, view)

\* Looking a task up may fail.
ShowTask(on, after, view) ==
    \/ ShowOnly(on, after, view)
    \/ chat' = after /\ UNCHANGED tasks /\ ServiceFails(on)

\* The main menu and the create menu drop everything that is pending; other pages do not.
PressMenu(on, idle, button) ==
    \/ button = Home /\ ShowOnly(on, EmptyChat, MainMenuView)
    \/ button[1] = "MenuCreate" /\ ShowOnly(on, EmptyChat, CreateMenuView)
    \/ button[1] = "ListTasks" /\ ShowTask(on, idle, ListView)
    \/ button[1] \in Views \ {"ListTasks"} /\ ShowOnly(on, idle, PageView(button[1]))

ChangeStatus(on, idle, task, open) ==
    ChangeTask(on, task, [tasks[task] EXCEPT !.open = open], idle, idle)

StartInteraction(on, idle, task, kind) ==
    LET asked == [task |-> task, kind |-> kind]
    IN  \/ ShowOnly(on, [idle EXCEPT !.interaction = asked], PromptView(asked))
        \/ chat' = idle /\ UNCHANGED tasks /\ ServiceFails(on)

PressCard(on, idle, button) ==
    \/ button[1] = "OpenTask" /\ ShowTask(on, idle, CardView(button[2]))
    \/ button[1] = "UpdateTaskStatus" /\ ChangeStatus(on, idle, button[2], button[3] = "open")
    \/ button[1] = "ExecuteTaskCancel" /\ ChangeStatus(on, idle, button[2], FALSE)
    \/ /\ button[1] = "ConfirmTaskCancel"
       /\ ShowTask(on, idle, View(<<"CancelConfirmation", button[2]>>,
                                  CancelConfirmationKeyboard(button[2])))
    \/ /\ button[1] = "ShowDeliveryHelp"
       /\ ShowTask(on, idle, View(<<"DeliveryHelp", button[2]>>, DeliveryHelpKeyboard(button[2])))
    \/ button[1] = "StartTaskCommentInput" /\ StartInteraction(on, idle, button[2], "Comment")
    \/ button[1] = "StartTaskBlockerInput" /\ StartInteraction(on, idle, button[2], "Blocker")
    \/ button[1] = "StartTaskReassignInput" /\ StartInteraction(on, idle, button[2], "Reassign")

StartQuick(on, idle) ==
    ShowOnly(on, [idle EXCEPT !.session = QuickCapture, !.selection = None],
             View(<<"QuickCreate">>, QuickCaptureKeyboard))

StartGuided(on, idle) ==
    LET draft == NewDraft(FreshKey(Finished(idle)))
    IN  /\ FreshKeys(Finished(idle)) # {}
        /\ ShowOnly(on, [idle EXCEPT !.session = draft, !.selection = None], StepView(draft))

\* Mutant: the step is shown and the draft not stored.
PutDraftMutant(on, idle, draft) == ShowOnly(on, idle, StepView(draft))

\* The draft is stored and the screen of its step shown.
PutDraft(on, idle, draft) == ShowOnly(on, [idle EXCEPT !.session = draft], StepView(draft))

EditField(draft, field) ==
    IF field = "Assignee" THEN [draft EXCEPT !.resolved = None, !.step = field]
    ELSE [draft EXCEPT !.step = field]

GuidedRequest(draft) ==
    [key |-> draft.key, text |-> draft.text,
     who |-> IF draft.resolved # None THEN None ELSE draft.assignee]

SubmitDraft(on, idle, draft) ==
    LET request == GuidedRequest(draft)
    IN  \/ /\ draft.text = None
           /\ ShowOnly(on, idle, StepView([draft EXCEPT !.step = "Confirm"]))
        \/ /\ draft.text # None /\ draft.resolved # None
           /\ CreateFor(on, request, draft.resolved, idle, FALSE)
        \/ /\ draft.text # None /\ draft.resolved = None
           /\ CreateTask(on, request, idle, idle, Question(request), FALSE)

\* The buttons of a guided draft; without one they lead back to the create menu.
PressDraft(on, idle, button) ==
    LET draft == idle.session
    IN  \/ /\ button[1] \in {"DraftSkipAssignee", "DraftSkipDeadline", "DraftEdit", "DraftSubmit",
                             "GuidedAssigneeConfirm"}
           /\ Mode # "guided"
           /\ ShowOnly(on, idle, CreateMenuView)
        \/ /\ Mode = "guided"
           /\ \/ /\ button[1] = "DraftSkipAssignee"
                 /\ PutDraft(on, idle, [draft EXCEPT !.assignee = None, !.step = "Description"])
              \/ /\ button[1] = "GuidedAssigneeConfirm"
                 /\ PutDraft(on, idle, [draft EXCEPT !.resolved = button[2], !.step = "Description"])
              \/ /\ button[1] = "DraftSkipDeadline"
                 /\ PutDraft(on, idle, [draft EXCEPT !.step = "Confirm"])
              \/ button[1] = "DraftEdit" /\ PutDraft(on, idle, EditField(draft, button[2]))
              \/ button[1] = "DraftSubmit" /\ SubmitDraft(on, idle, draft)

VoiceRequest(draft) == [key |-> draft.key, text |-> draft.text, who |-> None]

PutVoice(on, idle, draft) == ShowOnly(on, [idle EXCEPT !.session = draft], VoiceView(draft))

SubmitVoice(on, idle, draft) ==
    LET request == VoiceRequest(draft)
        question == View(<<"VoiceCreate", "Confirm">>,
                         ClarificationKeyboard(Candidates(NameIn(request)), TRUE))
    IN  CreateTask(on, request, idle, idle, Asking(question, draft.text, draft.text), FALSE)

\* The buttons of a voice draft.
PressVoice(on, idle, button) ==
    LET draft == idle.session
    IN  \/ /\ button[1] \in {"VoiceCreateConfirm", "VoiceCreateEdit", "VoiceCreateBack"}
           /\ Mode # "voice"
           /\ ShowOnly(on, idle, CreateMenuView)
        \/ button[1] = "VoiceCreateCancel" /\ ShowOnly(on, Finished(idle), CreateMenuView)
        \/ /\ Mode = "voice"
           /\ \/ button[1] = "VoiceCreateEdit" /\ PutVoice(on, idle, [draft EXCEPT !.step = "EditTranscript"])
              \/ button[1] = "VoiceCreateBack" /\ PutVoice(on, idle, [draft EXCEPT !.step = "Confirm"])
              \/ button[1] = "VoiceCreateConfirm" /\ SubmitVoice(on, idle, draft)

\* The buttons of a question: who was meant.
PressClarification(on, idle, button) ==
    LET selection == idle.selection
        creating == selection # None /\ selection.for = "create"
        reassigning == selection # None /\ selection.for = "reassign"
        dropped == [idle EXCEPT !.selection = None]
        picking == button[1] = "ClarificationPickEmployee"
        unassigned == button[1] = "ClarificationCreateUnassigned"
    IN  \/ /\ picking /\ creating
           /\ IF button[2] \in selection.candidates
              THEN CreateFor(on, selection.request, button[2], idle, TRUE)
              ELSE ShowOnly(on, dropped, CreateMenuView)
        \/ /\ picking /\ reassigning
           /\ LET task == selection.task
              IN  IF button[2] \in selection.candidates
                  THEN ChangeTask(on, task, [tasks[task] EXCEPT !.assignee = button[2]], idle, dropped)
                  ELSE ShowTask(on, dropped, CardView(task))
        \/ unassigned /\ creating /\ CreateFor(on, selection.request, None, idle, TRUE)
        \/ /\ picking \/ unassigned
           /\ ~creating /\ ~(picking /\ reassigning)
           /\ ShowOnly(on, idle, CreateMenuView)

(***************************************************************************)
(* A press.  The first one after a restart makes its message the active    *)
(* screen, of unknown kind.  One on another message, or one the active     *)
(* screen does not take, is refused if it would carry something out.       *)
(***************************************************************************)
Dispatch(on, button) ==
    LET idle == [chat EXCEPT !.interaction = None]
    IN  \/ PressMenu(on, idle, button)
        \/ PressCard(on, idle, button)
        \/ button[1] = "StartQuickCreate" /\ StartQuick(on, idle)
        \/ button[1] = "StartGuidedCreate" /\ StartGuided(on, idle)
        \/ PressDraft(on, idle, button)
        \/ PressVoice(on, idle, button)
        \/ PressClarification(on, idle, button)

IsRefused(on, msg, button) == IsMutating(button) /\ (on.msg # msg \/ ~Accepts(on.screen, button))

Press(msg, button) ==
    LET on == IF active = None THEN [msg |-> msg, screen |-> <<"Unknown">>] ELSE active
    IN  IF IsRefused(on, msg, button) THEN Refuse(on) ELSE Dispatch(on, button)

(***************************************************************************)
(* A text or voice message: a creation that is under way takes it first,   *)
(* then the question a card has asked; otherwise it is a new task.         *)
(***************************************************************************)
DirectRequest(text) == [key |-> FreshKey(chat), text |-> text, who |-> None]

CreateFromMessage(text, stores, asking) ==
    /\ FreshKeys(chat) # {}
    /\ CreateTask(active, DirectRequest(text), stores, asking, Question(DirectRequest(text)), TRUE)

\* A clear name settles the assignee; an unclear one is asked about at once; when the
\* directory cannot be read, the text is kept for the submission.
TextForDraft(text) ==
    LET draft == chat.session
    IN  \/ /\ draft.step = "Assignee"
           /\ \/ /\ IsClear(text)
                 /\ PutDraft(active, chat, [draft EXCEPT !.assignee = text, !.resolved = Named[text],
                                                         !.step = "Description"])
              \/ /\ ~IsClear(text)
                 /\ ShowOnly(active, chat, View(<<"GuidedAssigneeOptions">>,
                                                GuidedSuggestionsKeyboard(Candidates(text))))
              \/ PutDraft(active, chat, [draft EXCEPT !.assignee = text, !.resolved = None,
                                                      !.step = "Description"])
        \/ /\ draft.step = "Description"
           /\ \/ PutDraft(active, chat, draft)
              \/ PutDraft(active, chat, [draft EXCEPT !.text = text, !.step = "Deadline"])
        \/ draft.step = "Deadline" /\ PutDraft(active, chat, [draft EXCEPT !.step = "Confirm"])
        \/ draft.step = "Confirm" /\ PutDraft(active, chat, draft)

TextForVoice(text) ==
    LET draft == chat.session
    IN  PutVoice(active, chat, IF draft.step = "Confirm" THEN draft
                               ELSE [draft EXCEPT !.text = text, !.step = "Confirm"])

TextForInteraction(text) ==
    LET task == chat.interaction.task
        kind == chat.interaction.kind
        answered == [chat EXCEPT !.interaction = None]
    IN  \/ kind = "Comment" /\ ShowTask(active, answered, CardView(task))
        \/ kind = "Comment" /\ chat' = chat /\ UNCHANGED tasks /\ ServiceFails(active)
        \/ kind = "Blocker" /\ ChangeTask(active, task, tasks[task], chat, answered)
        \/ /\ kind = "Reassign" /\ (IsClear(text) \/ ~tasks[task].open)
           /\ ChangeTask(active, task, [tasks[task] EXCEPT !.assignee = Named[text]], chat,
                         [answered EXCEPT !.selection = None])
        \/ /\ kind = "Reassign" /\ ~IsClear(text) /\ tasks[task].open
           /\ ShowOnly(active,
                       [chat EXCEPT !.selection =
                          [for |-> "reassign", task |-> task, candidates |-> Candidates(text)]],
                       View(PromptView(chat.interaction).screen,
                            ClarificationKeyboard(Candidates(text), FALSE)))

SendText(text) ==
    \/ Mode = "quick" /\ CreateFromMessage(text, chat, chat)
    \/ Mode = "guided" /\ TextForDraft(text)
    \/ Mode = "voice" /\ TextForVoice(text)
    \/ Mode = "none" /\ chat.interaction # None /\ TextForInteraction(text)
    \/ Mode = "none" /\ chat.interaction = None /\ CreateFromMessage(text, chat, chat)

\* A recording: the screen of the processing is the one screen its update may show, so that
\* neither the confirmation nor an error follows it.
StartVoice(text) ==
    LET processing == View(<<"Processing">>, NoKeyboard)
        key == FreshKey(Finished(chat))
    IN  /\ FreshKeys(Finished(chat)) # {}
        /\ UNCHANGED tasks
        /\ \/ /\ \/ UNCHANGED chat
                 \/ chat' = [chat EXCEPT !.session = NewVoiceDraft(key, text), !.selection = None]
              /\ Edit(active, processing) \/ SendMessage(processing)
           \/ /\ UNCHANGED chat
              /\ LoseAnswer(active, processing) \/ NothingArrives(active)

SendVoice(text) ==
    \/ /\ Mode = "guided"
       /\ ShowOnly(active, chat, View(StepView(chat.session).screen, MainMenuKeyboard(Views)))
    \/ /\ Mode = "none" /\ chat.interaction # None
       /\ ShowTask(active, chat, PromptView(chat.interaction))
    \/ /\ Mode \in {"quick", "voice"} \/ (Mode = "none" /\ chat.interaction = None)
       /\ StartVoice(text)

(***************************************************************************)
(* Commands.                                                               *)
(***************************************************************************)
Idle == [chat EXCEPT !.interaction = None]

Menu == chat' = EmptyChat /\ UNCHANGED tasks /\ SendFreshScreen(active, MainMenuView)

OpenPage(page) == PressMenu(active, Idle, <<page>>)

NewTask(text) == CreateFromMessage(text, Idle, [Idle EXCEPT !.session = None])

NewTaskMenu == ShowOnly(active, EmptyChat, CreateMenuView)

Status(task) == ShowTask(active, Idle, CardView(task))

CancelTask(task) == PressCard(active, Idle, <<"ConfirmTaskCancel", task>>)

\* A reference to no task.
UnknownTask == ShowOnly(active, Idle, View(<<"Unknown">>, MainMenuKeyboard(Views)))

(***************************************************************************)
(* A restart forgets everything about the chat; its messages stay.         *)
(***************************************************************************)
Restart ==
    /\ Len(keyboards) + faults < MaxEvents
    /\ faults' = faults + 1
    /\ active' = None
    /\ late' = {}
    /\ chat' = EmptyChat
    /\ torn' = TRUE
    /\ shown' = None
    /\ UNCHANGED <<keyboards, tasks>>

Init ==
    /\ active = None
    /\ keyboards = <<>>
    /\ late = {}
    /\ chat = EmptyChat
    /\ tasks = InitialTasks
    /\ shown = None
    /\ torn = FALSE
    /\ faults = 0

PressVisible ==
    \E msg \in DOMAIN keyboards : \E button \in keyboards[msg] : Press(msg, button)

PressLate == active # None /\ \E button \in late : Press(active.msg, button)

Message == \E text \in Texts : SendText(text) \/ SendVoice(text)

Command ==
    \/ Menu \/ NewTaskMenu \/ UnknownTask
    \/ \E page \in Views : OpenPage(page)
    \/ \E text \in Texts : NewTask(text)
    \/ \E task \in Stored : Status(task) \/ CancelTask(task)

Next == PressVisible \/ PressLate \/ Message \/ Command \/ Restart

Spec == Init /\ [][Next]_vars

(***************************************************************************)
(* Properties.                                                             *)
(***************************************************************************)

\* What the screen asks for is what the bot is waiting for: a text for a step of the guided
\* draft, or a corrected transcript, is only asked for while the session is at that step,
\* whatever other pages, presses on older messages and services that fail came in between.
\* (A lost screen, an error and a restart are excused until the next screen arrives.)
PromptsMatchSession ==
    (active # None /\ ~torn) =>
        /\ active.screen \in {<<"GuidedStep", step>> : step \in Steps \ {"Confirm"}} =>
             Mode = "guided" /\ chat.session.step = active.screen[2]
        /\ active.screen = <<"VoiceCreate", "EditTranscript">> =>
             Mode = "voice" /\ chat.session.step = "EditTranscript"

DraftButtons == {"DraftSkipAssignee", "DraftSkipDeadline", "DraftEdit", "DraftSubmit",
                 "GuidedAssigneeConfirm"}

\* The buttons the user sees find what they need: those of a draft its session, those of a
\* question its candidates.  dispatcher_guided.rs:79-81 is about one case of it.
ButtonsAreAlive ==
    (active # None /\ ~torn) =>
        \A button \in keyboards[active.msg] :
            /\ button[1] \in DraftButtons => Mode = "guided"
            /\ button[1] \in {"VoiceCreateConfirm", "VoiceCreateEdit", "VoiceCreateBack"} => Mode = "voice"
            /\ button[1] = "ClarificationPickEmployee" =>
                 chat.selection # None /\ button[2] \in chat.selection.candidates

\* A draft does not outlive the task made of it, so that it is not submitted again nor takes
\* the next message; only a service that failed behind the insertion leaves it.
FinishedDraftsAreClosed ==
    (Mode \in {"guided", "voice"} /\ tasks[chat.session.key] # None) => faults > 0

\* A guided draft never becomes a task with another description than the one its user was last
\* shown for confirmation, however presses that raced with an edit are ordered, unless a screen
\* was lost on the way ("review draft", docs/system-model.md).  A draft whose confirmation was
\* reached without a description, by a button of an earlier draft, has shown none.
GuidedTextWasShown ==
    [][\A key \in Keys :
          (/\ Mode = "guided" /\ chat.session.key = key
           /\ tasks[key] = None /\ tasks'[key] # None
           /\ faults = 0)
            => shown # None /\ shown.text \in {None, tasks'[key].text}]_vars

\* A name the directory knows, shown for confirmation as the assignee of a guided draft, is
\* whom its task is given to.
AssignedAsShown ==
    [][\A key \in Keys :
          (/\ Mode = "guided" /\ chat.session.key = key
           /\ tasks[key] = None /\ tasks'[key] # None
           /\ faults = 0 /\ shown # None /\ shown.assignee # None)
            => (IsClear(shown.assignee) => tasks'[key].assignee = Named[shown.assignee])]_vars

=============================================================================
