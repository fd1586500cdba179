------------------------------ MODULE Screens ------------------------------
(***************************************************************************)
(* The screens of the bot, the buttons on them, and the gates a press has  *)
(* to pass (presentation/telegram: active_screens, callbacks,              *)
(* ui_keyboards).  A screen and a button are tuples: a name and, for the   *)
(* ones that are about a task, a field or an employee, that object.  Where *)
(* a list or a card was opened from, how much of a card is shown and       *)
(* which page of a list are left out: they travel with the buttons and     *)
(* decide nothing here.                                                    *)
(***************************************************************************)

(***************************************************************************)
(* Buttons.  The ones that only show something are named after what they   *)
(* show.                                                                   *)
(***************************************************************************)
Home == <<"MenuHome">>
Card(task) == <<"OpenTask", task>>
MoveTo(task, status) == <<"UpdateTaskStatus", task, status>>

\* Mutant: a submission passes the gate like a move to another page.
MutatingButtonsMutant ==
    {"UpdateTaskStatus", "ExecuteTaskCancel", "VoiceCreateConfirm",
     "RegistrationPickEmployee", "RegistrationContinueUnlinked",
     "ClarificationPickEmployee", "ClarificationCreateUnassigned",
     "GuidedAssigneeConfirm", "AdminConfirmNonce", "AdminToggleFeature"}

\* The buttons that carry out something, as against moving about.
MutatingButtons ==
    {"UpdateTaskStatus", "ExecuteTaskCancel", "DraftSubmit", "VoiceCreateConfirm",
     "RegistrationPickEmployee", "RegistrationContinueUnlinked",
     "ClarificationPickEmployee", "ClarificationCreateUnassigned",
     "GuidedAssigneeConfirm", "AdminConfirmNonce", "AdminToggleFeature"}

IsMutating(button) == button[1] \in MutatingButtons

\* The buttons of a task card, which name the task they are about.
CardButtons ==
    {"UpdateTaskStatus", "ConfirmTaskCancel", "ExecuteTaskCancel",
     "StartTaskCommentInput", "StartTaskBlockerInput", "StartTaskReassignInput",
     "ShowDeliveryHelp"}

RegistrationButtons == {"RegistrationPickEmployee", "RegistrationContinueUnlinked"}

(***************************************************************************)
(* Stages: every screen belongs to one, and a stage lists the buttons it   *)
(* takes.                                                                  *)
(***************************************************************************)
ScreensOf ==
    [Unknown      |-> {"Unknown", "Processing"},
     Registration |-> {"RegistrationLinking"},
     Onboarding   |-> {"OnboardingFirstName", "OnboardingLastName"},
     Main         |-> {"MainMenu", "MenuHelp", "MenuSettings", "MenuStats", "MenuTeamStats",
                       "MenuSyncEmployees", "ListTasks"},
     Creation     |-> {"CreateMenu", "QuickCreate", "GuidedStep", "GuidedAssigneeOptions",
                       "VoiceCreate", "TaskCreationResult", "TaskInteractionPrompt"},
     TaskDetail   |-> {"TaskDetail", "CancelConfirmation", "DeliveryHelp"},
     Admin        |-> {"AdminMenu", "AdminUsers", "AdminUserDetails", "AdminConfirm",
                       "AdminAudit", "AdminSecurityAudit", "AdminFeatures"}]

ScreenNames == UNION {ScreensOf[stage] : stage \in DOMAIN ScreensOf}

Stage(screen) == CHOOSE s \in DOMAIN ScreensOf : screen[1] \in ScreensOf[s]

AcceptedIn ==
    [Onboarding   |-> {},
     Registration |-> {},
     Main         |-> {"MenuHome", "MenuHelp", "MenuSettings", "MenuStats", "MenuTeamStats",
                       "MenuCreate", "MenuSyncEmployees", "ListTasks", "OpenTask",
                       "StartQuickCreate", "StartGuidedCreate", "AdminMenu"},
     Creation     |-> {"StartQuickCreate", "StartGuidedCreate", "VoiceCreateConfirm",
                       "VoiceCreateEdit", "VoiceCreateBack", "VoiceCreateCancel",
                       "DraftSkipAssignee", "DraftSkipDeadline", "DraftSubmit", "DraftEdit",
                       "ClarificationPickEmployee", "ClarificationCreateUnassigned",
                       "GuidedAssigneeConfirm", "MenuHome", "OpenTask"},
     TaskDetail   |-> {"MenuHome", "MenuHelp", "ListTasks", "OpenTask"} \cup CardButtons,
     Admin        |-> {"AdminMenu", "AdminUsers", "AdminUserDetails",
                       "AdminUserPrepareRoleChange", "AdminUserPrepareDeactivate",
                       "AdminUserPrepareReactivate", "AdminConfirmNonce", "AdminCancelPending",
                       "AdminAudit", "AdminSecurityAudit", "AdminFeatures",
                       "AdminToggleFeature", "MenuHome"}]

\* A card and its cancel confirmation take only the buttons of their own task; a screen of
\* the unknown stage takes everything.
Accepts(screen, button) ==
    IF screen[1] \in {"TaskDetail", "CancelConfirmation"} /\ button[1] \in CardButtons
    THEN screen[2] = button[2]
    ELSE \/ screen[1] = "RegistrationLinking" /\ button[1] \in RegistrationButtons
         \/ Stage(screen) = "Unknown"
         \/ Stage(screen) # "Unknown" /\ button[1] \in AcceptedIn[Stage(screen)]

(***************************************************************************)
(* Keyboards: the sets of buttons sent along with the screens.             *)
(***************************************************************************)
NoKeyboard == {}

\* Views: the lists and pages that the rights of the user put on his menu.
MainMenuKeyboard(Views) == {<<v>> : v \in Views} \cup {<<"MenuCreate">>}

CreateMenuKeyboard == {<<"StartQuickCreate">>, <<"StartGuidedCreate">>, Home}

\* Mutant: quick capture is shown with the keyboard of the first guided step.
QuickCaptureKeyboardMutant == {Home, <<"DraftSkipAssignee">>}

QuickCaptureKeyboard == {Home}

TaskListKeyboard(listed) == {Card(t) : t \in listed} \cup {<<"ListTasks">>, Home}

\* What the card of an open task offers; next: the statuses its user may move it to.
TaskDetailKeyboard(task, next, waiting) ==
    {MoveTo(task, s) : s \in next}
      \cup (IF next = {} THEN {} ELSE {<<b, task>> : b \in {"ConfirmTaskCancel", "StartTaskBlockerInput",
                                                          "StartTaskReassignInput"}})
      \cup (IF waiting THEN {<<"ShowDeliveryHelp", task>>} ELSE {})
      \cup {<<"StartTaskCommentInput", task>>, Card(task), <<"ListTasks">>, Home}

CancelConfirmationKeyboard(task) == {<<"ExecuteTaskCancel", task>>, Card(task), Home}

DeliveryHelpKeyboard(task) == {Card(task), Home}

\* After a creation: the card, another task, and, while nobody has it, its assignee.
OutcomeKeyboard(task) == {Card(task), <<"MenuCreate">>, Home}

CreatedTaskKeyboard(task, unassigned) ==
    OutcomeKeyboard(task) \cup (IF unassigned THEN {<<"StartTaskReassignInput", task>>} ELSE {})

ClarificationKeyboard(candidates, allowUnassigned) ==
    {<<"ClarificationPickEmployee", e>> : e \in candidates}
      \cup (IF allowUnassigned THEN {<<"ClarificationCreateUnassigned">>} ELSE {})
      \cup {<<"MenuCreate">>, Home}

GuidedAssigneeKeyboard == {<<"DraftSkipAssignee">>, Home}

GuidedSuggestionsKeyboard(candidates) ==
    {<<"GuidedAssigneeConfirm", e>> : e \in candidates} \cup GuidedAssigneeKeyboard

GuidedDeadlineKeyboard == {<<"DraftSkipDeadline">>, Home}

GuidedConfirmationKeyboard ==
    {<<"DraftSubmit">>, Home} \cup {<<"DraftEdit", f>> : f \in {"Assignee", "Description", "Deadline"}}

VoiceConfirmationKeyboard ==
    {<<"VoiceCreateConfirm">>, <<"VoiceCreateEdit">>, <<"VoiceCreateCancel">>, Home}

VoiceEditKeyboard == {<<"VoiceCreateBack">>, <<"VoiceCreateCancel">>, Home}

=============================================================================
