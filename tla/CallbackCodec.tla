--------------------------- MODULE CallbackCodec ---------------------------
(***************************************************************************)
(* The data of the buttons (presentation/telegram/callbacks/codec): a      *)
(* callback is written when a keyboard is made and read when the button is *)
(* pressed, perhaps by a later version of the program; the forms of an     *)
(* earlier version are tried first.  A callback is [kind, args], and its   *)
(* data the sequence of the parts between the colons.  What is written and *)
(* what is read are two tables here because they are two in the code.      *)
(*                                                                         *)
(* Identifiers, nonces and feature keys have no colon in them and stand    *)
(* for themselves; only a task's identifier parses as one.                 *)
(***************************************************************************)
EXTENDS Naturals, Sequences, FiniteSets

CONSTANTS
    TaskUids, Numbers, Nonces, Flags,
    NoCursor     \* None; a cursor is the identifier of a task

ASSUME CursorAssumption == NoCursor \notin TaskUids /\ "_" \notin TaskUids

\* The codes of the enumerations, as they are written.
OriginCode ==
    [Assigned |-> "assigned", Created |-> "created", Team |-> "team", Focus |-> "focus",
     ManagerInbox |-> "manager_inbox"]

ModeCode == [Compact |-> "compact", Expanded |-> "expanded"]

StatusCode ==
    [Created |-> "created", Sent |-> "sent", InProgress |-> "in_progress", Blocked |-> "blocked",
     InReview |-> "in_review", Completed |-> "completed", Cancelled |-> "cancelled"]

FieldCode == [Assignee |-> "assignee", Description |-> "description", Deadline |-> "deadline"]

RoleCode == [User |-> "u", Manager |-> "m", Admin |-> "a"]

\* The same, as they are read.
OriginName ==
    [assigned |-> "Assigned", created |-> "Created", team |-> "Team", focus |-> "Focus",
     manager_inbox |-> "ManagerInbox"]

ModeName == [compact |-> "Compact", expanded |-> "Expanded"]

StatusName ==
    [created |-> "Created", sent |-> "Sent", in_progress |-> "InProgress", blocked |-> "Blocked",
     in_review |-> "InReview", completed |-> "Completed", cancelled |-> "Cancelled"]

FieldName == [assignee |-> "Assignee", description |-> "Description", deadline |-> "Deadline"]

RoleName == [u |-> "User", m |-> "Manager", a |-> "Admin"]

\* The forms of one argument: its values, the part each is written as, and the value that a part
\* is read as, if any.
Values(arg) ==
    CASE arg = "origin" -> DOMAIN OriginCode [] arg = "mode" -> DOMAIN ModeCode
      [] arg = "status" -> DOMAIN StatusCode [] arg = "field" -> DOMAIN FieldCode
      [] arg = "role" -> DOMAIN RoleCode [] arg = "cursor" -> TaskUids \cup {NoCursor}
      [] arg = "task" -> TaskUids [] arg = "number" -> Numbers
      [] arg = "nonce" -> Nonces [] arg = "flag" -> Flags

Code(arg, value) ==
    CASE arg = "origin" -> OriginCode[value] [] arg = "mode" -> ModeCode[value]
      [] arg = "status" -> StatusCode[value] [] arg = "field" -> FieldCode[value]
      [] arg = "role" -> RoleCode[value]
      [] arg = "cursor" -> IF value = NoCursor THEN "_" ELSE value
      [] OTHER -> value

Read(arg, part) ==
    CASE arg = "origin" -> {OriginName[p] : p \in {part} \cap DOMAIN OriginName}
      [] arg = "mode" -> {ModeName[p] : p \in {part} \cap DOMAIN ModeName}
      [] arg = "status" -> {StatusName[p] : p \in {part} \cap DOMAIN StatusName}
      [] arg = "field" -> {FieldName[p] : p \in {part} \cap DOMAIN FieldName}
      [] arg = "role" -> {RoleName[p] : p \in {part} \cap DOMAIN RoleName}
      [] arg = "task" -> {part} \cap TaskUids
      [] arg = "number" -> {part} \cap Numbers
      [] arg = "cursor" -> {IF part = "_" THEN NoCursor ELSE part}
      [] OTHER -> {part}

Form(kind, words, args) == [kind |-> kind, words |-> words, args |-> args]

\* The kinds whose data are two words, written and read alike.
Words(group, words, kinds) == {Form(kinds[i], <<group, words[i]>>, <<>>) : i \in DOMAIN words}

BareForms ==
    Words("m", <<"home", "help", "settings", "stats", "team_stats", "create", "sync">>,
               <<"MenuHome", "MenuHelp", "MenuSettings", "MenuStats", "MenuTeamStats",
                 "MenuCreate", "MenuSyncEmployees">>)
    \cup Words("c", <<"quick", "guided", "voice_confirm", "voice_edit", "voice_back",
                      "voice_cancel", "register_unlinked", "clarify_unassigned">>,
                    <<"StartQuickCreate", "StartGuidedCreate", "VoiceCreateConfirm",
                      "VoiceCreateEdit", "VoiceCreateBack", "VoiceCreateCancel",
                      "RegistrationContinueUnlinked", "ClarificationCreateUnassigned">>)
    \cup Words("d", <<"skip_assignee", "skip_deadline", "submit">>,
                    <<"DraftSkipAssignee", "DraftSkipDeadline", "DraftSubmit">>)
    \cup Words("a", <<"menu", "users", "cancel", "audit", "sec_audit", "feat">>,
                    <<"AdminMenu", "AdminUsers", "AdminCancelPending", "AdminAudit",
                      "AdminSecurityAudit", "AdminFeatures">>)

\* The kinds about people, drafts and settings, written and read alike.
IdForms ==
    {Form("RegistrationPickEmployee", <<"c", "register_employee">>, <<"number">>),
     Form("ClarificationPickEmployee", <<"c", "clarify_employee">>, <<"number">>),
     Form("GuidedAssigneeConfirm", <<"d", "assignee_pick">>, <<"number">>),
     Form("DraftEdit", <<"d", "edit">>, <<"field">>),
     Form("AdminUserDetails", <<"a", "user">>, <<"number">>),
     Form("AdminUserPrepareRoleChange", <<"a", "role">>, <<"number", "role">>),
     Form("AdminUserPrepareDeactivate", <<"a", "deact">>, <<"number">>),
     Form("AdminUserPrepareReactivate", <<"a", "react">>, <<"number">>),
     Form("AdminConfirmNonce", <<"a", "confirm">>, <<"nonce">>),
     Form("AdminToggleFeature", <<"a", "ftog">>, <<"flag">>)}

\* Mutant: the blocker button is written as earlier versions wrote it, without its list.
TaskFormsMutant ==
    {Form("ListTasks", <<"l">>, <<"origin", "cursor">>),
     Form("OpenTask", <<"t", "open">>, <<"origin", "task", "mode">>),
     Form("UpdateTaskStatus", <<"t", "status">>, <<"origin", "task", "status">>),
     Form("ConfirmTaskCancel", <<"t", "cancel_confirm">>, <<"origin", "task">>),
     Form("ExecuteTaskCancel", <<"t", "cancel_execute">>, <<"origin", "task">>),
     Form("StartTaskCommentInput", <<"i", "comment">>, <<"origin", "task">>),
     Form("StartTaskBlockerInput", <<"block">>, <<"task">>),
     Form("StartTaskReassignInput", <<"i", "reassign">>, <<"origin", "task">>),
     Form("ShowDeliveryHelp", <<"i", "delivery_help">>, <<"origin", "task">>)}

\* The kinds about tasks, as encode_callback writes them.
TaskForms ==
    {Form("ListTasks", <<"l">>, <<"origin", "cursor">>),
     Form("OpenTask", <<"t", "open">>, <<"origin", "task", "mode">>),
     Form("UpdateTaskStatus", <<"t", "status">>, <<"origin", "task", "status">>),
     Form("ConfirmTaskCancel", <<"t", "cancel_confirm">>, <<"origin", "task">>),
     Form("ExecuteTaskCancel", <<"t", "cancel_execute">>, <<"origin", "task">>),
     Form("StartTaskCommentInput", <<"i", "comment">>, <<"origin", "task">>),
     Form("StartTaskBlockerInput", <<"i", "blocker">>, <<"origin", "task">>),
     Form("StartTaskReassignInput", <<"i", "reassign">>, <<"origin", "task">>),
     Form("ShowDeliveryHelp", <<"i", "delivery_help">>, <<"origin", "task">>)}

\* parse_callback_modern: a card may come without a mode.
ModernForms ==
    BareForms \cup IdForms \cup
    {Form("ListTasks", <<"l">>, <<"origin", "cursor">>),
     Form("OpenTask", <<"t", "open">>, <<"origin", "task">>),
     Form("OpenTask", <<"t", "open">>, <<"origin", "task", "mode">>),
     Form("UpdateTaskStatus", <<"t", "status">>, <<"origin", "task", "status">>),
     Form("ConfirmTaskCancel", <<"t", "cancel_confirm">>, <<"origin", "task">>),
     Form("ExecuteTaskCancel", <<"t", "cancel_execute">>, <<"origin", "task">>),
     Form("StartTaskCommentInput", <<"i", "comment">>, <<"origin", "task">>),
     Form("StartTaskBlockerInput", <<"i", "blocker">>, <<"origin", "task">>),
     Form("StartTaskReassignInput", <<"i", "reassign">>, <<"origin", "task">>),
     Form("ShowDeliveryHelp", <<"i", "delivery_help">>, <<"origin", "task">>)}

\* parse_legacy_callback: no origin.
LegacyForms ==
    {Form("UpdateTaskStatus", <<"status">>, <<"task", "status">>),
     Form("OpenTask", <<"open">>, <<"task">>),
     Form("StartTaskBlockerInput", <<"block">>, <<"task">>)}

\* What the arguments are that a form does not carry.
Given(kind) ==
    CASE kind = "OpenTask" -> [origin |-> "Assigned", mode |-> "Compact"]
      [] OTHER -> [origin |-> "Assigned"]

ArgSet(args) == {args[i] : i \in DOMAIN args}

\* Every callback the program makes buttons of.
Callbacks ==
    UNION {{[kind |-> f.kind, args |-> v] :
              v \in {w \in [ArgSet(f.args) -> UNION {Values(a) : a \in ArgSet(f.args)}] :
                        \A a \in ArgSet(f.args) : w[a] \in Values(a)}}
             : f \in BareForms \cup IdForms \cup TaskForms}

\* encode_callback
Encode(callback) ==
    LET f == CHOOSE form \in BareForms \cup IdForms \cup TaskForms : form.kind = callback.kind
    IN  f.words \o [i \in DOMAIN f.args |-> Code(f.args[i], callback.args[f.args[i]])]

\* The callbacks that data are read as, by the given forms: one or none.
ReadBy(forms, data) ==
    LET fits == {f \in forms : /\ Len(data) = Len(f.words) + Len(f.args)
                               /\ SubSeq(data, 1, Len(f.words)) = f.words}
        Part(f, i) == data[Len(f.words) + i]
        Carried(f) == {v \in [ArgSet(f.args) -> UNION {Read(f.args[i], Part(f, i)) : i \in DOMAIN f.args}] :
                          \A i \in DOMAIN f.args : v[f.args[i]] \in Read(f.args[i], Part(f, i))}
        Whole(f, v) == LET given == DOMAIN Given(f.kind)
                           known == IF "task" \in DOMAIN v THEN DOMAIN v \cup given ELSE DOMAIN v
                       IN  [a \in known |-> IF a \in DOMAIN v THEN v[a] ELSE Given(f.kind)[a]]
    IN  UNION {{[kind |-> f.kind, args |-> Whole(f, v)] : v \in Carried(f)} : f \in fits}

\* parse_callback: a legacy form first.
Parse(data) ==
    LET legacy == ReadBy(LegacyForms, data)
    IN  IF legacy # {} THEN legacy ELSE ReadBy(ModernForms, data)

(***************************************************************************)
(* A button with its data, for the properties.                             *)
(***************************************************************************)
VARIABLE button

CodecInit == button \in Callbacks

\* A button does what it was made for: what is read of its data is the callback it was made
\* of, whole, and nothing else.
ButtonsMeanWhatTheySay == Parse(Encode(button)) = {button}

=============================================================================
