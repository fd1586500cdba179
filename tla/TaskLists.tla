----------------------------- MODULE TaskLists -----------------------------
(***************************************************************************)
(* The lists of tasks, page by page (application/use_cases/list_tasks, the *)
(* list queries of task_repository, the button for more tasks).  A walk    *)
(* through a list takes many presses, and between two of them tasks are    *)
(* created, change and change hands.  Tasks are numbered in the order of   *)
(* their identifiers, which is that of their creation; one may be inserted *)
(* after another with a greater identifier.                                *)
(*                                                                         *)
(* A row is what the sections of a page tell apart: whether it exists and  *)
(* belongs to the list, its status, its deadline, whether its assignee has *)
(* an account, whether it has been left alone for long.                    *)
(***************************************************************************)
EXTENDS Naturals, FiniteSets

CONSTANTS
    LastTask,    \* tasks are 1..LastTask
    Shapes,      \* the rows the instance is about, but for membership
    PageSize,    \* DEFAULT_PAGE_SIZE
    MaxMoves     \* bound on the changes during a walk

VARIABLES
    scope,       \* the list
    rows,        \* [belongs, shape] of each task
    cursor,      \* the least task seen, or LastTask + 1 for no cursor
    walking,
    listed,      \* history: the tasks on the pages so far
    repeated,    \* history: a task came twice
    shown,       \* history: the tasks in the sections of the pages so far
    steady,      \* history: the tasks that belonged to the list all the time, unchanged
    moves

listVars == <<scope, rows, cursor, walking, listed, repeated, shown, steady, moves>>

Scopes == {"assigned", "created", "team", "focus", "manager_inbox"}

ListTasks == 1..LastTask

ShapeType ==
    [status : {"created", "sent", "in_progress", "blocked", "in_review", "completed", "cancelled"},
     due : {"none", "past", "today", "later"}, pending : BOOLEAN, stale : BOOLEAN]

ASSUME ListsAssumption == Shapes \subseteq ShapeType /\ LastTask \in Nat /\ PageSize \in Nat \ {0}

ListInit ==
    /\ scope \in Scopes
    /\ rows \in [ListTasks -> [belongs : BOOLEAN, shape : Shapes]]
    /\ cursor = LastTask + 1
    /\ walking = TRUE
    /\ listed = {} /\ repeated = FALSE /\ shown = {}
    /\ steady = {i \in ListTasks : rows[i].belongs}
    /\ moves = 0

\* A task is created, reassigned or worked on.
Move(i) ==
    /\ moves < MaxMoves
    /\ moves' = moves + 1
    /\ \E row \in [belongs : BOOLEAN, shape : Shapes] : rows' = [rows EXCEPT ![i] = row]
    /\ steady' = steady \ {i}
    /\ UNCHANGED <<scope, cursor, walking, listed, repeated, shown>>

(***************************************************************************)
(* The sections of a page.                                                 *)
(***************************************************************************)
Closed(t) == t.status \in {"completed", "cancelled"}

New(t) == t.status \in {"created", "sent"}

Late(t) == t.due = "past" /\ ~Closed(t)

DueToday(t) == t.due = "today" /\ ~Closed(t) /\ t.status # "blocked"

\* Mutant: work that is waiting for its assignee's account was taken for new work.
AttentionMutant(t) == Late(t) \/ t.status = "blocked" \/ t.pending

Attention(t) == Late(t) \/ t.status = "blocked" \/ New(t) \/ t.pending

\* Whether build_sections puts the task in any section of the list.
InASection(t) ==
    CASE scope = "assigned" ->
            Late(t) \/ DueToday(t) \/ New(t)
            \/ t.status \in {"in_review", "blocked", "in_progress", "completed", "cancelled"}
      [] scope \in {"created", "team"} ->
            Attention(t)
            \/ t.status \in {"in_review", "blocked", "in_progress", "completed", "cancelled"}
      [] scope = "focus" ->
            Late(t) \/ DueToday(t) \/ New(t)
            \/ t.status \in {"blocked", "in_review", "in_progress"}
      [] scope = "manager_inbox" ->
            t.status \in {"in_review", "blocked"} \/ t.pending
            \/ (~Closed(t) /\ (t.due \in {"past", "today"} \/ t.stale))

(***************************************************************************)
(* The pages.                                                              *)
(***************************************************************************)
Greatest(n, set) == {i \in set : Cardinality({j \in set : j > i}) < n}

Belonging == {i \in ListTasks : rows[i].belongs}

\* WHERE ... AND task_uid < cursor ORDER BY task_uid DESC LIMIT page size.
Page == Greatest(PageSize, {i \in Belonging : i < cursor})

\* The list, or more of it; the button for more is there as long as the page had a task.
ShowPage ==
    /\ walking
    /\ listed' = listed \cup Page
    /\ repeated' = (repeated \/ listed \cap Page # {})
    /\ shown' = shown \cup {i \in Page : InASection(rows[i].shape)}
    /\ walking' = (Page # {})
    /\ cursor' = IF Page = {} THEN cursor ELSE CHOOSE i \in Page : \A j \in Page : i <= j
    /\ UNCHANGED <<scope, rows, steady, moves>>

ListNext == ShowPage \/ \E i \in ListTasks : Move(i)

ListSpec == ListInit /\ [][ListNext]_listVars

(***************************************************************************)
(* Properties.                                                             *)
(***************************************************************************)

\* Whatever happens to the tasks during a walk, none is listed on two of its pages; and a walk to
\* the end of a list passes nothing over: every task that was in the list all the time, and every
\* open one in the list of what to do now, was under some heading of some page.  (The manager's
\* inbox leaves tasks out on purpose.)
ListedExactlyOnce ==
    /\ ~repeated
    /\ ~walking /\ scope # "manager_inbox" =>
         \A i \in steady \ shown : scope = "focus" /\ Closed(rows[i].shape)

=============================================================================
