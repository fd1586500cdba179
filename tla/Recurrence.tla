----------------------------- MODULE Recurrence ------------------------------
(***************************************************************************)
(* ProcessRecurrenceRulesUseCase, the worker that turns the firings of a   *)
(* rule's schedule into tasks.                                             *)
(*                                                                         *)
(* A tick lists the due rules, the longest due first and at most TickLimit *)
(* of them, and takes them one by one: it loads the template, creates a    *)
(* task under a key made of the rule and the instant the tick began, and   *)
(* advances the rule to its first firing after that instant.  A rule whose *)
(* template is of no use is advanced without a task.  Every call may fail  *)
(* and the process may stop between any two; the rules and tasks stay.     *)
(***************************************************************************)
EXTENDS Naturals, FiniteSets, FiniteSetsExt

CONSTANTS
  Rules,
  None,
  Horizon,    \* bound on time
  TickLimit,  \* MAX_RULES_PER_TICK
  MaxToggles, \* bound on switching the flag
  MaxFaults   \* bound on failing calls and process stops

Time == 0 .. Horizon

ASSUME NoneAssumption == None \notin Time /\ None \notin Rules
ASSUME TickLimitAssumption == TickLimit \in Nat \ {0}
ASSUME BoundsAssumption == Horizon \in Nat /\ MaxToggles \in Nat /\ MaxFaults \in Nat

VARIABLES
  now,
  enabled,   \* the recurrence_rules feature flag
  schedule,  \* of each rule: its firings
  template,  \* of each rule: usable or not
  next,      \* of each rule: next_run_at
  tasks,     \* the source keys of the tasks created: rule and instant
  tick,      \* the running tick
  made,      \* history: which firing each task was created for
  passed,    \* history: firings a rule was advanced past
  failed,    \* history: firings whose task could not be created
  cut,       \* history: firings whose rule was not advanced after its task
  toggles, faults  \* history: what the bounds count

History == <<made, passed, failed, cut>>

Bounds == <<toggles, faults>>

vars == <<now, enabled, schedule, template, next, tasks, tick, History, Bounds>>

-----------------------------------------------------------------------------
(* Data *)

\* Mutant: the first firing at or after the instant, as the comment on next_fire_after
\* (recurrence.rs:138) has it; the code asks for a later one.
NextFireFrom(r, t) ==
  LET later == {f \in schedule[r] : f >= t} IN IF later = {} THEN None ELSE Min(later)

\* CronExpression::next_fire_after; None if there is no later firing or the
\* expression or the time zone cannot be read.
NextFireAfter(r, t) ==
  LET later == {f \in schedule[r] : f > t} IN IF later = {} THEN None ELSE Min(later)

Due == {r \in Rules : next[r] # None /\ next[r] <= now}

\* The first TickLimit due rules in the order of next_run_at.
Listed ==
  {S \in SUBSET Due :
     /\ Cardinality(S) = IF Cardinality(Due) <= TickLimit THEN Cardinality(Due)
                         ELSE TickLimit
     /\ \A r \in S, q \in Due \ S : next[r] <= next[q]}

Idle == [step |-> "idle", at |-> 0, todo |-> {}, rule |-> None]

\* A firing is known by its rule and its time.
Firing(r) == <<r, next[r]>>

-----------------------------------------------------------------------------
\* Rules and templates are put into the database by an operator.
Init ==
  /\ now = 0
  /\ enabled = "on"
  /\ schedule \in [Rules -> SUBSET (Time \ {0})]
  /\ template \in [Rules -> {"usable", "unusable"}]
  /\ next = [r \in Rules |-> IF schedule[r] = {} THEN None ELSE Min(schedule[r])]
  /\ tasks = {}
  /\ tick = Idle
  /\ made = {} /\ passed = {} /\ failed = {} /\ cut = {}
  /\ toggles = 0 /\ faults = 0

Setting == <<enabled, schedule, template>>

\* The flag is turned off or on in the admin panel.
Toggle ==
  /\ toggles < MaxToggles
  /\ toggles' = toggles + 1
  /\ enabled' = IF enabled = "on" THEN "off" ELSE "on"
  /\ UNCHANGED <<now, schedule, template, next, tasks, tick, History, faults>>

\* Time passes, also while the process is down or a tick is under way.
TimePasses ==
  /\ now < Horizon
  /\ now' = now + 1
  /\ UNCHANGED <<Setting, next, tasks, tick, History, Bounds>>

-----------------------------------------------------------------------------
(* The worker *)

StartTick ==
  /\ tick.step = "idle"
  /\ enabled = "on"
  /\ Due # {}
  /\ \E S \in Listed :
       tick' = [step |-> "next", at |-> now, todo |-> S, rule |-> None]
  /\ UNCHANGED <<now, Setting, next, tasks, History, Bounds>>

EndTick ==
  /\ tick.step = "next" /\ tick.todo = {}
  /\ tick' = Idle
  /\ UNCHANGED <<now, Setting, next, tasks, History, Bounds>>

\* The rules are taken in the order they were listed in.
IsNext(r) ==
  /\ tick.step = "next"
  /\ r \in tick.todo
  /\ \A q \in tick.todo : next[r] <= next[q]

Take(r, step) ==
  tick' = [tick EXCEPT !.step = step, !.todo = @ \ {r},
                       !.rule = IF step = "next" THEN None ELSE r]

\* A rule with a useless template that stays due, for a mutant.
LoadTemplateRetrying(r) ==
  /\ IsNext(r)
  /\ Take(r, IF template[r] = "usable" THEN "create" ELSE "next")
  /\ UNCHANGED <<now, Setting, next, tasks, History, Bounds>>

\* get_template and decode_template_body
LoadTemplate(r) ==
  /\ IsNext(r)
  /\ Take(r, IF template[r] = "usable" THEN "create" ELSE "advance")
  /\ UNCHANGED <<now, Setting, next, tasks, History, Bounds>>

Proceed(step) ==
  tick' = [tick EXCEPT !.step = step, !.rule = IF step = "next" THEN None ELSE @]

\* TaskRepository::create_if_absent: a second task of the same key is not created.
CreateTask ==
  /\ tick.step = "create"
  /\ tasks' = tasks \cup {<<tick.rule, tick.at>>}
  /\ made' = IF <<tick.rule, tick.at>> \in tasks THEN made
             ELSE made \cup {<<Firing(tick.rule), tick.at>>}
  /\ Proceed("created")
  /\ UNCHANGED <<now, Setting, next, passed, failed, cut, Bounds>>

\* The rule is advanced from the firing it was due for, for a mutant.
AdvanceFromFiring ==
  /\ tick.step \in {"created", "advance"}
  /\ next' = [next EXCEPT ![tick.rule] = NextFireAfter(tick.rule, next[tick.rule])]
  /\ passed' = passed \cup {Firing(tick.rule)}
  /\ Proceed("next")
  /\ UNCHANGED <<now, Setting, tasks, made, failed, cut, Bounds>>

\* advance_rule
Advance ==
  /\ tick.step \in {"created", "advance"}
  /\ next' = [next EXCEPT ![tick.rule] = NextFireAfter(tick.rule, tick.at)]
  /\ passed' = passed \cup {Firing(tick.rule)}
  /\ Proceed("next")
  /\ UNCHANGED <<now, Setting, tasks, made, failed, cut, Bounds>>

-----------------------------------------------------------------------------
(* Faults *)

Fault ==
  /\ faults < MaxFaults
  /\ faults' = faults + 1
  /\ UNCHANGED toggles

\* get_template fails and the rule is advanced all the same, for a mutant.
LoadFailsAdvancing(r) ==
  /\ Fault
  /\ IsNext(r)
  /\ Take(r, "advance")
  /\ UNCHANGED <<now, Setting, next, tasks, History>>

\* get_template fails: the rule stays due.
LoadFails(r) ==
  /\ Fault
  /\ IsNext(r)
  /\ Take(r, "next")
  /\ UNCHANGED <<now, Setting, next, tasks, History>>

\* create_if_absent fails: the rule is advanced without a task.
CreateFails ==
  /\ Fault
  /\ tick.step = "create"
  /\ failed' = failed \cup {Firing(tick.rule)}
  /\ Proceed("advance")
  /\ UNCHANGED <<now, Setting, next, tasks, made, passed, cut>>

Unadvanced ==
  cut' = IF tick.step = "created" THEN cut \cup {<<Firing(tick.rule), tick.at>>} ELSE cut

\* advance_rule fails: the rule stays due.
AdvanceFails ==
  /\ Fault
  /\ tick.step \in {"created", "advance"}
  /\ Unadvanced
  /\ Proceed("next")
  /\ UNCHANGED <<now, Setting, next, tasks, made, passed, failed>>

\* The process stops.
Restart ==
  /\ Fault
  /\ tick.step # "idle"
  /\ Unadvanced
  /\ tick' = Idle
  /\ UNCHANGED <<now, Setting, next, tasks, made, passed, failed>>

-----------------------------------------------------------------------------
Worker ==
  \/ StartTick \/ EndTick
  \/ \E r \in tick.todo : LoadTemplate(r)
  \/ CreateTask \/ Advance

Next ==
  \/ TimePasses \/ Toggle
  \/ Worker
  \/ \E r \in tick.todo : LoadFails(r)
  \/ CreateFails \/ AdvanceFails \/ Restart

\* The ticker fires, every call returns, and time passes.
Fairness == WF_vars(Worker) /\ WF_vars(TimePasses)

Spec == Init /\ [][Next]_vars /\ Fairness

-----------------------------------------------------------------------------
(* Properties *)

TypeOK ==
  /\ now \in Time
  /\ enabled \in {"on", "off"}
  /\ schedule \in [Rules -> SUBSET Time]
  /\ template \in [Rules -> {"usable", "unusable"}]
  /\ next \in [Rules -> Time \cup {None}]
  /\ tasks \subseteq Rules \X Time
  /\ tick \in [step : {"idle", "next", "create", "created", "advance"},
               at : Time, todo : SUBSET Rules, rule : Rules \cup {None}]
  /\ made \subseteq (Rules \X Time) \X Time
  /\ passed \subseteq Rules \X Time
  /\ failed \subseteq Rules \X Time
  /\ cut \subseteq (Rules \X Time) \X Time
  /\ toggles \in Nat /\ faults \in Nat

TasksOf(f) == {m \in made : m[1] = f}

\* A firing gives a second task only after a fault between creating a task for it
\* and advancing its rule, and never a task before its time.
RepeatedOnlyByFault ==
  /\ \A f \in Rules \X Time :
       Cardinality(TasksOf(f)) <= 1 + Cardinality({c \in cut : c[1] = f})
  /\ \A m \in made : m[1][2] <= m[2]

\* A rule is advanced past a firing only with a task for it, unless the template is
\* of no use or the task could not be created.
FiringsAreAnswered ==
  \A f \in passed :
    TasksOf(f) # {} \/ f \in failed \/ template[f[1]] = "unusable"

\* The firings a rule has behind it.
Behind(r) == {f \in schedule[r] : next[r] = None \/ f < next[r]}

\* Of the firings a rule was advanced from, the last at or before f.
IsStandBefore(g, r, f) ==
  /\ g \in passed /\ g[1] = r /\ g[2] <= f
  /\ \A h \in passed : h[1] = r /\ h[2] <= f => h[2] <= g[2]

\* A task stands for the firings from its own up to the tick that made it.
NoneMissed ==
  \A r \in Rules : \A f \in Behind(r) :
    \E g \in passed :
      /\ IsStandBefore(g, r, f)
      /\ \/ template[r] = "unusable" \/ g \in failed
         \/ \E m \in TasksOf(g) : f <= m[2]

NoneTwice ==
  \A m, n \in made :
    m[1][1] = n[1][1] /\ m[2] < n[2] => n[1][2] > m[2] \/ (n[1] = m[1] /\ m \in cut)

\* A rule that missed firings, because ticks came late or not at all, makes up for them with
\* one task: each firing it has behind it is among those of the task it was then at (unless the
\* template was of no use or the task could not be created), and no later task begins among
\* those of an earlier one, except where a fault kept the rule at its firing.
CatchesUpOnce == NoneMissed /\ NoneTwice

\* A rule that is due is advanced in the end, as long as the flag is on.
DueIsServed ==
  \A r \in Rules, t \in Time :
    r \in Due /\ next[r] = t ~> <<r, t>> \in passed \/ enabled = "off"

=============================================================================
