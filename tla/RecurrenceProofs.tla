-------------------------- MODULE RecurrenceProofs --------------------------
(***************************************************************************)
(* Theorems about Recurrence for any rules, schedules, limits and number   *)
(* of faults.                                                              *)
(***************************************************************************)
EXTENDS Recurrence, FiniteSetTheorems, WellFoundedInduction, TLAPS

LEMMA SmallestExists ==
  ASSUME NEW T, T \subseteq Nat, T # {}
  PROVE  \E x \in T : \A y \in T : x <= y
<1> DEFINE R == {ss \in Nat \X Nat : ss[1] < ss[2]}
<1>1. IsWellFoundedOn(R, Nat)
  BY NatLessThanWellFounded DEF OpToRel
<1> HIDE DEF R
<1>2. PICK x \in T : \A y \in T : ~ (<<y, x>> \in R)
  BY <1>1, WFMin
<1>3. \A y \in T : ~ (y < x)
  BY <1>2 DEF R
<1> QED
  BY <1>3

LEMMA MinIsIn ==
  ASSUME NEW T, T \subseteq Nat, T # {}
  PROVE  Min(T) \in T
BY SmallestExists DEF Min

\* The next firing after t, if there is one, is one of the schedule and later than t.
LEMMA NextIsLater ==
  ASSUME NEW r \in Rules, NEW t \in Time, schedule \in [Rules -> SUBSET Time]
  PROVE  /\ NextFireAfter(r, t) \in Time \cup {None}
         /\ NextFireAfter(r, t) # None => NextFireAfter(r, t) > t
<1> DEFINE later == {f \in schedule[r] : f > t}
<1>1. later \subseteq Time
  OBVIOUS
<1>2. CASE later = {}
  BY <1>2, NoneAssumption DEF NextFireAfter
<1>3. CASE later # {}
  <2>1. Min(later) \in later
    BY <1>1, <1>3, MinIsIn DEF Time
  <2> QED
    BY <1>1, <1>3, <2>1 DEF NextFireAfter
<1> QED
  BY <1>2, <1>3

Busy == tick.step \in {"create", "created", "advance"}

\* A tick works on rules that were due when it began, each of them once.
TickHolds ==
  /\ tick.at <= now
  /\ \A r \in tick.todo : next[r] \in Time /\ next[r] <= tick.at
  /\ Busy => /\ tick.rule \in Rules /\ tick.rule \notin tick.todo
             /\ next[tick.rule] \in Time /\ next[tick.rule] <= tick.at

\* The key of a task is that of a tick that began before. Its rule was advanced since, or the
\* task is for the firing the rule is still at.
KeysKnown ==
  \A k \in tasks :
    /\ k[2] <= now
    /\ tick.step # "idle" => k[2] <= tick.at
    /\ next[k[1]] = None \/ next[k[1]] > k[2] \/ <<<<k[1], next[k[1]]>>, k[2]>> \in made

\* What a tick is about to advance past.
Answered ==
  /\ tick.step = "created" => <<Firing(tick.rule), tick.at>> \in made
  /\ tick.step = "advance" => Firing(tick.rule) \in failed \/ template[tick.rule] = "unusable"

\* Apart from those a fault cut short, a firing has one task, and its rule is past it or is
\* about to be.
Uncut ==
  /\ \A m \in made \ cut :
       \/ next[m[1][1]] = None
       \/ next[m[1][1]] > m[1][2]
       \/ tick.step = "created" /\ m = <<Firing(tick.rule), tick.at>>
  /\ \A m, n \in made \ cut : m[1] = n[1] => m = n

InTime == \A m \in made : m[1][2] <= m[2]

Finite == IsFiniteSet(made) /\ IsFiniteSet(cut)

\* The strengthening that is inductive.
RecInv == TypeOK /\ TickHolds /\ KeysKnown /\ Answered /\ Uncut /\ InTime /\ Finite /\ FiringsAreAnswered

-----------------------------------------------------------------------------

LEMMA RecInit == Init => RecInv
<1> SUFFICES ASSUME Init PROVE RecInv
  OBVIOUS
<1> USE DEF Init, Idle
<1>1. 0 \in Time /\ Time \subseteq Nat
  BY BoundsAssumption DEF Time
<1>2. next \in [Rules -> Time \cup {None}]
  <2>1. \A r \in Rules : schedule[r] # {} => Min(schedule[r]) \in schedule[r]
    BY <1>1, MinIsIn
  <2> QED
    BY <2>1
<1>3. TypeOK
  BY <1>1, <1>2 DEF TypeOK
<1>4. TickHolds /\ KeysKnown /\ Answered /\ Uncut /\ InTime /\ FiringsAreAnswered
  BY <1>1 DEF TickHolds, Busy, KeysKnown, Answered, Uncut, InTime, FiringsAreAnswered
<1>5. Finite
  BY FS_EmptySet DEF Finite
<1> QED
  BY <1>3, <1>4, <1>5 DEF RecInv

\* A step that leaves the data alone needs the conditions on the tick only.
LEMMA DataStays ==
  ASSUME RecInv, TypeOK', TickHolds', UNCHANGED <<Setting, next, tasks, made, passed>>,
         now <= now', failed \subseteq failed',
         tick'.step # "idle" => \A k \in tasks : k[2] <= tick'.at,
         tick'.step # "created",
         tick'.step = "advance" => \/ Firing(tick'.rule) \in failed'
                                   \/ template[tick'.rule] = "unusable",
         cut' = cut \/ (tick.step = "created" /\ cut' = cut \cup {<<Firing(tick.rule), tick.at>>}),
         tick.step = "created" => cut' # cut \/ <<Firing(tick.rule), tick.at>> \in cut
  PROVE  RecInv'
<1>0. made \subseteq (Rules \X Time) \X Time /\ now \in Nat /\ now' \in Nat /\ Time \subseteq Nat
  BY BoundsAssumption DEF RecInv, TypeOK, Time
<1>1. KeysKnown'
  BY <1>0 DEF RecInv, KeysKnown, TypeOK, Time
<1>2. Answered'
  BY DEF RecInv, Answered, Firing, Setting
<1>3. Uncut'
  BY DEF RecInv, Uncut, Firing
<1>4. InTime'
  BY DEF RecInv, InTime
<1>5. Finite'
  BY FS_AddElement DEF RecInv, Finite
<1>6. FiringsAreAnswered'
  BY DEF RecInv, FiringsAreAnswered, TasksOf, Setting
<1> QED
  BY <1>1, <1>2, <1>3, <1>4, <1>5, <1>6 DEF RecInv

Steps == {"next", "create", "created", "advance"}

Ticks == [step : {"idle"} \cup Steps, at : Time, todo : SUBSET Rules, rule : Rules \cup {None}]

LEMMA KeyTypes ==
  ASSUME TypeOK
  PROVE  /\ \A k \in tasks : k[1] \in Rules /\ k[2] \in Time /\ k[2] \in Nat /\ k = <<k[1], k[2]>>
         /\ \A m \in made : /\ m[1][1] \in Rules /\ m[1][2] \in Time /\ m[1][2] \in Nat
                            /\ m[2] \in Time /\ m = <<<<m[1][1], m[1][2]>>, m[2]>>
BY BoundsAssumption DEF TypeOK, Time

LEMMA ProceedFields ==
  ASSUME NEW step \in Steps, TypeOK, Proceed(step)
  PROVE  /\ tick'.step = step /\ tick'.at = tick.at /\ tick'.todo = tick.todo
         /\ step # "next" => tick'.rule = tick.rule
         /\ tick' \in Ticks
<1>1. tick \in Ticks
  BY DEF TypeOK, Ticks, Steps
<1>2. CASE step = "next"
  BY <1>1, <1>2 DEF Proceed, Ticks
<1>3. CASE step # "next"
  BY <1>1, <1>3 DEF Proceed, Ticks
<1> QED
  BY <1>2, <1>3

LEMMA TakeFields ==
  ASSUME NEW step \in Steps, TypeOK, NEW r \in Rules, Take(r, step)
  PROVE  /\ tick'.step = step /\ tick'.at = tick.at /\ tick'.todo = tick.todo \ {r}
         /\ step # "next" => tick'.rule = r
         /\ tick' \in Ticks
<1>1. tick \in Ticks
  BY DEF TypeOK, Ticks, Steps
<1>2. CASE step = "next"
  BY <1>1, <1>2 DEF Take, Ticks
<1>3. CASE step # "next"
  BY <1>1, <1>3 DEF Take, Ticks
<1> QED
  BY <1>2, <1>3

\* A rule of the tick is taken from the list.
LEMMA TakeStep ==
  ASSUME RecInv, NEW r \in tick.todo, NEW step \in {"next", "create", "advance"}, IsNext(r),
         Take(r, step), step = "advance" => template[r] = "unusable",
         UNCHANGED <<now, Setting, next, tasks, History>>, toggles' \in Nat, faults' \in Nat
  PROVE  RecInv'
<1>0. TypeOK /\ r \in Rules /\ next[r] \in Time /\ step \in Steps /\ tick.step = "next"
      /\ now \in Nat /\ tick.at \in Time
  BY BoundsAssumption DEF RecInv, TypeOK, TickHolds, Steps, IsNext, Time
<1>1. /\ tick'.step = step /\ tick'.at = tick.at /\ tick'.todo = tick.todo \ {r}
      /\ step # "next" => tick'.rule = r
      /\ tick' \in Ticks
  BY <1>0, TakeFields
<1>2. TypeOK'
  BY <1>0, <1>1 DEF TypeOK, Ticks, Steps, Setting, History
<1>3. TickHolds'
  BY <1>0, <1>1 DEF RecInv, TickHolds, Busy
<1>4. \A k \in tasks : k[2] <= tick'.at
  BY <1>0, <1>1 DEF RecInv, KeysKnown
<1>5. tick'.step # "created"
  BY <1>1
<1>6. tick'.step = "advance" => template[tick'.rule] = "unusable"
  BY <1>1
<1>7. tick.step # "created" /\ cut' = cut /\ failed \subseteq failed' /\ now <= now'
  BY <1>0 DEF History
<1>8. UNCHANGED <<Setting, next, tasks, made, passed>>
  BY DEF History
<1> QED
  BY <1>2, <1>3, <1>4, <1>5, <1>6, <1>7, <1>8, DataStays

\* The tick ends, early or not, or goes on to the next rule without having advanced this one.
LEMMA GiveUpStep ==
  ASSUME RecInv, tick' = Idle \/ Proceed("next"), tick.step # "created" => cut' = cut,
         Unadvanced, tick.step # "idle",
         UNCHANGED <<now, Setting, next, tasks, made, passed, failed>>, toggles' \in Nat,
         faults' \in Nat
  PROVE  RecInv'
<1>0. TypeOK /\ tick.at \in Time /\ now \in Nat /\ 0 \in Time /\ "next" \in Steps
  BY BoundsAssumption DEF RecInv, TypeOK, Time, Steps
<1>1. tick' \in Ticks
  BY <1>0, ProceedFields DEF Ticks, Idle
<1>2. tick' = Idle \/ (tick'.step = "next" /\ tick'.at = tick.at /\ tick'.todo = tick.todo)
  BY <1>0, ProceedFields
<1>3. cut' = cut \/ (tick.step = "created" /\ cut' = cut \cup {<<Firing(tick.rule), tick.at>>})
  BY DEF Unadvanced
<1>4. cut' \subseteq (Rules \X Time) \X Time
  BY <1>0, <1>3 DEF RecInv, TypeOK, TickHolds, Busy, Firing
<1>5. TypeOK'
  BY <1>0, <1>1, <1>4 DEF TypeOK, Ticks, Steps, Setting
<1>6. TickHolds'
  BY <1>0, <1>2 DEF RecInv, TickHolds, Busy, Idle, Time
<1>7. tick.step = "created" => cut' # cut \/ <<Firing(tick.rule), tick.at>> \in cut
  BY DEF Unadvanced
<1>8. tick'.step \notin {"created", "advance"}
  BY <1>2 DEF Idle
<1>9. tick'.step # "idle" => \A k \in tasks : k[2] <= tick'.at
  <2>1. CASE tick' = Idle
    BY <2>1 DEF Idle
  <2>2. CASE tick'.at = tick.at
    BY <2>2 DEF RecInv, KeysKnown
  <2> QED
    BY <1>2, <2>1, <2>2
<1> QED
  BY <1>0, <1>3, <1>5, <1>6, <1>7, <1>8, <1>9, DataStays

LEMMA CreateTaskStep == ASSUME RecInv, CreateTask PROVE RecInv'
<1> DEFINE r == tick.rule
           f == <<Firing(r), tick.at>>
<1>0. /\ TypeOK /\ r \in Rules /\ next[r] \in Time /\ next[r] <= tick.at /\ tick.at \in Time
      /\ tick.at <= now /\ now \in Nat /\ Time \subseteq Nat /\ "created" \in Steps
      /\ tick.step = "create"
  BY BoundsAssumption DEF RecInv, TypeOK, TickHolds, Busy, Time, Steps, CreateTask
<1>1. tick'.step = "created" /\ tick'.at = tick.at /\ tick'.todo = tick.todo /\ tick'.rule = r
      /\ tick' \in Ticks
  BY <1>0, ProceedFields DEF CreateTask
<1>2. /\ tasks' = tasks \cup {<<r, tick.at>>}
      /\ UNCHANGED <<now, Setting, next, passed, failed, cut, Bounds>>
  BY DEF CreateTask
<1>00. /\ next[r] # None /\ next[r] \in Nat /\ tick.at \in Nat /\ ~ (next[r] > tick.at)
       /\ ~ (next[r] > next[r])
  <2>1. next[r] # None
    BY <1>0, NoneAssumption
  <2>2. next[r] \in Nat /\ tick.at \in Nat
    BY <1>0
  <2>3. \A a, b \in Nat : a <= b => ~ (a > b) /\ ~ (a > a)
    OBVIOUS
  <2> QED
    BY <1>0, <2>1, <2>2, <2>3
<1>3. CASE <<r, tick.at>> \in tasks
  <2>1. made' = made /\ tasks' = tasks
    BY <1>2, <1>3 DEF CreateTask
  <2>2. f \in made
    <3>1. \/ next[r] = None \/ next[r] > tick.at \/ <<<<r, next[r]>>, tick.at>> \in made
      BY <1>3 DEF RecInv, KeysKnown
    <3>2. next[r] # None /\ ~ (next[r] > tick.at)
      BY <1>00
    <3> QED
      BY <3>1, <3>2 DEF Firing
  <2>3. TypeOK' /\ TickHolds' /\ KeysKnown'
    BY <1>0, <1>1, <1>2, <2>1
       DEF RecInv, TypeOK, Ticks, Steps, TickHolds, Busy, KeysKnown, Setting, Bounds
  <2>4. Answered' /\ Uncut'
    BY <1>0, <1>1, <1>2, <2>1, <2>2 DEF RecInv, Answered, Uncut, Firing
  <2>5. InTime' /\ Finite' /\ FiringsAreAnswered'
    BY <1>2, <2>1 DEF RecInv, InTime, Finite, FiringsAreAnswered, TasksOf, Setting
  <2> QED
    BY <2>3, <2>4, <2>5 DEF RecInv
<1>4. CASE <<r, tick.at>> \notin tasks
  <2>1. made' = made \cup {f}
    BY <1>4 DEF CreateTask
  <2>2. f \in (Rules \X Time) \X Time /\ f[1] = <<r, next[r]>> /\ f[2] = tick.at
    BY <1>0 DEF Firing
  <2>3. TypeOK' /\ TickHolds'
    BY <1>0, <1>1, <1>2, <2>1, <2>2
       DEF RecInv, TypeOK, Ticks, Steps, TickHolds, Busy, Setting, Bounds
  <2>4. KeysKnown'
    <3> SUFFICES ASSUME NEW k \in tasks'
                 PROVE  /\ k[2] <= now' /\ k[2] <= tick'.at
                        /\ \/ next'[k[1]] = None \/ next'[k[1]] > k[2]
                           \/ <<<<k[1], next'[k[1]]>>, k[2]>> \in made'
      BY DEF KeysKnown
    <3>1. CASE k \in tasks
      BY <1>0, <1>1, <1>2, <2>1, <3>1 DEF RecInv, KeysKnown
    <3>2. CASE k = <<r, tick.at>>
      <4>1. k[1] = r /\ k[2] = tick.at
        BY <3>2
      <4>2. <<<<r, next'[r]>>, tick.at>> \in made'
        BY <1>2, <2>1 DEF Firing
      <4> QED
        <5>1. k[2] <= now' /\ k[2] <= tick'.at
          BY <1>0, <1>00, <1>1, <1>2, <4>1
        <5> QED
          BY <4>1, <4>2, <5>1
    <3> QED
      BY <1>2, <3>1, <3>2
  <2>5. Answered'
    BY <1>0, <1>1, <1>2, <2>1 DEF Answered, Firing
  <2>6. \A m \in made \ cut : next[m[1][1]] = None \/ next[m[1][1]] > m[1][2]
    BY <1>0 DEF RecInv, Uncut
  <2>7. \A m \in made \ cut : m[1] # f[1]
    <3> SUFFICES ASSUME NEW m \in made \ cut, m[1] = f[1] PROVE FALSE
      OBVIOUS
    <3>1. m[1][1] = r /\ m[1][2] = next[r]
      BY <2>2
    <3>2. next[r] = None \/ next[r] > next[r]
      BY <2>6, <3>1
    <3> QED
      BY <1>00, <3>2
  <2>8. Uncut'
    BY <1>1, <1>2, <2>1, <2>6, <2>7 DEF RecInv, Uncut, Firing
  <2>9. InTime' /\ Finite'
    BY <1>0, <2>1, <2>2, <1>2, FS_AddElement DEF RecInv, InTime, Finite
  <2>10. FiringsAreAnswered'
    BY <1>2, <2>1 DEF RecInv, FiringsAreAnswered, TasksOf, Setting
  <2> QED
    BY <2>3, <2>4, <2>5, <2>8, <2>9, <2>10 DEF RecInv
<1> QED
  BY <1>3, <1>4

\* A rule moves on, past the beginning of the tick.
LEMMA AdvanceMovesOn ==
  ASSUME RecInv, Advance
  PROVE  /\ tick.rule \in Rules /\ next[tick.rule] \in Time /\ tick.at \in Time
         /\ next[tick.rule] <= tick.at
         /\ next' \in [Rules -> Time \cup {None}]
         /\ \A r \in Rules \ {tick.rule} : next'[r] = next[r]
         /\ next'[tick.rule] # None => next'[tick.rule] > tick.at
<1>1. /\ tick.rule \in Rules /\ next[tick.rule] \in Time /\ tick.at \in Time
      /\ next[tick.rule] <= tick.at /\ next \in [Rules -> Time \cup {None}]
      /\ schedule \in [Rules -> SUBSET Time]
      /\ next' = [next EXCEPT ![tick.rule] = NextFireAfter(tick.rule, tick.at)]
  BY DEF RecInv, TypeOK, TickHolds, Busy, Advance
<1> QED
  BY <1>1, NextIsLater

LEMMA AdvanceStep == ASSUME RecInv, Advance PROVE RecInv'
<1> DEFINE r == tick.rule
<1>0. /\ TypeOK /\ now \in Nat /\ Time \subseteq Nat /\ "next" \in Steps /\ tick.at <= now
      /\ tick.step \in {"created", "advance"} /\ r \notin tick.todo
  BY BoundsAssumption DEF RecInv, TypeOK, TickHolds, Busy, Time, Steps, Advance
<1>1. tick'.step = "next" /\ tick'.at = tick.at /\ tick'.todo = tick.todo /\ tick' \in Ticks
  BY <1>0, ProceedFields DEF Advance
<1>2. /\ r \in Rules /\ next[r] \in Time /\ tick.at \in Time /\ next[r] <= tick.at
      /\ next' \in [Rules -> Time \cup {None}]
      /\ \A q \in Rules \ {r} : next'[q] = next[q]
      /\ next'[r] # None => next'[r] > tick.at
  BY AdvanceMovesOn
<1>3. /\ passed' = passed \cup {Firing(r)}
      /\ UNCHANGED <<now, Setting, tasks, made, failed, cut, Bounds>>
  BY DEF Advance
<1>4. TypeOK'
  BY <1>0, <1>1, <1>2, <1>3 DEF TypeOK, Ticks, Steps, Setting, Bounds, Firing
<1>5. TickHolds'
  BY <1>0, <1>1, <1>2, <1>3 DEF RecInv, TickHolds, Busy, TypeOK
<1>6. KeysKnown'
  <2> SUFFICES ASSUME NEW k \in tasks
               PROVE  /\ k[2] <= now /\ k[2] <= tick.at
                      /\ \/ next'[k[1]] = None \/ next'[k[1]] > k[2]
                         \/ <<<<k[1], next'[k[1]]>>, k[2]>> \in made
    BY <1>1, <1>3 DEF KeysKnown
  <2>1. k[1] \in Rules /\ k[2] \in Time /\ k[2] <= now /\ k[2] <= tick.at
    BY <1>0 DEF RecInv, KeysKnown, TypeOK
  <2>2. CASE k[1] = r
    <3>1. CASE next'[r] = None
      BY <2>1, <2>2, <3>1
    <3>2. CASE next'[r] # None
      <4>1. next'[r] \in Nat /\ tick.at \in Nat /\ k[2] \in Nat
        BY <1>0, <1>2, <2>1, <3>2
      <4> QED
        BY <1>2, <2>1, <2>2, <3>2, <4>1
    <3> QED
      BY <3>1, <3>2
  <2>3. CASE k[1] # r
    BY <1>2, <2>1, <2>3 DEF RecInv, KeysKnown
  <2> QED
    BY <2>1, <2>2, <2>3
<1>7. Answered'
  BY <1>1 DEF Answered
<1>8. Uncut'
  <2>1. ASSUME NEW m \in made \ cut PROVE next'[m[1][1]] = None \/ next'[m[1][1]] > m[1][2]
    <3>1. m[1][1] \in Rules /\ m[1][2] \in Time
      BY DEF RecInv, TypeOK
    <3>2. CASE m[1][1] = r
      <4>1. m[1][2] <= tick.at
        <5>1. \/ next[r] = None \/ next[r] > m[1][2] \/ m = <<<<r, next[r]>>, tick.at>>
          BY <3>2 DEF RecInv, Uncut, Firing
        <5>2. m = <<<<r, next[r]>>, tick.at>> => m[1][2] = next[r]
          OBVIOUS
        <5>3. next[r] \in Nat /\ tick.at \in Nat /\ m[1][2] \in Nat /\ next[r] # None
          BY <1>0, <1>2, <3>1, NoneAssumption
        <5> QED
          BY <1>2, <5>1, <5>2, <5>3
      <4> QED
        <5>1. CASE next'[r] = None
          BY <3>2, <5>1
        <5>2. CASE next'[r] # None
          <6>1. next'[r] \in Nat /\ tick.at \in Nat /\ m[1][2] \in Nat
            BY <1>0, <1>2, <3>1, <5>2
          <6> QED
            BY <1>2, <3>2, <4>1, <5>2, <6>1
        <5> QED
          BY <5>1, <5>2
    <3>3. CASE m[1][1] # r
      BY <1>2, <3>1, <3>3 DEF RecInv, Uncut, Firing
    <3> QED
      BY <3>2, <3>3
  <2> QED
    BY <1>3, <2>1 DEF RecInv, Uncut
<1>9. InTime' /\ Finite'
  BY <1>3 DEF RecInv, InTime, Finite
<1>10. FiringsAreAnswered'
  BY <1>0, <1>3 DEF RecInv, Answered, FiringsAreAnswered, TasksOf, Firing, Setting
<1> QED
  BY <1>4, <1>5, <1>6, <1>7, <1>8, <1>9, <1>10 DEF RecInv

LEMMA CreateFailsStep == ASSUME RecInv, CreateFails PROVE RecInv'
<1>0. /\ TypeOK /\ now \in Nat /\ tick.at \in Time /\ "advance" \in Steps /\ tick.step = "create"
      /\ tick.rule \in Rules /\ next[tick.rule] \in Time /\ faults \in Nat
  BY BoundsAssumption DEF RecInv, TypeOK, TickHolds, Busy, Time, Steps, CreateFails
<1>1. tick'.step = "advance" /\ tick'.at = tick.at /\ tick'.todo = tick.todo
      /\ tick'.rule = tick.rule /\ tick' \in Ticks
  BY <1>0, ProceedFields DEF CreateFails
<1>2. /\ failed' = failed \cup {Firing(tick.rule)} /\ faults' = faults + 1
      /\ UNCHANGED <<now, Setting, next, tasks, made, passed, cut, toggles>>
  BY DEF CreateFails, Fault
<1>3. TypeOK'
  BY <1>0, <1>1, <1>2 DEF TypeOK, Ticks, Steps, Setting, Firing
<1>4. TickHolds'
  BY <1>0, <1>1, <1>2 DEF RecInv, TickHolds, Busy
<1>5. tick'.step # "idle" => \A k \in tasks : k[2] <= tick'.at
  BY <1>0, <1>1 DEF RecInv, KeysKnown
<1>6. Firing(tick'.rule) \in failed'
  BY <1>1, <1>2 DEF Firing
<1> QED
  BY <1>0, <1>1, <1>2, <1>3, <1>4, <1>5, <1>6, DataStays

\* The tick and the rules stay.
LEMMA OutsideStep ==
  ASSUME RecInv, UNCHANGED <<schedule, template, next, tasks, tick, History>>,
         now' \in Time, now <= now', enabled' \in {"on", "off"}, toggles' \in Nat, faults' \in Nat
  PROVE  RecInv'
<1>0. Time \subseteq Nat
  BY BoundsAssumption DEF Time
<1>1. TypeOK' /\ TickHolds' /\ KeysKnown'
  <2>1. TypeOK'
    BY <1>0 DEF RecInv, TypeOK, History
  <2>2. TickHolds'
    <3>1. tick.at \in Nat /\ now \in Nat /\ now' \in Nat /\ tick.at <= now'
      <4>1. tick.at \in Time /\ now \in Time /\ tick.at <= now
        BY DEF RecInv, TypeOK, TickHolds
      <4>2. \A a, b, c \in Nat : a <= b /\ b <= c => a <= c
        OBVIOUS
      <4> QED
        BY <1>0, <4>1, <4>2
    <3> QED
      BY <3>1 DEF RecInv, TickHolds, Busy
  <2>3. KeysKnown'
    <3>1. /\ \A k \in tasks : k[2] \in Nat
          /\ now \in Nat /\ now' \in Nat
      BY <1>0, KeyTypes DEF RecInv, TypeOK
    <3> QED
      BY <3>1 DEF RecInv, KeysKnown, History
  <2> QED
    BY <2>1, <2>2, <2>3
<1>2. Answered' /\ Uncut' /\ InTime' /\ Finite' /\ FiringsAreAnswered'
  BY DEF RecInv, Answered, Uncut, InTime, Finite, FiringsAreAnswered, TasksOf, Firing, History
<1> QED
  BY <1>1, <1>2 DEF RecInv

LEMMA StartTickStep == ASSUME RecInv, StartTick PROVE RecInv'
<1>0. TypeOK /\ Time \subseteq Nat /\ now \in Time
  BY BoundsAssumption DEF RecInv, TypeOK, Time
<1>1. PICK S \in Listed : tick' = [step |-> "next", at |-> now, todo |-> S, rule |-> None]
  BY DEF StartTick
<1>2. S \subseteq Due /\ Due \subseteq Rules /\ \A r \in Due : next[r] \in Time /\ next[r] <= now
  BY <1>0 DEF Listed, Due, TypeOK
<1>3. UNCHANGED <<now, Setting, next, tasks, History, Bounds>> /\ tick.step = "idle"
  BY DEF StartTick
<1>4. TypeOK'
  BY <1>0, <1>1, <1>2, <1>3 DEF TypeOK, Setting, History, Bounds
<1>5. TickHolds'
  BY <1>0, <1>1, <1>2, <1>3 DEF TickHolds, Busy
<1>6. \A k \in tasks : k[2] <= tick'.at
  BY <1>1 DEF RecInv, KeysKnown
<1> QED
  <2>1. UNCHANGED <<Setting, next, tasks, made, passed>> /\ cut' = cut /\ failed \subseteq failed'
    BY <1>3 DEF History
  <2>2. tick'.step = "next" /\ now <= now' /\ tick.step # "created"
    BY <1>0, <1>1, <1>3
  <2> QED
    BY <1>4, <1>5, <1>6, <2>1, <2>2, DataStays

LEMMA RecStep ==
  ASSUME RecInv, [Next]_vars
  PROVE  RecInv'
<1>0. TypeOK /\ now \in Time /\ Time \subseteq Nat /\ toggles \in Nat /\ faults \in Nat
      /\ enabled \in {"on", "off"}
  BY BoundsAssumption DEF RecInv, TypeOK, Time
<1>1. CASE UNCHANGED vars
  BY <1>0, <1>1, OutsideStep DEF vars, Bounds, Setting
<1>2. CASE TimePasses
  BY <1>0, <1>2, OutsideStep, BoundsAssumption DEF TimePasses, Time, Setting, Bounds
<1>3. CASE Toggle
  BY <1>0, <1>3, OutsideStep DEF Toggle
<1>4. CASE StartTick
  BY <1>4, StartTickStep
<1>5. CASE EndTick
  <2>1. Unadvanced /\ cut' = cut /\ tick.step = "next" /\ tick' = Idle
    BY <1>5 DEF EndTick, Unadvanced, History
  <2> QED
    BY <1>0, <1>5, <2>1, GiveUpStep DEF EndTick, History, Bounds
<1>6. ASSUME NEW r \in tick.todo, LoadTemplate(r) PROVE RecInv'
  <2>1. template[r] \in {"usable", "unusable"}
    BY <1>6 DEF RecInv, TypeOK
  <2>2. CASE template[r] = "usable"
    BY <1>0, <1>6, <2>2, TakeStep DEF LoadTemplate, Bounds
  <2>3. CASE template[r] = "unusable"
    BY <1>0, <1>6, <2>3, TakeStep DEF LoadTemplate, Bounds
  <2> QED
    BY <2>1, <2>2, <2>3
<1>7. ASSUME NEW r \in tick.todo, LoadFails(r) PROVE RecInv'
  BY <1>0, <1>7, TakeStep DEF LoadFails, Fault
<1>8. CASE CreateTask
  BY <1>8, CreateTaskStep
<1>9. CASE Advance
  BY <1>9, AdvanceStep
<1>10. CASE CreateFails
  BY <1>10, CreateFailsStep
<1>11. CASE AdvanceFails
  <2>1. Unadvanced /\ Proceed("next") /\ tick.step # "idle" /\ (tick.step # "created" => cut' = cut)
    BY <1>11 DEF AdvanceFails, Unadvanced
  <2> QED
    BY <1>0, <1>11, <2>1, GiveUpStep DEF AdvanceFails, Fault
<1>12. CASE Restart
  <2>1. Unadvanced /\ tick' = Idle /\ tick.step # "idle" /\ (tick.step # "created" => cut' = cut)
    BY <1>12 DEF Restart, Unadvanced
  <2> QED
    BY <1>0, <1>12, <2>1, GiveUpStep DEF Restart, Fault
<1> QED
  BY <1>1, <1>2, <1>3, <1>4, <1>5, <1>6, <1>7, <1>8, <1>9, <1>10, <1>11, <1>12 DEF Next, Worker

LEMMA Repetitions == RecInv => RepeatedOnlyByFault
<1> SUFFICES ASSUME RecInv PROVE RepeatedOnlyByFault
  OBVIOUS
<1>1. ASSUME NEW f \in Rules \X Time
      PROVE  Cardinality(TasksOf(f)) <= 1 + Cardinality({c \in cut : c[1] = f})
  <2> DEFINE T == TasksOf(f)
             C == {c \in cut : c[1] = f}
  <2>1. IsFiniteSet(C) /\ Cardinality(C) \in Nat
    BY FS_Subset, FS_CardinalityType DEF RecInv, Finite
  <2>2. PICK x : T \subseteq C \cup {x}
    <3>1. \A m, n \in T \ C : m = n
      BY DEF RecInv, Uncut, TasksOf
    <3> QED
      BY <3>1
  <2> HIDE DEF T, C
  <2>3. /\ IsFiniteSet(C \cup {x}) /\ Cardinality(C \cup {x}) \in Nat
        /\ Cardinality(C \cup {x}) <= 1 + Cardinality(C)
    <3>1. /\ IsFiniteSet(C \cup {x})
          /\ Cardinality(C \cup {x}) = IF x \in C THEN Cardinality(C) ELSE Cardinality(C) + 1
      BY <2>1, FS_AddElement
    <3> QED
      BY <2>1, <3>1
  <2>4. Cardinality(T) <= Cardinality(C \cup {x}) /\ Cardinality(T) \in Nat
    BY <2>2, <2>3, FS_Subset, FS_CardinalityType
  <2>5. Cardinality(T) <= 1 + Cardinality(C)
    BY <2>1, <2>3, <2>4
  <2> QED
    BY <2>5 DEF T, C
<1>2. \A m \in made : m[1][2] <= m[2]
  BY DEF RecInv, InTime
<1> QED
  BY <1>1, <1>2 DEF RepeatedOnlyByFault

(* One task for what was missed *)

\* The task the tick has just made, for a rule it has not yet advanced.
IsFresh(m) == tick.step = "created" /\ m = <<Firing(tick.rule), tick.at>>

MadeHasKey == \A m \in made : <<m[1][1], m[2]>> \in tasks

\* A rule is past what its tasks stand for, or still at the firing of one that a fault left so.
SpansEnd ==
  \A m \in made :
    \/ next[m[1][1]] = None \/ next[m[1][1]] > m[2]
    \/ next[m[1][1]] = m[1][2] /\ (m \in cut \/ IsFresh(m))

PassedBehind == \A g \in passed : next[g[1]] = None \/ g[2] < next[g[1]]

CatchUpInv == MadeHasKey /\ SpansEnd /\ PassedBehind /\ CatchesUpOnce

LEMMA MinIsLeast ==
  ASSUME NEW T, T \subseteq Nat, T # {}
  PROVE  \A x \in T : Min(T) <= x
BY SmallestExists DEF Min

LEMMA CatchUpInit == Init => CatchUpInv
<1> SUFFICES ASSUME Init PROVE CatchUpInv
  OBVIOUS
<1>1. ASSUME NEW r \in Rules, NEW f \in Behind(r) PROVE FALSE
  <2>1. schedule[r] \subseteq Nat /\ schedule[r] \subseteq Time /\ f \in schedule[r]
        /\ next[r] = Min(schedule[r])
    BY <1>1, BoundsAssumption DEF Init, Behind, Time
  <2>2. Min(schedule[r]) \in schedule[r] /\ Min(schedule[r]) <= f
    BY <2>1, MinIsIn, MinIsLeast
  <2>3. next[r] # None /\ ~ (f < next[r])
    <3>1. \A a, b \in Nat : a <= b => ~ (b < a)
      OBVIOUS
    <3> QED
      BY <2>1, <2>2, <3>1, NoneAssumption
  <2> QED
    BY <1>1, <2>3 DEF Behind
<1>2. NoneMissed
  BY <1>1 DEF NoneMissed
<1>3. made = {} /\ passed = {}
  BY DEF Init
<1> QED
  BY <1>2, <1>3 DEF CatchUpInv, MadeHasKey, SpansEnd, PassedBehind, CatchesUpOnce, NoneTwice

\* Where rules, tasks and what was passed stay, only the fresh task can lose its excuse.
LEMMA SpansStay ==
  ASSUME CatchUpInv, UNCHANGED <<schedule, template, next, tasks, made, passed>>,
         failed \subseteq failed', cut \subseteq cut',
         \A m \in made : IsFresh(m) => m \in cut' \/ IsFresh(m)'
  PROVE  CatchUpInv'
<1>1. MadeHasKey' /\ SpansEnd' /\ PassedBehind'
  BY DEF CatchUpInv, MadeHasKey, SpansEnd, PassedBehind
<1>2. \A r : Behind(r)' = Behind(r)
  BY DEF Behind
<1>3. NoneMissed'
  BY <1>2 DEF CatchUpInv, CatchesUpOnce, NoneMissed, IsStandBefore, TasksOf
<1>4. NoneTwice'
  BY DEF CatchUpInv, CatchesUpOnce, NoneTwice
<1> QED
  BY <1>1, <1>3, <1>4 DEF CatchUpInv, CatchesUpOnce

LEMMA CreateTaskCatchesUp == ASSUME RecInv, CatchUpInv, CreateTask PROVE CatchUpInv'
<1> DEFINE r == tick.rule
<1> PICK n : n = <<Firing(r), tick.at>>
  OBVIOUS
<1>0. /\ TypeOK /\ r \in Rules /\ next[r] \in Time /\ next[r] <= tick.at /\ tick.at \in Time
      /\ Time \subseteq Nat /\ tick.step = "create" /\ "created" \in Steps
  BY BoundsAssumption DEF RecInv, TypeOK, TickHolds, Busy, Time, Steps, CreateTask
<1>1. tick'.step = "created" /\ tick'.at = tick.at /\ tick'.rule = r
  BY <1>0, ProceedFields DEF CreateTask
<1>2. /\ tasks' = tasks \cup {<<r, tick.at>>}
      /\ UNCHANGED <<schedule, template, next, passed, failed, cut>>
  BY DEF CreateTask, Setting
<1>3. \A m : ~ IsFresh(m)
  BY <1>0 DEF IsFresh
<1>4. IsFresh(n)'
  BY <1>1, <1>2 DEF IsFresh, Firing
<1>5. \A q : Behind(q)' = Behind(q)
  BY <1>2 DEF Behind
<1>6. CASE <<r, tick.at>> \in tasks
  <2>1. made' = made /\ tasks' = tasks
    BY <1>2, <1>6 DEF CreateTask
  <2> QED
    BY <1>2, <1>3, <2>1, SpansStay
<1>7. CASE <<r, tick.at>> \notin tasks
  <2>1. made' = made \cup {n}
    BY <1>7 DEF CreateTask
  <2>2. n[1] = <<r, next[r]>> /\ n[1][1] = r /\ n[1][2] = next[r] /\ n[2] = tick.at
    BY DEF Firing
  <2>3. \A m \in made : m[1][1] = r => m[2] \in Nat /\ m[2] < tick.at
    <3> SUFFICES ASSUME NEW m \in made, m[1][1] = r PROVE m[2] \in Nat /\ m[2] < tick.at
      OBVIOUS
    <3>1. <<r, m[2]>> \in tasks /\ m[2] # tick.at
      BY <1>7 DEF CatchUpInv, MadeHasKey
    <3>2. m[2] <= tick.at
      BY <1>0, <3>1 DEF RecInv, KeysKnown
    <3>3. m[2] \in Nat /\ tick.at \in Nat
      BY <1>0, KeyTypes
    <3> QED
      BY <3>1, <3>2, <3>3
  <2>4. MadeHasKey'
    BY <1>2, <2>1, <2>2 DEF CatchUpInv, MadeHasKey
  <2>5. SpansEnd'
    <3>1. ASSUME NEW m \in made
          PROVE  \/ next[m[1][1]] = None \/ next[m[1][1]] > m[2]
                 \/ next[m[1][1]] = m[1][2] /\ m \in cut
      BY <1>3 DEF CatchUpInv, SpansEnd
    <3>2. next[n[1][1]] = n[1][2]
      BY <2>2
    <3> SUFFICES ASSUME NEW m \in made'
                 PROVE  \/ next'[m[1][1]] = None \/ next'[m[1][1]] > m[2]
                        \/ next'[m[1][1]] = m[1][2] /\ (m \in cut' \/ IsFresh(m)')
      BY DEF SpansEnd
    <3>3. CASE m \in made
      BY <1>2, <3>1, <3>3
    <3>4. CASE m = n
      BY <1>2, <1>4, <3>2, <3>4
    <3> QED
      BY <2>1, <3>3, <3>4
  <2>6. PassedBehind'
    BY <1>2 DEF CatchUpInv, PassedBehind
  <2>7. NoneMissed'
    <3>1. \A g : TasksOf(g) \subseteq TasksOf(g)'
      BY <2>1 DEF TasksOf
    <3> QED
      BY <1>2, <1>5, <3>1 DEF CatchUpInv, CatchesUpOnce, NoneMissed, IsStandBefore
  <2>8. ASSUME NEW m \in made, m[1][1] = r, m[2] < n[2]
        PROVE  n[1][2] > m[2] \/ (n[1] = m[1] /\ m \in cut)
    <3>1. m[1] = <<m[1][1], m[1][2]>>
      BY <1>0 DEF TypeOK
    <3>2. next[r] # None
      BY <1>0, NoneAssumption
    <3>3. next[r] > m[2] \/ (next[r] = m[1][2] /\ m \in cut)
      BY <1>3, <2>8, <3>2 DEF CatchUpInv, SpansEnd
    <3> QED
      BY <2>2, <2>8, <3>1, <3>3
  <2>9. \A m \in made : m[1][1] = r => ~ (n[2] < m[2])
    <3>1. \A a, b \in Nat : a < b => ~ (b < a)
      OBVIOUS
    <3> QED
      BY <1>0, <2>2, <2>3, <3>1
  <2>10. ~ (n[2] < n[2])
    <3>1. \A a \in Nat : ~ (a < a)
      OBVIOUS
    <3> QED
      BY <1>0, <2>2, <3>1
  <2>11. NoneTwice'
    BY <1>2, <2>1, <2>2, <2>8, <2>9, <2>10 DEF CatchUpInv, CatchesUpOnce, NoneTwice
  <2> QED
    BY <2>4, <2>5, <2>6, <2>7, <2>11 DEF CatchUpInv, CatchesUpOnce
<1> QED
  BY <1>6, <1>7

\* Nothing of the schedule lies between the tick and the next firing.
LEMMA NothingBetween ==
  ASSUME NEW r \in Rules, NEW t \in Time, schedule \in [Rules -> SUBSET Time],
         NEW f \in schedule[r], f > t
  PROVE  NextFireAfter(r, t) # None /\ NextFireAfter(r, t) \in Nat /\ NextFireAfter(r, t) <= f
<1> DEFINE later == {x \in schedule[r] : x > t}
<1>1. later \subseteq Nat /\ later \subseteq Time /\ f \in later
  BY BoundsAssumption DEF Time
<1>2. Min(later) \in later /\ Min(later) <= f
  BY <1>1, MinIsIn, MinIsLeast
<1>3. NextFireAfter(r, t) = Min(later)
  BY <1>1 DEF NextFireAfter
<1> QED
  BY <1>1, <1>2, <1>3, NoneAssumption

LEMMA AdvanceCatchesUp == ASSUME RecInv, CatchUpInv, Advance PROVE CatchUpInv'
<1> DEFINE r == tick.rule
<1>0. TypeOK /\ Time \subseteq Nat /\ tick.step \in {"created", "advance"} /\ "next" \in Steps
  BY BoundsAssumption DEF RecInv, Time, Steps, Advance
<1>1. /\ r \in Rules /\ next[r] \in Time /\ tick.at \in Time /\ next[r] <= tick.at
      /\ next' \in [Rules -> Time \cup {None}]
      /\ \A q \in Rules \ {r} : next'[q] = next[q]
      /\ next'[r] # None => next'[r] > tick.at
  BY AdvanceMovesOn
<1>2. /\ passed' = passed \cup {Firing(r)} /\ next'[r] = NextFireAfter(r, tick.at)
      /\ UNCHANGED <<schedule, template, tasks, made, failed, cut>>
  BY <1>0, <1>1 DEF Advance, Setting, TypeOK
<1>3. tick'.step = "next"
  BY <1>0, ProceedFields DEF Advance
<1>4. /\ next[r] \in Nat /\ tick.at \in Nat /\ next[r] # None
      /\ next'[r] # None => next'[r] \in Nat
  BY <1>0, <1>1, NoneAssumption
<1>a. \A a, b, c \in Nat : a <= b /\ c > b => a < c /\ c > a
  OBVIOUS
<1>b. PICK F : F = <<r, next[r]>>
  OBVIOUS
<1>c. F = Firing(r) /\ F[1] = r /\ F[2] = next[r] /\ passed' = passed \cup {F}
  BY <1>2, <1>b DEF Firing
<1>d. \A g \in passed : g[1] \in Rules /\ g[2] \in Nat
  BY <1>0 DEF TypeOK
<1>5. MadeHasKey'
  BY <1>2 DEF CatchUpInv, MadeHasKey
<1>6. SpansEnd'
  <2> SUFFICES ASSUME NEW m \in made
               PROVE  \/ next'[m[1][1]] = None \/ next'[m[1][1]] > m[2]
                      \/ next'[m[1][1]] = m[1][2] /\ m \in cut
    BY <1>2 DEF SpansEnd
  <2>1. m[1][1] \in Rules /\ m[2] \in Nat
    BY <1>0, KeyTypes
  <2>2. CASE m[1][1] = r
    <3>1. m[2] <= tick.at
      BY <1>0, <2>2 DEF RecInv, KeysKnown, CatchUpInv, MadeHasKey
    <3> QED
      BY <1>1, <1>4, <1>a, <2>1, <2>2, <3>1
  <2>3. CASE m[1][1] # r
    <3>1. ~ IsFresh(m)
      BY <2>3 DEF IsFresh, Firing
    <3> QED
      BY <1>1, <2>1, <2>3, <3>1 DEF CatchUpInv, SpansEnd
  <2> QED
    BY <2>2, <2>3
<1>7. PassedBehind'
  <2> SUFFICES ASSUME NEW g \in passed' PROVE next'[g[1]] = None \/ g[2] < next'[g[1]]
    BY DEF PassedBehind
  <2>0. g[1] \in Rules /\ g[2] \in Nat
    BY <1>1, <1>4, <1>c, <1>d
  <2>1. CASE g[1] = r
    <3>1. g[2] <= tick.at
      <4>1. CASE g = F
        BY <1>1, <1>c, <4>1
      <4>2. CASE g \in passed
        <5>1. g[2] < next[r]
          BY <1>4, <2>1, <4>2 DEF CatchUpInv, PassedBehind
        <5> QED
          BY <1>1, <1>4, <2>0, <5>1
      <4> QED
        BY <1>c, <4>1, <4>2
    <3> QED
      BY <1>1, <1>4, <1>a, <2>0, <2>1, <3>1
  <2>2. CASE g[1] # r
    BY <1>1, <1>c, <2>0, <2>2 DEF CatchUpInv, PassedBehind
  <2> QED
    BY <2>1, <2>2
<1>8. NoneMissed'
  <2> SUFFICES ASSUME NEW q \in Rules, NEW f \in Behind(q)'
               PROVE  \E g \in passed' :
                        /\ IsStandBefore(g, q, f)'
                        /\ \/ template[q] = "unusable" \/ g \in failed
                           \/ \E m \in TasksOf(g) : f <= m[2]
    BY <1>2 DEF NoneMissed, TasksOf
  <2>0. f \in schedule[q] /\ f \in Nat /\ (next'[q] = None \/ f < next'[q])
    BY <1>0, <1>2 DEF Behind, TypeOK
  <2>1. CASE f \in Behind(q) /\ (q = r => f < next[r])
    <3>1. PICK g \in passed :
            /\ IsStandBefore(g, q, f)
            /\ template[q] = "unusable" \/ g \in failed \/ \E m \in TasksOf(g) : f <= m[2]
      BY <2>1 DEF CatchUpInv, CatchesUpOnce, NoneMissed
    <3>2. q = r => ~ (next[r] <= f)
      BY <1>4, <2>0, <2>1
    <3>3. IsStandBefore(g, q, f)'
      BY <1>c, <3>1, <3>2 DEF IsStandBefore
    <3> QED
      BY <1>2, <3>1, <3>3
  <2>2. CASE q = r /\ ~ (f < next[r])
    <3>1. next[r] <= f
      BY <1>4, <2>0, <2>2
    <3>2. f <= tick.at
      <4> SUFFICES ASSUME f > tick.at PROVE FALSE
        BY <1>4, <2>0
      <4>1. NextFireAfter(r, tick.at) # None /\ NextFireAfter(r, tick.at) \in Nat
            /\ NextFireAfter(r, tick.at) <= f
        BY <1>0, <1>1, <2>0, <2>2, NothingBetween DEF TypeOK
      <4> QED
        BY <1>2, <2>0, <2>2, <4>1
    <3>3. IsStandBefore(F, q, f)'
      <4>1. \A h \in passed : h[1] = r => h[2] \in Nat /\ h[2] < next[r]
        BY <1>0, <1>4 DEF CatchUpInv, PassedBehind, TypeOK
      <4>2. \A h \in passed' : h[1] = r => h[2] <= next[r]
        BY <1>4, <1>c, <4>1
      <4> QED
        BY <1>c, <2>2, <3>1, <4>2 DEF IsStandBefore
    <3>4. \/ template[q] = "unusable" \/ F \in failed
          \/ \E m \in TasksOf(F) : f <= m[2]
      <4>1. CASE tick.step = "created"
        <5>1. <<F, tick.at>> \in TasksOf(F)
          BY <1>c, <4>1 DEF RecInv, Answered, TasksOf
        <5> QED
          BY <3>2, <5>1
      <4>2. CASE tick.step = "advance"
        BY <1>c, <2>2, <4>2 DEF RecInv, Answered
      <4> QED
        BY <1>0, <4>1, <4>2
    <3> QED
      BY <1>c, <3>3, <3>4
  <2>3. q # r => f \in Behind(q)
    BY <1>1, <1>2, <2>0 DEF Behind
  <2>4. q = r /\ f < next[r] => f \in Behind(q)
    BY <2>0 DEF Behind
  <2> QED
    BY <2>1, <2>2, <2>3, <2>4
<1>9. NoneTwice'
  BY <1>2 DEF CatchUpInv, CatchesUpOnce, NoneTwice
<1> QED
  BY <1>5, <1>6, <1>7, <1>8, <1>9 DEF CatchUpInv, CatchesUpOnce

LEMMA CatchUpStep ==
  ASSUME RecInv, CatchUpInv, [Next]_vars
  PROVE  CatchUpInv'
<1>1. CASE UNCHANGED vars \/ TimePasses \/ Toggle
  <2>1. UNCHANGED <<schedule, template, next, tasks, tick, made, passed, failed, cut>>
    BY <1>1 DEF vars, TimePasses, Toggle, Setting, History
  <2> QED
    BY <2>1, SpansStay DEF IsFresh, Firing
<1>2. CASE \/ StartTick \/ EndTick
           \/ \E r \in tick.todo : LoadTemplate(r) \/ LoadFails(r)
  <2>1. UNCHANGED <<schedule, template, next, tasks, made, passed, failed, cut>>
        /\ tick.step \in {"idle", "next"}
    BY <1>2 DEF StartTick, EndTick, LoadTemplate, LoadFails, IsNext, Setting, History
  <2> QED
    BY <2>1, SpansStay DEF IsFresh
<1>3. CASE CreateTask
  BY <1>3, CreateTaskCatchesUp
<1>4. CASE Advance
  BY <1>4, AdvanceCatchesUp
<1>5. CASE CreateFails
  <2>1. UNCHANGED <<schedule, template, next, tasks, made, passed, cut>>
        /\ failed \subseteq failed' /\ tick.step = "create"
    BY <1>5 DEF CreateFails, Setting
  <2> QED
    BY <2>1, SpansStay DEF IsFresh
<1>6. CASE AdvanceFails \/ Restart
  <2>1. UNCHANGED <<schedule, template, next, tasks, made, passed, failed>> /\ Unadvanced
    BY <1>6 DEF AdvanceFails, Restart, Setting
  <2>2. cut \subseteq cut' /\ \A m \in made : IsFresh(m) => m \in cut'
    BY <2>1 DEF Unadvanced, IsFresh
  <2> QED
    BY <2>1, <2>2, SpansStay
<1> QED
  BY <1>1, <1>2, <1>3, <1>4, <1>5, <1>6 DEF Next, Worker

-----------------------------------------------------------------------------

LEMMA Invariance == Spec => []RecInv
BY RecInit, RecStep, PTL DEF Spec

\* The types of the rules, the tick and the history.
THEOREM TypeCorrect == Spec => []TypeOK
<1>1. RecInv => TypeOK
  BY DEF RecInv
<1> QED
  BY <1>1, Invariance, PTL

\* However ticks, failing calls and stops fall, a firing has one task and one more for each time
\* a fault came between its task and the advance of its rule, and none before its time.
THEOREM FiringsRepeatByFault == Spec => []RepeatedOnlyByFault
BY Invariance, Repetitions, PTL

\* A firing that was passed over has its task, unless the template or the creation failed.
THEOREM FiringsAnswered == Spec => []FiringsAreAnswered
<1>1. RecInv => FiringsAreAnswered
  BY DEF RecInv
<1> QED
  BY <1>1, Invariance, PTL

\* However many firings a rule misses, it makes up for them with one task: none is lost but for
\* cause, and none is made twice but by a fault.
THEOREM RulesCatchUpOnce == Spec => []CatchesUpOnce
<1>1. CatchUpInv => CatchesUpOnce
  BY DEF CatchUpInv
<1> QED
  BY <1>1, Invariance, CatchUpInit, CatchUpStep, PTL DEF Spec

=============================================================================
