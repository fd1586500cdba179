------------------------ MODULE SlaEscalationProofs -------------------------
(***************************************************************************)
(* Theorems about SlaEscalation for any tasks, users, deadlines, limits    *)
(* and number of edits and faults.                                         *)
(***************************************************************************)
EXTENDS SlaEscalation, TLAPS

LevelToday(t) == LevelOf(task[t].deadline - today)

Writing == scan.step \in {"record", "notify"}

\* A scan works with the day it began on and with copies that still agree with their rows on
\* deadline and level, since nobody else changes these; a task has one copy.
CopiesAgree ==
  /\ scan.day <= today
  /\ \A c \in scan.todo : /\ c.deadline = task[c.task].deadline
                          /\ c.level = task[c.task].level
                          /\ c.level <= Reached(c)
  /\ \A c, d \in scan.todo : c.task = d.task => c = d

\* The copy whose escalation is under way.
UnderWay ==
  /\ Writing => /\ scan.at \in Copy
                /\ \A c \in scan.todo : c.task # scan.at.task
                /\ scan.at.deadline = task[scan.at.task].deadline
                /\ Reached(scan.at) = task[scan.at.task].level
                /\ Reached(scan.at) >= 1
  /\ scan.step = "record" => Escalation(scan.at) \notin escalations
  /\ scan.step = "notify" => Escalation(scan.at) \in escalations /\ scan.at.assignee # None

\* Levels and escalations do not run ahead of the calendar.
InSeason ==
  /\ \A t \in Tasks : task[t].level <= LevelToday(t)
  /\ \A e \in escalations : 1 <= e[2] /\ e[2] <= task[e[1]].level
  /\ \A n \in outbox : n.key \in escalations

\* What a stored level still needs.
Recorded ==
  \A t \in Tasks \ lost, l \in 1 .. 2 :
    /\ task[t].level = l => \/ <<t, l>> \in escalations
                            \/ scan.step = "record" /\ Escalation(scan.at) = <<t, l>>
    /\ <<t, l>> \in escalations \ silent => \/ \E n \in outbox : n.key = <<t, l>>
                                            \/ scan.step = "notify" /\ Escalation(scan.at) = <<t, l>>

\* The strengthening that is inductive.
SlaInv == TypeOK /\ CopiesAgree /\ UnderWay /\ InSeason /\ Recorded

-----------------------------------------------------------------------------

LEMMA LevelRange == \A days \in Int : LevelOf(days) \in Levels
BY DEF LevelOf, Levels

LEMMA LevelMonotone == \A d, e \in Int : d <= e => LevelOf(e) <= LevelOf(d)
BY DEF LevelOf

LEMMA SlaInit == Init => SlaInv
<1> SUFFICES ASSUME Init PROVE SlaInv
  OBVIOUS
<1> USE DEF Init, Idle
<1>0. 0 \in 0 .. Days /\ today = 0
  BY BoundsAssumption
<1>1. TypeOK
  BY <1>0 DEF TypeOK
<1>2. task \in [Tasks -> Row] /\ \A t \in Tasks : task[t].level = 0 /\ task[t].deadline \in 0 .. Days
  BY DEF Row
<1>3. CopiesAgree /\ UnderWay
  BY <1>0 DEF CopiesAgree, UnderWay, Writing
<1>4. InSeason
  BY <1>0, <1>2 DEF InSeason, LevelToday, LevelOf
<1>5. Recorded
  BY <1>2 DEF Recorded
<1> QED
  BY <1>1, <1>3, <1>4, <1>5 DEF SlaInv

Scans == [step : {"idle", "next", "record", "notify"}, day : 0 .. Days, todo : SUBSET Copy,
          at : Copy \cup {None}]

LEMMA CopyTypes ==
  ASSUME TypeOK
  PROVE  /\ \A c \in Copy : /\ c.task \in Tasks /\ c.deadline \in Int /\ c.level \in Levels
                            /\ c.assignee \in Users \cup {None}
                            /\ Reached(c) \in Levels /\ Reached(c) \in Int
         /\ \A t \in Tasks : /\ task[t].deadline \in 0 .. Days /\ task[t].deadline \in Int
                             /\ task[t].level \in Levels /\ task[t].level \in Int
         /\ today \in Int /\ scan.day \in Int /\ scan \in Scans /\ scan.todo \subseteq Copy
<1>1. /\ \A c \in Copy : /\ c.task \in Tasks /\ c.deadline \in Int /\ c.level \in Levels
                         /\ c.assignee \in Users \cup {None}
      /\ \A t \in Tasks : /\ task[t].deadline \in 0 .. Days /\ task[t].deadline \in Int
                          /\ task[t].level \in Levels /\ task[t].level \in Int
      /\ today \in Int /\ scan.day \in Int /\ scan \in Scans /\ scan.todo \subseteq Copy
  BY BoundsAssumption DEF TypeOK, Copy, Row, Levels, Scans
<1>2. \A c \in Copy : Reached(c) \in Levels /\ Reached(c) \in Int
  BY <1>1, LevelRange DEF Reached, Levels
<1> QED
  BY <1>1, <1>2

\* Steps that leave levels, deadlines, escalations and the scan alone.
LEMMA QuietStep ==
  ASSUME SlaInv, TypeOK', today <= today', UNCHANGED <<escalations, outbox, scan, silent, lost>>,
         \A t \in Tasks : /\ task'[t].level = task[t].level
                          /\ task'[t].deadline = task[t].deadline
  PROVE  SlaInv'
<1>0. TypeOK
  BY DEF SlaInv
<1>1. CopiesAgree'
  <2>1. scan.day <= today'
    BY <1>0, CopyTypes DEF SlaInv, CopiesAgree, TypeOK
  <2> QED
    BY <1>0, <2>1, CopyTypes DEF SlaInv, CopiesAgree, Reached
<1>2. UnderWay'
  BY <1>0, CopyTypes DEF SlaInv, UnderWay, Writing, Reached, Escalation
<1>3. \A t \in Tasks : LevelToday(t) <= LevelToday(t)' /\ LevelToday(t) \in Int /\ LevelToday(t)' \in Int
  <2> TAKE t \in Tasks
  <2>1. /\ task[t].deadline \in Int /\ today \in Int /\ today' \in Int
    BY <1>0, CopyTypes, BoundsAssumption DEF TypeOK
  <2>2. task'[t].deadline - today' <= task[t].deadline - today
    BY <2>1
  <2> QED
    BY <2>1, <2>2, LevelMonotone, LevelRange DEF LevelToday, Levels
<1>4. InSeason'
  <2>1. \A e \in escalations : e[1] \in Tasks
    BY <1>0 DEF TypeOK
  <2>2. \A t \in Tasks : task'[t].level <= LevelToday(t)'
    BY <1>0, <1>3, CopyTypes DEF SlaInv, InSeason
  <2> QED
    BY <2>1, <2>2 DEF SlaInv, InSeason
<1>5. Recorded'
  BY DEF SlaInv, Recorded, Escalation, Reached
<1> QED
  BY <1>1, <1>2, <1>4, <1>5 DEF SlaInv

LEMMA UserStep ==
  ASSUME SlaInv, \/ \E t \in Tasks : Close(t) \/ \E u \in Users \cup {None} : Assign(t, u)
                 \/ Toggle \/ NewDay \/ UNCHANGED vars
  PROVE  SlaInv'
<1>0. TypeOK /\ today \in Int /\ today <= today /\ today <= today + 1
  BY CopyTypes DEF SlaInv
<1>1. ASSUME NEW t \in Tasks, Close(t) PROVE SlaInv'
  <2>1. TypeOK'
    BY <1>0, <1>1 DEF TypeOK, Close, Edit, Row, History
  <2> QED
    BY <1>0, <1>1, <2>1, QuietStep DEF Close, History, TypeOK, Row
<1>2. ASSUME NEW t \in Tasks, NEW u \in Users \cup {None}, Assign(t, u) PROVE SlaInv'
  <2>1. TypeOK'
    BY <1>0, <1>2 DEF TypeOK, Assign, Edit, Row, History
  <2> QED
    BY <1>0, <1>2, <2>1, QuietStep DEF Assign, History, TypeOK, Row
<1>3. CASE Toggle
  <2>1. TypeOK'
    BY <1>0, <1>3 DEF TypeOK, Toggle, Edit, History
  <2> QED
    BY <1>0, <1>3, <2>1, QuietStep DEF Toggle, History
<1>4. CASE NewDay
  <2>1. TypeOK'
    BY <1>0, <1>4, BoundsAssumption DEF TypeOK, NewDay, History
  <2> QED
    BY <1>0, <1>4, <2>1, QuietStep DEF NewDay, History
<1>5. CASE UNCHANGED vars
  <2>1. TypeOK'
    BY <1>0, <1>5 DEF TypeOK, vars, History
  <2> QED
    BY <1>0, <1>5, <2>1, QuietStep DEF vars, History
<1> QED
  BY <1>1, <1>2, <1>3, <1>4, <1>5

\* Steps that change the scan only, and end nothing that is under way.
LEMMA ScanOnlyStep ==
  ASSUME SlaInv, TypeOK', CopiesAgree', ~ Writing, ~ Writing',
         UNCHANGED <<today, task, escalations, outbox, silent, lost>>
  PROVE  SlaInv'
<1>1. UnderWay'
  BY DEF UnderWay, Writing
<1>2. InSeason'
  BY DEF SlaInv, InSeason, LevelToday
<1>3. Recorded'
  BY DEF SlaInv, Recorded, Writing
<1> QED
  BY <1>1, <1>2, <1>3 DEF SlaInv

LEMMA StartScanStep == ASSUME SlaInv, StartScan PROVE SlaInv'
<1>0. TypeOK
  BY DEF SlaInv
<1>1. PICK S \in Listed : scan' = [step |-> "next", day |-> today, at |-> None,
                                   todo |-> {Copied(t) : t \in S}]
  BY DEF StartScan
<1>2. S \subseteq Tasks
  BY <1>1 DEF Listed
<1>3. \A t \in Tasks : Copied(t) \in Copy /\ Copied(t).task = t /\ Copied(t).level = task[t].level
                       /\ Copied(t).deadline = task[t].deadline
  BY <1>0 DEF Copied, Copy, TypeOK, Row
<1>4. TypeOK'
  BY <1>0, <1>1, <1>2, <1>3 DEF TypeOK, StartScan, History
<1>5. CopiesAgree'
  <2>1. scan'.day = today /\ scan'.todo = {Copied(t) : t \in S} /\ today' = today /\ task' = task
    BY <1>1 DEF StartScan
  <2>2. \A t \in Tasks : LevelOf(Copied(t).deadline - today) = LevelToday(t)
    BY <1>3 DEF LevelToday
  <2>3. \A t \in S : Reached(Copied(t))' = LevelToday(t) /\ Copied(t).level <= LevelToday(t)
    BY <1>2, <1>3, <2>1, <2>2 DEF SlaInv, InSeason, Reached, LevelToday, Copied
  <2>4. today \in Int
    BY <1>0, CopyTypes
  <2>5. \A c \in scan'.todo : \E t \in S : c = Copied(t)
    BY <2>1
  <2>6. ASSUME NEW c \in scan'.todo PROVE c.level <= LevelOf(c.deadline - scan'.day)
    <3>1. PICK t \in S : c = Copied(t)
      BY <2>5
    <3>2. t \in Tasks
      BY <1>2
    <3> QED
      BY <1>3, <2>1, <3>1, <3>2 DEF SlaInv, InSeason, LevelToday
  <2> QED
    BY <1>2, <1>3, <2>1, <2>4, <2>5, <2>6 DEF CopiesAgree, Reached
<1> QED
  BY <1>1, <1>4, <1>5, ScanOnlyStep DEF StartScan, History, Writing

LEMMA EndScanStep == ASSUME SlaInv, EndScan PROVE SlaInv'
<1>0. TypeOK /\ 0 \in 0 .. Days /\ today \in Int /\ 0 <= today
  BY BoundsAssumption DEF SlaInv, TypeOK
<1>1. scan' = Idle /\ scan.step = "next"
  BY DEF EndScan
<1>2. TypeOK'
  BY <1>0, <1>1 DEF TypeOK, EndScan, History, Idle
<1>3. CopiesAgree'
  BY <1>0, <1>1 DEF CopiesAgree, EndScan, Idle
<1> QED
  BY <1>1, <1>2, <1>3, ScanOnlyStep DEF EndScan, History, Writing, Idle

LEMMA SkipStep == ASSUME SlaInv, NEW c \in scan.todo, Skip(c) PROVE SlaInv'
<1>0. TypeOK /\ scan \in Scans
  BY CopyTypes DEF SlaInv
<1>1. scan' = [scan EXCEPT !.todo = @ \ {c}] /\ scan.step = "next"
  BY DEF Skip, Dropped, IsNext
<1>2. scan'.todo = scan.todo \ {c} /\ scan'.day = scan.day /\ scan'.step = "next" /\ scan' \in Scans
  BY <1>0, <1>1 DEF Scans
<1>3. TypeOK'
  BY <1>0, <1>2 DEF TypeOK, Skip, History, Scans
<1>4. CopiesAgree'
  BY <1>2 DEF SlaInv, CopiesAgree, Skip, Reached
<1> QED
  BY <1>1, <1>2, <1>3, <1>4, ScanOnlyStep DEF Skip, History, Writing

\* What storing the level of a copy does.
LEMMA Storing ==
  ASSUME SlaInv, NEW c \in scan.todo, UpdateState(c)
  PROVE  /\ c \in Copy /\ c.task \in Tasks /\ c.level \in Int /\ Reached(c) \in Int
         /\ Reached(c) \in Levels
         /\ c.level <= Reached(c) /\ task[c.task].level = c.level
         /\ task' \in [Tasks -> Row]
         /\ task'[c.task].level = Reached(c)
         /\ \A t \in Tasks : /\ task'[t].deadline = task[t].deadline
                             /\ t # c.task => task'[t] = task[t]
         /\ scan' \in Scans /\ scan'.day = scan.day /\ scan'.todo = scan.todo \ {c}
         /\ \/ scan'.step = "record" /\ scan'.at = c /\ Reached(c) > c.level
            \/ scan'.step = "next" /\ Reached(c) = c.level
         /\ scan.step = "next"
<1>0. TypeOK
  BY DEF SlaInv
<1>1. c \in Copy /\ c.task \in Tasks /\ c.level \in Int /\ Reached(c) \in Levels /\ scan \in Scans
      /\ Reached(c) \in Int
  BY <1>0, CopyTypes DEF Levels
<1>2. c.level <= Reached(c) /\ task[c.task].level = c.level
  BY DEF SlaInv, CopiesAgree
<1>3. StateOf(Reached(c)) \in {"healthy", "at_risk", "breached"}
  BY <1>1 DEF StateOf, Levels
<1>4. /\ task' \in [Tasks -> Row] /\ task'[c.task].level = Reached(c)
      /\ \A t \in Tasks : /\ task'[t].deadline = task[t].deadline
                          /\ t # c.task => task'[t] = task[t]
  <2>1. task \in [Tasks -> Row]
    BY <1>0 DEF TypeOK
  <2>2. task' = [task EXCEPT ![c.task].state = StateOf(Reached(c)), ![c.task].level = Reached(c)]
    BY DEF UpdateState
  <2> HIDE DEF Reached, StateOf
  <2> QED
    BY <1>1, <1>3, <2>1, <2>2 DEF Row
<1>5. CASE Raised(c)
  <2>1. scan' = [scan EXCEPT !.step = "record", !.todo = @ \ {c}, !.at = c]
    BY <1>5 DEF UpdateState
  <2>2. Reached(c) > c.level
    BY <1>5 DEF Raised
  <2>3. scan.step = "next"
    BY DEF UpdateState, IsNext
  <2> QED
    BY <1>1, <1>2, <1>4, <2>1, <2>2, <2>3 DEF Scans
<1>6. CASE ~ Raised(c)
  <2>1. scan' = [scan EXCEPT !.todo = @ \ {c}]
    BY <1>6 DEF UpdateState, Dropped
  <2>2. Reached(c) = c.level
    BY <1>1, <1>2, <1>6 DEF Raised
  <2>3. scan.step = "next"
    BY DEF UpdateState, IsNext
  <2> QED
    BY <1>1, <1>2, <1>4, <2>1, <2>2, <2>3 DEF Scans
<1> QED
  BY <1>5, <1>6

LEMMA UpdateStateStep == ASSUME SlaInv, NEW c \in scan.todo, UpdateState(c) PROVE SlaInv'
<1>0. TypeOK /\ today \in Int /\ scan.day \in Int /\ scan.day <= today /\ scan.todo \subseteq Copy
  BY CopyTypes DEF SlaInv, CopiesAgree
<1>1. /\ c \in Copy /\ c.task \in Tasks /\ c.level \in Int /\ Reached(c) \in Int
      /\ Reached(c) \in Levels
      /\ c.level <= Reached(c) /\ task[c.task].level = c.level
      /\ task' \in [Tasks -> Row]
      /\ task'[c.task].level = Reached(c)
      /\ \A t \in Tasks : /\ task'[t].deadline = task[t].deadline
                          /\ t # c.task => task'[t] = task[t]
      /\ scan' \in Scans /\ scan'.day = scan.day /\ scan'.todo = scan.todo \ {c}
      /\ \/ scan'.step = "record" /\ scan'.at = c /\ Reached(c) > c.level
         \/ scan'.step = "next" /\ Reached(c) = c.level
      /\ scan.step = "next"
  BY Storing
<1>2. UNCHANGED <<today, enabled, escalations, outbox, silent, lost, edits, faults>>
  BY DEF UpdateState, History
<1>3. TypeOK'
  BY <1>0, <1>1, <1>2 DEF TypeOK, Scans
<1>4. \A d \in Copy : Reached(d)' = Reached(d)
  BY <1>1 DEF Reached
<1>5. \A d \in scan'.todo : d.task # c.task /\ d.task \in Tasks /\ d \in scan.todo
  BY <1>0, <1>1, CopyTypes DEF SlaInv, CopiesAgree
<1>6. CopiesAgree'
  BY <1>0, <1>1, <1>2, <1>4, <1>5 DEF SlaInv, CopiesAgree
<1>7. LevelToday(c.task) \in Int /\ Reached(c) <= LevelToday(c.task)
  <2>1. c.deadline = task[c.task].deadline /\ c.deadline \in Int
    BY <1>0, <1>1, CopyTypes DEF SlaInv, CopiesAgree
  <2>2. c.deadline - today <= c.deadline - scan.day
    BY <1>0, <2>1
  <2> QED
    BY <1>0, <2>1, <2>2, LevelMonotone, LevelRange DEF Reached, LevelToday, Levels
<1>8. \A e \in escalations : e[1] \in Tasks /\ e[2] \in Int /\ e[2] <= task[e[1]].level
  BY <1>0 DEF SlaInv, InSeason, TypeOK, Levels
<1>9. UnderWay'
  <2>1. CASE scan'.step = "next"
    BY <2>1 DEF UnderWay, Writing
  <2>2. CASE scan'.step = "record" /\ scan'.at = c /\ Reached(c) > c.level
    <3>1. Reached(c) >= 1
      BY <1>1, <2>2, <1>0, CopyTypes DEF Levels
    <3>2. Escalation(c) \notin escalations
      BY <1>1, <1>8, <2>2 DEF Escalation
    <3>3. c.deadline = task[c.task].deadline
      BY DEF SlaInv, CopiesAgree
    <3> QED
      BY <1>1, <1>2, <1>4, <1>5, <2>2, <3>1, <3>2, <3>3 DEF UnderWay, Writing, Escalation
  <2> QED
    BY <1>1, <2>1, <2>2
<1>10. InSeason'
  <2>1. \A t \in Tasks : LevelToday(t)' = LevelToday(t)
    BY <1>1, <1>2 DEF LevelToday
  <2>2. \A t \in Tasks : task'[t].level <= LevelToday(t)'
    BY <1>1, <1>7, <2>1 DEF SlaInv, InSeason
  <2>3. \A e \in escalations : e[2] <= task'[e[1]].level
    BY <1>1, <1>8
  <2> QED
    BY <1>2, <2>2, <2>3 DEF SlaInv, InSeason
<1>11. Recorded'
  <2> SUFFICES ASSUME NEW t \in Tasks \ lost, NEW l \in 1 .. 2
               PROVE  /\ task'[t].level = l => \/ <<t, l>> \in escalations
                                               \/ scan'.step = "record" /\ Escalation(scan.at)' = <<t, l>>
                      /\ <<t, l>> \in escalations \ silent => \E n \in outbox : n.key = <<t, l>>
    BY <1>2 DEF Recorded, Escalation, Reached
  <2>1. <<t, l>> \in escalations \ silent => \E n \in outbox : n.key = <<t, l>>
    BY <1>1 DEF SlaInv, Recorded
  <2>2. task[t].level = l => <<t, l>> \in escalations
    BY <1>1 DEF SlaInv, Recorded
  <2>3. CASE t # c.task
    BY <1>1, <2>1, <2>2, <2>3
  <2>4. CASE t = c.task /\ Reached(c) = c.level
    BY <1>1, <2>1, <2>2, <2>4
  <2>5. CASE t = c.task /\ scan'.step = "record" /\ scan'.at = c
    BY <1>1, <1>4, <2>1, <2>5 DEF Escalation
  <2> QED
    BY <1>1, <2>1, <2>3, <2>4, <2>5
<1> QED
  BY <1>3, <1>6, <1>9, <1>10, <1>11 DEF SlaInv

LEMMA ProceedFields ==
  ASSUME NEW step \in {"next", "record", "notify"}, TypeOK, Proceed(step)
  PROVE  /\ scan' \in Scans /\ scan'.step = step /\ scan'.day = scan.day /\ scan'.todo = scan.todo
         /\ step # "next" => scan'.at = scan.at
<1>1. scan \in Scans
  BY CopyTypes
<1>2. CASE step = "next"
  BY <1>1, <1>2 DEF Proceed, Scans
<1>3. CASE step # "next"
  BY <1>1, <1>3 DEF Proceed, Scans
<1> QED
  BY <1>2, <1>3

LEMMA RecordStep == ASSUME SlaInv, RecordEscalation PROVE SlaInv'
<1> DEFINE e == Escalation(scan.at)
           step == IF scan.at.assignee = None THEN "next" ELSE "notify"
<1>0. TypeOK /\ scan.step = "record" /\ Writing
  BY DEF SlaInv, RecordEscalation, Writing
<1>1. /\ scan.at \in Copy /\ scan.at.task \in Tasks /\ Reached(scan.at) \in Levels
      /\ Reached(scan.at) \in Int /\ 1 <= Reached(scan.at)
      /\ Reached(scan.at) = task[scan.at.task].level /\ e \notin escalations
      /\ e = <<scan.at.task, Reached(scan.at)>> /\ e \in Tasks \X Levels
  BY <1>0, CopyTypes DEF SlaInv, UnderWay, Escalation
<1>2. /\ escalations' = escalations \cup {e} /\ Proceed(step)
      /\ silent' = IF scan.at.assignee = None THEN silent \cup {e} ELSE silent
      /\ UNCHANGED <<today, enabled, task, outbox, lost, edits, faults>>
  BY <1>1 DEF RecordEscalation
<1>3. /\ scan' \in Scans /\ scan'.step = step /\ scan'.day = scan.day /\ scan'.todo = scan.todo
      /\ step # "next" => scan'.at = scan.at
  BY <1>0, <1>2, ProceedFields
<1> HIDE DEF e
<1>4. TypeOK'
  BY <1>0, <1>1, <1>2, <1>3 DEF TypeOK, Scans
<1>5. CopiesAgree'
  BY <1>2, <1>3 DEF SlaInv, CopiesAgree, Reached
<1>6. UnderWay'
  <2>1. CASE step = "next"
    BY <1>3, <2>1 DEF UnderWay, Writing
  <2>2. CASE step = "notify"
    <3>1. scan'.at = scan.at /\ scan.at.assignee # None /\ Reached(scan.at)' = Reached(scan.at)
          /\ Escalation(scan.at)' = e
      BY <1>3, <2>2 DEF Reached, Escalation, e
    <3> QED
      BY <1>0, <1>2, <1>3, <2>2, <3>1 DEF SlaInv, UnderWay, Writing
  <2> QED
    BY <2>1, <2>2
<1>7. InSeason'
  BY <1>1, <1>2 DEF SlaInv, InSeason, LevelToday
<1>8. Recorded'
  <2> SUFFICES ASSUME NEW t \in Tasks \ lost, NEW l \in 1 .. 2
               PROVE  /\ task[t].level = l => <<t, l>> \in escalations'
                      /\ <<t, l>> \in escalations' \ silent' =>
                           \/ \E n \in outbox : n.key = <<t, l>>
                           \/ scan'.step = "notify" /\ Escalation(scan.at)' = <<t, l>>
    BY <1>2 DEF Recorded
  <2>1. task[t].level = l => <<t, l>> \in escalations'
    BY <1>2 DEF SlaInv, Recorded, e
  <2>2. CASE <<t, l>> \in escalations
    BY <1>0, <1>2, <2>1, <2>2 DEF SlaInv, Recorded
  <2>3. CASE <<t, l>> = e
    <3>1. CASE scan.at.assignee = None
      BY <1>2, <2>1, <2>3, <3>1
    <3>2. CASE scan.at.assignee # None
      BY <1>3, <2>1, <2>3, <3>2 DEF Escalation, Reached, e
    <3> QED
      BY <3>1, <3>2
  <2> QED
    BY <1>2, <2>1, <2>2, <2>3
<1> QED
  BY <1>4, <1>5, <1>6, <1>7, <1>8 DEF SlaInv

\* The scan goes on to the next copy, or ends.
LEMMA WrittenStep ==
  ASSUME SlaInv, TypeOK', InSeason', Writing,
         (scan'.todo = scan.todo /\ scan'.day = scan.day /\ scan'.step = "next") \/ scan' = Idle,
         UNCHANGED <<today, task, escalations, silent>>, outbox \subseteq outbox',
         lost \subseteq lost',
         scan.at.task \in lost' \/ (scan.step = "notify" /\ \E n \in outbox' : n.key = Escalation(scan.at))
  PROVE  SlaInv'
<1>0. TypeOK /\ today \in Int /\ 0 <= today
  BY DEF SlaInv, TypeOK
<1>3. ASSUME scan'.step \in {"idle", "next"} PROVE Recorded'
  <2> SUFFICES ASSUME NEW t \in Tasks \ lost', NEW l \in 1 .. 2
               PROVE  /\ task[t].level = l => <<t, l>> \in escalations
                      /\ <<t, l>> \in escalations \ silent => \E n \in outbox' : n.key = <<t, l>>
    BY <1>3 DEF Recorded
  <2>1. /\ task[t].level = l => \/ <<t, l>> \in escalations
                                \/ scan.step = "record" /\ Escalation(scan.at) = <<t, l>>
        /\ <<t, l>> \in escalations \ silent =>
               \/ \E n \in outbox : n.key = <<t, l>>
               \/ scan.step = "notify" /\ Escalation(scan.at) = <<t, l>>
    BY DEF SlaInv, Recorded
  <2>2. Escalation(scan.at) = <<t, l>> =>
          scan.step = "notify" /\ \E n \in outbox' : n.key = Escalation(scan.at)
    BY DEF Escalation
  <2> QED
    BY <2>1, <2>2
<1>1. CASE scan' = Idle
  <2>1. CopiesAgree'
    BY <1>0, <1>1 DEF CopiesAgree, Idle
  <2>2. UnderWay'
    BY <1>1 DEF UnderWay, Writing, Idle
  <2>3. scan'.step = "idle"
    BY <1>1 DEF Idle
  <2>4. Recorded'
    BY <1>3, <2>3
  <2> QED
    BY <2>1, <2>2, <2>4 DEF SlaInv
<1>2. CASE scan'.todo = scan.todo /\ scan'.day = scan.day /\ scan'.step = "next"
  <2>1. CopiesAgree'
    BY <1>2 DEF SlaInv, CopiesAgree, Reached
  <2>2. UnderWay'
    BY <1>2 DEF UnderWay, Writing
  <2>3. Recorded'
    BY <1>2, <1>3
  <2> QED
    BY <2>1, <2>2, <2>3 DEF SlaInv
<1> QED
  BY <1>1, <1>2

LEMMA NotifyStep == ASSUME SlaInv, EnqueueNotification PROVE SlaInv'
<1>0. TypeOK /\ scan.step = "notify" /\ Writing
  BY DEF SlaInv, EnqueueNotification, Writing
<1>1. /\ Escalation(scan.at) \in escalations /\ scan.at.assignee \in Users
      /\ Escalation(scan.at) \in Tasks \X Levels
  BY <1>0, CopyTypes DEF SlaInv, UnderWay, TypeOK
<1>2. /\ scan' \in Scans /\ scan'.step = "next" /\ scan'.day = scan.day /\ scan'.todo = scan.todo
  BY <1>0, ProceedFields DEF EnqueueNotification
<1> DEFINE n == [key |-> Escalation(scan.at), to |-> scan.at.assignee]
<1>3. /\ outbox' \subseteq outbox \cup {n} /\ outbox \subseteq outbox'
      /\ \E m \in outbox' : m.key = Escalation(scan.at)
      /\ UNCHANGED <<today, enabled, task, escalations, silent, lost, edits, faults>>
  <2>1. UNCHANGED <<today, enabled, task, escalations, silent, lost, edits, faults>>
    BY DEF EnqueueNotification, History
  <2>2. n.key = Escalation(scan.at)
    OBVIOUS
  <2>3. CASE \E m \in outbox : m.key = Escalation(scan.at)
    BY <2>1, <2>3 DEF EnqueueNotification
  <2>4. CASE ~ \E m \in outbox : m.key = Escalation(scan.at)
    <3>1. outbox' = outbox \cup {n}
      BY <2>4 DEF EnqueueNotification
    <3> HIDE DEF n
    <3> QED
      BY <2>1, <2>2, <3>1
  <2> QED
    BY <2>3, <2>4
<1>4. TypeOK'
  <2>1. n \in [key : Tasks \X Levels, to : Users]
    BY <1>1
  <2> QED
    BY <1>0, <1>2, <1>3, <2>1 DEF TypeOK, Scans
<1>5. InSeason'
  BY <1>1, <1>3 DEF SlaInv, InSeason, LevelToday
<1> QED
  BY <1>0, <1>2, <1>3, <1>4, <1>5, WrittenStep

LEMMA FaultStep == ASSUME SlaInv, ScanAborts \/ EnqueueFails PROVE SlaInv'
<1>0. TypeOK /\ 0 \in 0 .. Days /\ today \in Int /\ 0 <= today
  BY BoundsAssumption DEF SlaInv, TypeOK
<1>1. /\ UNCHANGED <<today, enabled, task, escalations, outbox, silent, edits>>
      /\ faults' \in Nat
      /\ lost' = IF Writing THEN lost \cup {scan.at.task} ELSE lost
  BY <1>0 DEF ScanAborts, EnqueueFails, Fault, TypeOK, Writing
<1>2. Writing => scan.at.task \in Tasks
  BY <1>0, CopyTypes DEF SlaInv, UnderWay
<1>3. scan' = Idle \/ (/\ scan' \in Scans /\ scan'.step = "next" /\ scan'.day = scan.day
                       /\ scan'.todo = scan.todo /\ Writing)
  BY <1>0, ProceedFields DEF ScanAborts, EnqueueFails, Writing
<1>4. TypeOK'
  BY <1>0, <1>1, <1>2, <1>3 DEF TypeOK, Scans, Idle
<1>5. InSeason'
  BY <1>1 DEF SlaInv, InSeason, LevelToday
<1>6. CASE Writing
  BY <1>1, <1>3, <1>4, <1>5, <1>6, WrittenStep
<1>7. CASE ~ Writing
  <2>1. CopiesAgree'
    BY <1>0, <1>1, <1>3, <1>7 DEF CopiesAgree, Idle
  <2>2. ~ Writing'
    BY <1>3, <1>7 DEF Writing, Idle
  <2> QED
    BY <1>1, <1>4, <1>7, <2>1, <2>2, ScanOnlyStep
<1> QED
  BY <1>6, <1>7

LEMMA SlaStep == ASSUME SlaInv, [Next]_vars PROVE SlaInv'
BY UserStep, StartScanStep, EndScanStep, SkipStep, UpdateStateStep, RecordStep, NotifyStep, FaultStep
   DEF Next, Worker

LEMMA Alarms == SlaInv => AlarmsAreReal
<1> SUFFICES ASSUME SlaInv, NEW n \in outbox
             PROVE  /\ n.key \in escalations
                    /\ task[n.key[1]].deadline - today <= 1
                    /\ n.key[2] = 2 => task[n.key[1]].deadline < today
  BY DEF AlarmsAreReal
<1>0. TypeOK
  BY DEF SlaInv
<1>1. n.key \in escalations /\ n.key[1] \in Tasks /\ n.key[2] \in Int
  BY <1>0 DEF SlaInv, InSeason, TypeOK, Levels
<1> DEFINE t == n.key[1]
<1>2. 1 <= n.key[2] /\ n.key[2] <= task[t].level /\ task[t].level <= LevelToday(t)
  BY <1>1 DEF SlaInv, InSeason
<1>3. task[t].deadline \in Int /\ today \in Int /\ task[t].level \in Int
  BY <1>0, <1>1, CopyTypes
<1>4. LevelToday(t) = LevelOf(task[t].deadline - today) /\ LevelToday(t) \in Int
  BY <1>3, LevelRange DEF LevelToday, Levels
<1>5. LevelOf(task[t].deadline - today) >= 1 /\ (n.key[2] = 2 => LevelOf(task[t].deadline - today) = 2)
  BY <1>1, <1>2, <1>3, <1>4, LevelRange DEF Levels
<1> QED
  BY <1>1, <1>3, <1>5 DEF LevelOf

LEMMA Escalated == SlaInv => LevelsAreEscalated
BY DEF SlaInv, Recorded, LevelsAreEscalated, Escalation

LEMMA Rising ==
  ASSUME SlaInv, [Next]_vars
  PROVE  \A t \in Tasks : task'[t].level >= task[t].level
<1>0. TypeOK /\ \A t \in Tasks : task[t].level \in Int
  BY CopyTypes DEF SlaInv
<1>1. ASSUME NEW c \in scan.todo, UpdateState(c)
      PROVE  \A t \in Tasks : task'[t].level >= task[t].level
  BY <1>0, <1>1, Storing
<1>2. CASE \E t \in Tasks : Close(t) \/ \E u \in Users \cup {None} : Assign(t, u)
  BY <1>0, <1>2 DEF Close, Assign, TypeOK, Row
<1>3. CASE UNCHANGED task
  BY <1>0, <1>3
<1> QED
  BY <1>1, <1>2, <1>3 DEF Next, Worker, vars, Toggle, NewDay, StartScan, EndScan, Skip,
                          RecordEscalation, EnqueueNotification, ScanAborts, EnqueueFails

-----------------------------------------------------------------------------

LEMMA Invariance == Spec => []SlaInv
BY SlaInit, SlaStep, PTL DEF Spec

\* The types of the rows, the scan and the escalations.
THEOREM TypeCorrect == Spec => []TypeOK
<1>1. SlaInv => TypeOK
  BY DEF SlaInv
<1> QED
  BY <1>1, Invariance, PTL

\* A stored level has its escalation and an escalation its notification, whatever users do to the
\* task between the three writes, unless a fault came in between.
THEOREM LevelsEscalated == Spec => []LevelsAreEscalated
BY Invariance, Escalated, PTL

\* No alarm is early: a scan that began before midnight does not alarm for the day after.
THEOREM AlarmsReal == Spec => []AlarmsAreReal
BY Invariance, Alarms, PTL

\* The level a scan stores from its copy is never below the stored one.
THEOREM LevelsRise == Spec => LevelsOnlyRise
BY Invariance, Rising, PTL DEF Spec, LevelsOnlyRise

=============================================================================
