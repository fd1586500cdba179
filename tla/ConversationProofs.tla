------------------------- MODULE ConversationProofs -------------------------
(***************************************************************************)
(* Theorems about the conversation of one chat.  The inductive invariant   *)
(* has, besides the types, four parts: a screen is torn only after a fault *)
(* (TornForCause), what the active screen asks for and offers fits the     *)
(* stores (ScreenFits), a draft whose task is stored is gone               *)
(* (FinishedDraftsAreClosed), and a button by which a guided draft can     *)
(* become a task, on the screen or just edited away, stands for the text   *)
(* that was shown (DraftWasShown).                                         *)
(*                                                                         *)
(* Every step either shows a screen (ShowStep), or leaves the screen as it *)
(* is (KeepStep), or tells the user that a service failed (FailStep); what *)
(* is left to prove about an operation is that the view it shows fits the  *)
(* stores it leaves (Fits) and the draft (DraftStep).                      *)
(***************************************************************************)
EXTENDS Conversation, SequenceTheorems, TLAPS

PlainNames ==
    {"MenuHome", "MenuCreate", "StartQuickCreate", "StartGuidedCreate", "ListTasks",
     "VoiceCreateCancel"} \cup Views

DraftNames ==
    {"DraftSkipAssignee", "DraftSkipDeadline", "DraftSubmit", "VoiceCreateConfirm",
     "VoiceCreateEdit", "VoiceCreateBack", "ClarificationCreateUnassigned"}

TaskNames == {"OpenTask"} \cup CardButtons

PlainButtons(stored) ==
    {<<name>> : name \in PlainNames}
      \cup (TaskNames \X stored) \cup ({"UpdateTaskStatus"} \X stored \X {"open", "closed"})

\* The buttons there may be while the tasks stored are there.
Buttons(stored) ==
    PlainButtons(stored)
      \cup {<<name>> : name \in DraftNames}
      \cup ({"GuidedAssigneeConfirm", "ClarificationPickEmployee"} \X Employees)
      \cup ({"DraftEdit"} \X Steps)

Stores ==
    [session : {None, QuickCapture} \cup Draft \cup VoiceDraft, selection : {None} \cup Selection,
     interaction : {None} \cup Interaction]

StoresOK(stores, stored) ==
    /\ stores \in Stores
    /\ stores.selection # None /\ stores.selection.for = "reassign" => stores.selection.task \in stored
    /\ stores.interaction # None => stores.interaction.task \in stored

Types ==
    /\ keyboards \in Seq(SUBSET Buttons(Stored)) /\ late \subseteq Buttons(Stored)
    /\ active \in {None} \cup [msg : DOMAIN keyboards, screen : Screen]
    /\ StoresOK(chat, Stored)
    /\ tasks \in [Keys -> Task \cup {None}]
    /\ shown \in {None} \cup Said
    /\ torn \in BOOLEAN /\ faults \in Nat
    /\ Len(keyboards) + faults <= MaxEvents

TornForCause == (torn => faults > 0) /\ (active = None /\ keyboards # <<>> => torn)

ModeOf(session) == IF session = None THEN "none" ELSE session.mode

PromptFits(screen, session) ==
    /\ screen \in {<<"GuidedStep", step>> : step \in Steps \ {"Confirm"}} =>
         ModeOf(session) = "guided" /\ session.step = screen[2]
    /\ screen = <<"VoiceCreate", "EditTranscript">> =>
         ModeOf(session) = "voice" /\ session.step = "EditTranscript"

ButtonLives(button, stores) ==
    /\ button[1] \in DraftButtons => ModeOf(stores.session) = "guided"
    /\ button[1] \in {"VoiceCreateConfirm", "VoiceCreateEdit", "VoiceCreateBack"} =>
         ModeOf(stores.session) = "voice"
    /\ button[1] = "ClarificationPickEmployee" =>
         stores.selection # None /\ button[2] \in stores.selection.candidates

ShowsFor(screen, keyboard, stores) ==
    PromptFits(screen, stores.session) /\ \A button \in keyboard : ButtonLives(button, stores)

ScreenFits ==
    (active # None /\ ~torn) => ShowsFor(active.screen, keyboards[active.msg], chat)

Visible == IF active = None THEN {} ELSE keyboards[active.msg]

Submits(keyboard) == <<"DraftSubmit">> \in keyboard

IsChoice(button) == button[1] \in {"ClarificationPickEmployee", "ClarificationCreateUnassigned"}

Chooses(keyboard) == \E button \in keyboard : IsChoice(button)

ShownFits(text) == shown # None /\ shown.text \in {None, text}

\* The question that is pending is about the draft.
AsksOf(stores) ==
    /\ stores.selection # None /\ stores.selection.for = "create"
    /\ stores.selection.request.key = stores.session.key

DraftWasShown ==
    (faults = 0 /\ ModeOf(chat.session) = "guided") =>
        /\ Submits(Visible) =>
             /\ shown # None /\ shown.text = chat.session.text
             /\ chat.session.step = "Confirm" \/ chat.session.text = None
        /\ Submits(late) /\ chat.session.text # None => ShownFits(chat.session.text)
        /\ Chooses(Visible) /\ AsksOf(chat) =>
             chat.session.text = chat.selection.request.text /\ ShownFits(chat.session.text)
        /\ Chooses(late) /\ AsksOf(chat) => ShownFits(chat.selection.request.text)

IInv == Types /\ TornForCause /\ ScreenFits /\ FinishedDraftsAreClosed /\ DraftWasShown

(***************************************************************************)
(* Steps.                                                                  *)
(***************************************************************************)
Presentable(stored) ==
    [screen : Screen, keyboard : SUBSET Buttons(stored), says : {None} \cup Said]

\* The screen a step takes for the active one.
OnOK(on) ==
    \/ on = active
    \/ active = None /\ torn /\ on \in [msg : DOMAIN keyboards, screen : Screen]

\* What every step leaves behind.
Settled ==
    /\ StoresOK(chat', Stored')
    /\ tasks' \in [Keys -> Task \cup {None}]
    /\ Stored \subseteq Stored'

Unfinished ==
    ModeOf(chat'.session) \in {"guided", "voice"} =>
        \/ tasks'[chat'.session.key] = None
        \/ /\ ModeOf(chat.session) \in {"guided", "voice"}
           /\ chat.session.key = chat'.session.key
           /\ tasks[chat.session.key] = None => tasks'[chat.session.key] = None

\* No step of the kind stores a new task.
StoresNothing == \A key \in Keys : tasks[key] = None => tasks'[key] = None

\* How a step that shows a view may change a guided draft and the question about it.
DraftStep(view) ==
    ModeOf(chat'.session) = "guided" =>
        /\ view.says # None => view.says.text = chat'.session.text
        /\ Submits(view.keyboard) =>
             view.says # None /\ (chat'.session.step = "Confirm" \/ chat'.session.text = None)
        /\ \/ /\ chat'.session.text = None /\ chat'.selection = None /\ ~Chooses(view.keyboard)
           \/ /\ ModeOf(chat.session) = "guided"
              /\ chat'.session.text = chat.session.text
              /\ AsksOf(chat') => AsksOf(chat) /\ chat'.selection = chat.selection
              /\ ~Chooses(view.keyboard)
           \/ /\ ModeOf(chat.session) = "guided"
              /\ chat.session.step = "Description" /\ chat'.session.text # None
              /\ AsksOf(chat') => AsksOf(chat) /\ chat'.selection = chat.selection
              /\ view.says = None /\ ~Submits(view.keyboard) /\ ~Chooses(view.keyboard)
           \/ /\ ModeOf(chat.session) = "guided"
              /\ chat'.session.text = chat.session.text /\ chat'.session.text # None
              /\ chat'.selection.request.text = chat'.session.text
              /\ faults = 0 => ShownFits(chat'.session.text)
              /\ view.says = None

\* What could be pressed before a task was stored can be pressed after it.
LEMMA ButtonsGrow ==
  ASSUME NEW S, NEW T, S \subseteq T
  PROVE  Buttons(S) \subseteq Buttons(T)
<1>1. (TaskNames \X S) \subseteq (TaskNames \X T)
  OBVIOUS
<1>2. ({"UpdateTaskStatus"} \X S \X {"open", "closed"})
        \subseteq ({"UpdateTaskStatus"} \X T \X {"open", "closed"})
  OBVIOUS
<1> QED  BY <1>1, <1>2 DEF Buttons, PlainButtons

\* The places and keyboards of the state before are still there.
LEMMA TypesStay ==
  ASSUME Types, Settled
  PROVE  /\ keyboards \in Seq(SUBSET Buttons(Stored')) /\ late \subseteq Buttons(Stored')
         /\ Len(keyboards) \in Nat /\ DOMAIN keyboards = 1..Len(keyboards)
<1>1. Buttons(Stored) \subseteq Buttons(Stored')
  BY ButtonsGrow DEF Settled
<1>2. keyboards \in Seq(SUBSET Buttons(Stored)) /\ late \subseteq Buttons(Stored)
  BY DEF Types
<1>3. SUBSET Buttons(Stored) \subseteq SUBSET Buttons(Stored')
  BY <1>1
<1>4. keyboards \in Seq(SUBSET Buttons(Stored'))
  BY <1>2, <1>3, SeqMonotonic
<1> QED  BY <1>1, <1>2, <1>4, LenProperties

\* A view that comes with an edit.
LEMMA EditStep ==
  ASSUME IInv, Settled, NEW on, OnOK(on), NEW view \in Presentable(Stored'), Edit(on, view)
  PROVE  /\ Types' /\ TornForCause' /\ faults' = faults /\ torn' = FALSE
         /\ active' # None /\ active'.screen = view.screen
         /\ keyboards'[active'.msg] = view.keyboard
         /\ faults = 0 => late' \subseteq Visible
<1>1. on \in [msg : DOMAIN keyboards, screen : Screen]
  BY DEF IInv, Types, OnOK, Edit
<1>2. /\ keyboards \in Seq(SUBSET Buttons(Stored')) /\ late \subseteq Buttons(Stored')
      /\ Len(keyboards) \in Nat /\ DOMAIN keyboards = 1..Len(keyboards)
  BY TypesStay DEF IInv
<1>3. view.keyboard \in SUBSET Buttons(Stored') /\ view.screen \in Screen
      /\ view.says \in {None} \cup Said
  BY DEF Presentable
<1>4. on.msg \in 1..Len(keyboards)
  BY <1>1, <1>2
<1>5. /\ [keyboards EXCEPT ![on.msg] = view.keyboard] \in Seq(SUBSET Buttons(Stored'))
      /\ Len([keyboards EXCEPT ![on.msg] = view.keyboard]) = Len(keyboards)
      /\ [keyboards EXCEPT ![on.msg] = view.keyboard][on.msg] = view.keyboard
  BY <1>2, <1>3, <1>4, ExceptSeq
<1>6. /\ keyboards' \in Seq(SUBSET Buttons(Stored')) /\ Len(keyboards') = Len(keyboards)
      /\ keyboards'[on.msg] = view.keyboard
  BY <1>5 DEF Edit
<1>7. DOMAIN keyboards' = DOMAIN keyboards
  BY <1>2, <1>6, LenProperties
<1>8. active' = [on EXCEPT !.screen = view.screen]
  BY DEF Edit
<1>9. /\ active' \in [msg : DOMAIN keyboards, screen : Screen]
      /\ active'.msg = on.msg /\ active'.screen = view.screen
  BY <1>1, <1>3, <1>8
<1>10. active' # None
  <2>1. active' \in Place
    BY <1>9, <1>2 DEF Place
  <2> QED  BY <2>1, NoneAssumption
<1>11. keyboards[on.msg] \in SUBSET Buttons(Stored')
  BY <1>2, <1>4, ElementOfSeq
<1>12. late' \subseteq Buttons(Stored')
  BY <1>11 DEF Edit
<1>13. shown' \in {None} \cup Said /\ torn' = FALSE /\ faults' = faults
  BY <1>3 DEF Edit, Arrived, IInv, Types
<1>14. Types'
  BY <1>6, <1>7, <1>9, <1>12, <1>13 DEF Types, IInv, Settled
<1>15. TornForCause'
  BY <1>10, <1>13 DEF TornForCause
<1>16. faults = 0 => late' \subseteq Visible
  <2> SUFFICES ASSUME faults = 0 PROVE late' \subseteq Visible
    OBVIOUS
  <2>1. ~torn
    BY DEF IInv, TornForCause
  <2>2. on = active /\ active # None
    BY <2>1 DEF OnOK, Edit
  <2> QED  BY <2>2 DEF Visible, Edit
<1> QED  BY <1>6, <1>9, <1>10, <1>13, <1>14, <1>15, <1>16

\* A view that comes with a new message.
LEMMA SendStep ==
  ASSUME IInv, Settled, NEW view \in Presentable(Stored'), SendMessage(view)
  PROVE  /\ Types' /\ TornForCause' /\ faults' = faults /\ torn' = FALSE
         /\ active' # None /\ active'.screen = view.screen
         /\ keyboards'[active'.msg] = view.keyboard
         /\ late' = {}
<1>2. /\ keyboards \in Seq(SUBSET Buttons(Stored'))
      /\ Len(keyboards) \in Nat /\ DOMAIN keyboards = 1..Len(keyboards)
  BY TypesStay DEF IInv
<1>3. view.keyboard \in SUBSET Buttons(Stored') /\ view.screen \in Screen
      /\ view.says \in {None} \cup Said
  BY DEF Presentable
<1>5. /\ Append(keyboards, view.keyboard) \in Seq(SUBSET Buttons(Stored'))
      /\ Len(Append(keyboards, view.keyboard)) = Len(keyboards) + 1
      /\ Append(keyboards, view.keyboard)[Len(keyboards) + 1] = view.keyboard
  BY <1>2, <1>3, AppendProperties
<1>6. /\ keyboards' \in Seq(SUBSET Buttons(Stored')) /\ Len(keyboards') = Len(keyboards) + 1
      /\ keyboards'[Len(keyboards) + 1] = view.keyboard
  BY <1>5 DEF SendMessage
<1>7. DOMAIN keyboards' = 1..(Len(keyboards) + 1)
  BY <1>6, LenProperties
<1>8. active' = [msg |-> Len(keyboards) + 1, screen |-> view.screen]
  BY DEF SendMessage
<1>9. /\ active' \in [msg : DOMAIN keyboards', screen : Screen]
      /\ active'.msg = Len(keyboards) + 1 /\ active'.screen = view.screen
  BY <1>2, <1>3, <1>7, <1>8
<1>10. active' # None
  <2>1. active' \in Place
    BY <1>2, <1>3, <1>8 DEF Place
  <2> QED  BY <2>1, NoneAssumption
<1>12. late' = {}
  BY DEF SendMessage
<1>13. shown' \in {None} \cup Said /\ torn' = FALSE /\ faults' = faults
  BY <1>3 DEF SendMessage, Arrived, IInv, Types
<1>14. Len(keyboards') + faults' <= MaxEvents
  BY <1>2, <1>6, <1>13, EventsAssumption DEF SendMessage, IInv, Types
<1>15. Types'
  BY <1>6, <1>9, <1>12, <1>13, <1>14 DEF Types, IInv, Settled
<1>16. TornForCause'
  BY <1>10, <1>13 DEF TornForCause
<1> QED  BY <1>6, <1>9, <1>10, <1>12, <1>13, <1>15, <1>16

\* A step behind a fault owes nothing but types.
LEMMA FaultStep ==
  ASSUME IInv, Settled, NEW on, OnOK(on),
         Len(keyboards) + faults < MaxEvents, faults' = faults + 1, torn' = TRUE,
         active' = on, shown' = shown,
         \/ UNCHANGED <<keyboards, late>>
         \/ \E view \in Presentable(Stored') : LoseAnswer(on, view)
  PROVE  IInv'
<1>1. /\ keyboards \in Seq(SUBSET Buttons(Stored')) /\ late \subseteq Buttons(Stored')
      /\ Len(keyboards) \in Nat /\ DOMAIN keyboards = 1..Len(keyboards)
  BY TypesStay DEF IInv
<1>2. on \in {None} \cup [msg : DOMAIN keyboards, screen : Screen]
  BY DEF IInv, Types, OnOK
<1>3. /\ keyboards' \in Seq(SUBSET Buttons(Stored')) /\ late' \subseteq Buttons(Stored')
      /\ Len(keyboards') = Len(keyboards)
  <2>1. CASE UNCHANGED <<keyboards, late>>
    BY <1>1, <2>1
  <2>2. ASSUME NEW view \in Presentable(Stored'), LoseAnswer(on, view)
        PROVE  /\ keyboards' \in Seq(SUBSET Buttons(Stored')) /\ late' \subseteq Buttons(Stored')
               /\ Len(keyboards') = Len(keyboards)
    <3>1. view.keyboard \in SUBSET Buttons(Stored')
      BY <2>2 DEF Presentable
    <3>2. on # None /\ on.msg \in 1..Len(keyboards)
      BY <1>1, <1>2, <2>2 DEF LoseAnswer
    <3>3. /\ [keyboards EXCEPT ![on.msg] = view.keyboard] \in Seq(SUBSET Buttons(Stored'))
          /\ Len([keyboards EXCEPT ![on.msg] = view.keyboard]) = Len(keyboards)
      BY <1>1, <3>1, <3>2, ExceptSeq
    <3>4. keyboards[on.msg] \in SUBSET Buttons(Stored')
      BY <1>1, <3>2, ElementOfSeq
    <3> QED  BY <2>2, <3>3, <3>4 DEF LoseAnswer
  <2> QED  BY <2>1, <2>2
<1>4. DOMAIN keyboards' = DOMAIN keyboards
  BY <1>1, <1>3, LenProperties
<1>5. faults' \in Nat /\ faults' > 0 /\ Len(keyboards') + faults' <= MaxEvents
  BY <1>1, <1>3, EventsAssumption DEF IInv, Types
<1>6. Types'
  BY <1>2, <1>3, <1>4, <1>5 DEF Types, IInv, Settled
<1> QED  BY <1>5, <1>6 DEF IInv, TornForCause, ScreenFits, FinishedDraftsAreClosed, DraftWasShown

\* A step whose answer fails to be shown preserves the invariant.
LEMMA FailStep ==
  ASSUME IInv, Settled, NEW on, OnOK(on), ServiceFails(on)
  PROVE  IInv'
BY FaultStep DEF ServiceFails, KeepScreen

\* The session after a step has an unused key, or the key it had, unused if it was unused:
\* the step leaves no draft open whose task exists.
LEMMA FinishedStep ==
  ASSUME IInv, Unfinished, faults' = faults
  PROVE  FinishedDraftsAreClosed'
BY DEF IInv, Unfinished, FinishedDraftsAreClosed, Mode, ModeOf

\* The arrival of a view leaves a guided draft accounted for.
LEMMA DraftShows ==
  ASSUME IInv, Types', NEW view, DraftStep(view), Arrived(view),
         Visible' = view.keyboard, faults = 0 => late' \subseteq Visible
  PROVE  DraftWasShown'
<1>1. SUFFICES ASSUME faults = 0, ModeOf(chat'.session) = "guided"
               PROVE  DraftWasShown'
  BY DEF DraftWasShown, Arrived
<1> DEFINE old == chat.session
           new == chat'.session
<1>2. ModeOf(old) = "guided" =>
         /\ Submits(Visible) =>
              shown # None /\ shown.text = old.text /\ (old.step = "Confirm" \/ old.text = None)
         /\ Chooses(Visible) /\ AsksOf(chat) =>
              old.text = chat.selection.request.text /\ ShownFits(old.text)
  BY <1>1 DEF IInv, DraftWasShown
<1>3. Submits(late') => Submits(Visible)
  BY <1>1 DEF Submits
<1>4. Chooses(late') => Chooses(Visible)
  BY <1>1 DEF Chooses
<1>5. shown' = IF view.says # None THEN view.says ELSE IF Starting(new) THEN None ELSE shown
  BY DEF Arrived
<1>6. view.says # None => view.says.text = new.text
  BY <1>1 DEF DraftStep
<1>7. Submits(view.keyboard) => view.says # None /\ (new.step = "Confirm" \/ new.text = None)
  BY <1>1 DEF DraftStep
<1>8. new \in Draft /\ new # None /\ new # QuickCapture
  <2>1. new # None /\ new.mode = "guided"
    BY <1>1 DEF ModeOf
  <2>2. new \in {None, QuickCapture} \cup Draft \cup VoiceDraft
    BY DEF Types, StoresOK, Stores
  <2>3. QuickCapture.mode = "quick"
    BY DEF QuickCapture
  <2>4. \A d \in VoiceDraft : d.mode = "voice"
    BY DEF VoiceDraft
  <2> QED  BY <2>1, <2>2, <2>3, <2>4
<1>9. Starting(new) <=> new.text = None
  BY <1>8 DEF Starting
<1>10. AsksOf(chat') => chat'.selection.request.text \in Texts
  <2>1. chat'.selection \in {None} \cup Selection
    BY DEF Types, StoresOK, Stores
  <2> QED  BY <2>1 DEF AsksOf, Selection, Request
<1> HIDE DEF old, new
<1> DEFINE Goal ==
        /\ Submits(view.keyboard) =>
             /\ shown' # None /\ shown'.text = new.text
             /\ new.step = "Confirm" \/ new.text = None
        /\ Submits(late') /\ new.text # None => shown' # None /\ shown'.text \in {None, new.text}
        /\ Chooses(view.keyboard) /\ AsksOf(chat') =>
             new.text = chat'.selection.request.text /\ shown' # None /\ shown'.text \in {None, new.text}
        /\ Chooses(late') /\ AsksOf(chat') =>
             shown' # None /\ shown'.text \in {None, chat'.selection.request.text}
<1>11. Goal
  <2>1. CASE new.text = None /\ chat'.selection = None /\ ~Chooses(view.keyboard)
    <3>1. ~AsksOf(chat')
      BY <2>1 DEF AsksOf
    <3> QED  BY <1>5, <1>6, <1>7, <2>1, <3>1
  <2>2. CASE /\ ModeOf(old) = "guided" /\ new.text = old.text
             /\ AsksOf(chat') => AsksOf(chat) /\ chat'.selection = chat.selection
             /\ ~Chooses(view.keyboard)
    <3>1. Submits(late') /\ new.text # None => shown' # None /\ shown'.text = new.text
      BY <1>2, <1>3, <1>5, <1>6, <1>9, <2>2
    <3>2. Chooses(late') /\ AsksOf(chat') =>
             shown' # None /\ shown'.text \in {None, chat'.selection.request.text}
      BY <1>2, <1>4, <1>5, <1>6, <1>9, <1>10, <2>2, NoneAssumption DEF ShownFits
    <3> QED  BY <1>5, <1>6, <1>7, <2>2, <3>1, <3>2
  <2>3. CASE /\ ModeOf(old) = "guided" /\ old.step = "Description" /\ new.text # None
             /\ AsksOf(chat') => AsksOf(chat) /\ chat'.selection = chat.selection
             /\ view.says = None /\ ~Submits(view.keyboard) /\ ~Chooses(view.keyboard)
    <3>1. shown' = shown
      BY <1>5, <1>9, <2>3
    <3> QED  BY <1>2, <1>3, <1>4, <2>3, <3>1 DEF ShownFits
  <2>4. CASE /\ ModeOf(old) = "guided" /\ new.text = old.text /\ new.text # None
             /\ chat'.selection.request.text = new.text
             /\ ShownFits(new.text) /\ view.says = None
    <3>1. shown' = shown
      BY <1>5, <1>9, <2>4
    <3> QED  BY <1>7, <2>4, <3>1 DEF ShownFits
  <2> QED  BY <1>1, <2>1, <2>2, <2>3, <2>4 DEF DraftStep, old, new
<1> QED  BY <1>11 DEF DraftWasShown, ShownFits, new

\* A step that shows a view keeps the invariant when the view fits what the step leaves.
LEMMA ShowStep ==
  ASSUME IInv, Settled, Unfinished, NEW on, OnOK(on), NEW view \in Presentable(Stored'),
         ShowsFor(view.screen, view.keyboard, chat'), DraftStep(view), SendScreen(on, view)
  PROVE  IInv'
<1>1. CASE Edit(on, view) \/ SendMessage(view)
  <2>1. /\ Types' /\ TornForCause' /\ faults' = faults /\ torn' = FALSE
        /\ active' # None /\ active'.screen = view.screen
        /\ keyboards'[active'.msg] = view.keyboard
        /\ faults = 0 => late' \subseteq Visible
    BY <1>1, EditStep, SendStep
  <2>2. Arrived(view)
    BY <1>1 DEF Edit, SendMessage
  <2>3. ScreenFits'
    BY <2>1 DEF ScreenFits
  <2>4. FinishedDraftsAreClosed'
    BY <2>1, FinishedStep
  <2>5. DraftWasShown'
    BY <2>1, <2>2, DraftShows DEF Visible
  <2> QED  BY <2>1, <2>3, <2>4, <2>5 DEF IInv
<1>2. CASE LoseAnswer(on, view) \/ NothingArrives(on)
  BY <1>2, FaultStep DEF LoseAnswer, NothingArrives, LoseScreen
<1> QED  BY <1>1, <1>2 DEF SendScreen

\* A step that leaves the screen, the draft and the question as they are.
LEMMA KeepStep ==
  ASSUME IInv, NEW on, OnOK(on), KeepScreen(on), UNCHANGED <<tasks, torn, faults>>,
         StoresOK(chat', Stored), chat'.session = chat.session, chat'.selection = chat.selection
  PROVE  IInv'
<1>1. Stored' = Stored /\ Buttons(Stored') = Buttons(Stored)
  BY DEF Stored, Buttons, PlainButtons
<1>2. on \in {None} \cup [msg : DOMAIN keyboards, screen : Screen]
  BY DEF IInv, Types, OnOK
<1>3. Types'
  BY <1>1, <1>2 DEF IInv, Types, KeepScreen
<1>4. TornForCause'
  BY DEF IInv, TornForCause, OnOK, KeepScreen
<1>5. FinishedDraftsAreClosed'
  BY DEF IInv, FinishedDraftsAreClosed, Mode
<1>6. CASE on = active
  <2>1. ScreenFits'
    BY <1>6 DEF IInv, ScreenFits, KeepScreen, ShowsFor, PromptFits, ButtonLives
  <2>2. Visible' = Visible /\ AsksOf(chat') = AsksOf(chat)
    BY <1>6 DEF Visible, KeepScreen, AsksOf
  <2>3. DraftWasShown'
    BY <2>2 DEF IInv, DraftWasShown, ShownFits, KeepScreen
  <2> QED  BY <1>3, <1>4, <1>5, <2>1, <2>3 DEF IInv
<1>7. CASE torn
  BY <1>3, <1>4, <1>5, <1>7 DEF IInv, TornForCause, ScreenFits, DraftWasShown
<1> QED  BY <1>6, <1>7 DEF OnOK

(***************************************************************************)
(* Views.  The plain ones ask for nothing and offer nothing of a draft or  *)
(* a question.                                                             *)
(***************************************************************************)
PlainView(view, stored) ==
    /\ view \in [screen : Screen, keyboard : SUBSET PlainButtons(stored), says : {None}]
    /\ view.screen[1] \notin {"GuidedStep", "VoiceCreate"}

\* The lists of screens a button is accepted on hold names of screens.
LEMMA NamesOfScreens ==
  (ScreensOf.Unknown \cup ScreensOf.Main \cup ScreensOf.Creation \cup ScreensOf.TaskDetail)
    \subseteq ScreenNames
<1>1. {"Unknown", "Main", "Creation", "TaskDetail"} \subseteq DOMAIN ScreensOf
  BY DEF ScreensOf
<1>2. \A stage \in DOMAIN ScreensOf : ScreensOf[stage] \subseteq ScreenNames
  BY DEF ScreenNames
<1> QED  BY <1>1, <1>2

\* A plain keyboard has no button of a draft, a spoken draft or a choice.
LEMMA PlainHasNoDraft ==
  ASSUME NEW S, NEW button \in PlainButtons(S)
  PROVE  /\ button[1] \in PlainNames \cup TaskNames
         /\ button[1] \notin DraftButtons
         /\ button[1] \notin {"VoiceCreateConfirm", "VoiceCreateEdit", "VoiceCreateBack"}
         /\ ~IsChoice(button)
<1>1. button[1] \in PlainNames \cup TaskNames
  <2>1. CASE \E name \in PlainNames : button = <<name>>
    BY <2>1
  <2>2. CASE button \in TaskNames \X S
    BY <2>2
  <2>3. CASE button \in {"UpdateTaskStatus"} \X S \X {"open", "closed"}
    BY <2>3 DEF TaskNames, CardButtons
  <2> QED  BY <2>1, <2>2, <2>3 DEF PlainButtons
<1>2. Views \subseteq {"MenuHelp", "MenuSettings", "MenuStats", "MenuTeamStats",
                       "MenuSyncEmployees", "ListTasks"}
  BY ViewsAssumption DEF ScreensOf
<1> QED  BY <1>1, <1>2 DEF PlainNames, TaskNames, CardButtons, DraftButtons, IsChoice

\* A plain view may be shown whatever the stores hold.
LEMMA PlainFits ==
  ASSUME NEW S, NEW view, PlainView(view, S), NEW stores
  PROVE  /\ view \in Presentable(S) /\ view.says = None
         /\ ~Submits(view.keyboard) /\ ~Chooses(view.keyboard)
         /\ ShowsFor(view.screen, view.keyboard, stores)
<1>1. view \in [screen : Screen, keyboard : SUBSET PlainButtons(S), says : {None}]
      /\ view.screen[1] \notin {"GuidedStep", "VoiceCreate"}
  BY DEF PlainView
<1>2. PlainButtons(S) \subseteq Buttons(S)
  BY DEF Buttons
<1>3. view \in Presentable(S)
  BY <1>1, <1>2 DEF Presentable
<1>4. \A button \in view.keyboard : ButtonLives(button, stores) /\ ~IsChoice(button)
  BY <1>1, PlainHasNoDraft DEF ButtonLives, IsChoice
<1>5. ~Submits(view.keyboard)
  <2>1. <<"DraftSubmit">>[1] \in DraftButtons
    BY DEF DraftButtons
  <2> QED  BY <1>1, <2>1, PlainHasNoDraft DEF Submits
<1>6. PromptFits(view.screen, stores.session)
  <2>1. \A step \in Steps : view.screen # <<"GuidedStep", step>>
    BY <1>1
  <2>2. view.screen # <<"VoiceCreate", "EditTranscript">>
    BY <1>1
  <2> QED  BY <2>1, <2>2 DEF PromptFits
<1> QED  BY <1>1, <1>3, <1>4, <1>5, <1>6 DEF ShowsFor, Chooses

\* The menus and lists that depend on no task are plain.
LEMMA PlainPages ==
  ASSUME NEW S
  PROVE  /\ PlainView(MainMenuView, S) /\ PlainView(CreateMenuView, S)
         /\ \A page \in Views : PlainView(PageView(page), S)
         /\ PlainView(View(<<"Unknown">>, MainMenuKeyboard(Views)), S)
         /\ PlainView(View(<<"Processing">>, NoKeyboard), S)
         /\ PlainView(View(<<"QuickCreate">>, QuickCaptureKeyboard), S)
         /\ \A step \in Steps : MainMenuKeyboard(Views) \subseteq PlainButtons(S)
<1>1. /\ MainMenuKeyboard(Views) \subseteq PlainButtons(S)
      /\ CreateMenuKeyboard \subseteq PlainButtons(S) /\ NoKeyboard \subseteq PlainButtons(S)
      /\ QuickCaptureKeyboard \subseteq PlainButtons(S)
  BY DEF MainMenuKeyboard, CreateMenuKeyboard, NoKeyboard, QuickCaptureKeyboard, Home, PlainButtons,
         PlainNames
<1>2. \A name \in {"MainMenu", "CreateMenu", "Unknown", "Processing", "QuickCreate"} \cup Views :
         <<name>> \in Screen /\ <<name>>[1] \notin {"GuidedStep", "VoiceCreate"}
  BY NamesOfScreens, ViewsAssumption DEF Screen, ScreensOf
<1> QED  BY <1>1, <1>2 DEF PlainView, MainMenuView, CreateMenuView, PageView, View

\* The cards and prompts of a stored task are plain.
LEMMA PlainTasks ==
  ASSUME NEW S \in SUBSET Keys, NEW key \in S
  PROVE  /\ \A task : PlainView(CardOf(key, task), S)
         /\ \A kind \in {"Comment", "Blocker", "Reassign"} :
              PlainView(PromptView([task |-> key, kind |-> kind]), S)
         /\ PlainView(View(<<"CancelConfirmation", key>>, CancelConfirmationKeyboard(key)), S)
         /\ PlainView(View(<<"DeliveryHelp", key>>, DeliveryHelpKeyboard(key)), S)
         /\ PlainView(View(<<"TaskCreationResult", key>>, OutcomeKeyboard(key)), S)
         /\ \A without \in BOOLEAN :
              PlainView(View(<<"TaskCreationResult", key>>, CreatedTaskKeyboard(key, without)), S)
<1>1. \A name \in TaskNames : <<name, key>> \in PlainButtons(S)
  BY DEF PlainButtons
<1>2. \A status \in {"open", "closed"} : MoveTo(key, status) \in PlainButtons(S)
  BY DEF PlainButtons, MoveTo
<1>3. \A name \in PlainNames : <<name>> \in PlainButtons(S)
  BY DEF PlainButtons
<1>4. \A next \in SUBSET {"open", "closed"}, waiting \in BOOLEAN :
         TaskDetailKeyboard(key, next, waiting) \subseteq PlainButtons(S)
  BY <1>1, <1>2, <1>3 DEF TaskDetailKeyboard, TaskNames, CardButtons, Card, Home, PlainNames
<1>5. /\ CancelConfirmationKeyboard(key) \subseteq PlainButtons(S)
      /\ DeliveryHelpKeyboard(key) \subseteq PlainButtons(S)
      /\ OutcomeKeyboard(key) \subseteq PlainButtons(S)
      /\ \A without \in BOOLEAN : CreatedTaskKeyboard(key, without) \subseteq PlainButtons(S)
  BY <1>1, <1>3 DEF CancelConfirmationKeyboard, DeliveryHelpKeyboard, OutcomeKeyboard,
         CreatedTaskKeyboard, TaskNames, CardButtons, Card, Home, PlainNames
<1>6. \A name \in {"TaskDetail", "CancelConfirmation", "DeliveryHelp", "TaskCreationResult"} :
         <<name, key>> \in Screen /\ <<name, key>>[1] \notin {"GuidedStep", "VoiceCreate"}
  BY NamesOfScreens DEF Screen, ScreensOf
<1>7. \A kind \in {"Comment", "Blocker", "Reassign"} :
         /\ <<"TaskInteractionPrompt", key, kind>> \in Screen
         /\ <<"TaskInteractionPrompt", key, kind>>[1] \notin {"GuidedStep", "VoiceCreate"}
  BY NamesOfScreens DEF Screen, ScreensOf
<1>8. \A task : CardOf(key, task).keyboard \subseteq PlainButtons(S)
  <2> TAKE task
  <2>1. (IF task.open THEN {"open", "closed"} ELSE {}) \in SUBSET {"open", "closed"}
    OBVIOUS
  <2>2. (task.assignee # None) \in BOOLEAN
    OBVIOUS
  <2> QED  BY <1>4, <2>1, <2>2 DEF CardOf, View
<1>9. \A task : PlainView(CardOf(key, task), S)
  BY <1>6, <1>8 DEF PlainView, CardOf, View
<1>10. \A kind \in {"Comment", "Blocker", "Reassign"} :
         PlainView(PromptView([task |-> key, kind |-> kind]), S)
  BY <1>7, <1>8 DEF PlainView, PromptView, CardView, View
<1> QED  BY <1>5, <1>6, <1>9, <1>10 DEF PlainView, View

\* So is the list of the stored tasks.
LEMMA PlainList ==
  ASSUME NEW S \in SUBSET Keys
  PROVE  PlainView(View(<<"ListTasks">>, TaskListKeyboard(S)), S)
<1>1. TaskListKeyboard(S) \subseteq PlainButtons(S)
  BY DEF TaskListKeyboard, Card, Home, PlainButtons, PlainNames, TaskNames
<1>2. <<"ListTasks">> \in Screen /\ <<"ListTasks">>[1] \notin {"GuidedStep", "VoiceCreate"}
  BY NamesOfScreens DEF Screen, ScreensOf
<1> QED  BY <1>1, <1>2 DEF PlainView, View

(***************************************************************************)
(* Steps that show a plain view.                                           *)
(***************************************************************************)
KeepsDraft(stores) ==
    /\ stores.session \in {None, QuickCapture, chat.session}
    /\ stores.selection \in {None, chat.selection}

\* The kinds of session exclude each other.
LEMMA ModeFacts ==
  /\ ModeOf(None) = "none" /\ ModeOf(QuickCapture) = "quick"
  /\ \A draft \in Draft : ModeOf(draft) = "guided" /\ draft # None /\ draft # QuickCapture
  /\ \A draft \in VoiceDraft : ModeOf(draft) = "voice" /\ draft # None /\ draft # QuickCapture
<1>1. QuickCapture # None /\ QuickCapture.mode = "quick"
  BY NoneAssumption DEF QuickCapture
<1>2. \A draft \in Draft : draft.mode = "guided" /\ draft # None
  BY NoneAssumption DEF Draft
<1>3. \A draft \in VoiceDraft : draft.mode = "voice" /\ draft # None
  BY NoneAssumption DEF VoiceDraft
<1> QED  BY <1>1, <1>2, <1>3 DEF ModeOf

\* A step that shows a plain view and keeps or ends the session preserves the invariant.
LEMMA PlainStep ==
  ASSUME IInv, Settled, NEW on, OnOK(on), NEW view, PlainView(view, Stored'),
         KeepsDraft(chat'), SendScreen(on, view),
         StoresNothing \/ chat'.session = None
  PROVE  IInv'
<1>1. Unfinished
  <2>1. CASE chat'.session = chat.session
    <3>1. SUFFICES ASSUME ModeOf(chat.session) \in {"guided", "voice"} PROVE Unfinished
      BY <2>1 DEF Unfinished
    <3>2. chat.session \in Draft \cup VoiceDraft /\ chat.session # None
      BY <3>1, ModeFacts DEF IInv, Types, StoresOK, Stores
    <3>3. chat.session.key \in Keys
      BY <3>2 DEF Draft, VoiceDraft
    <3> QED  BY <2>1, <3>1, <3>2, <3>3 DEF Unfinished, StoresNothing, ModeOf
  <2>2. CASE chat'.session \in {None, QuickCapture}
    BY <2>2, ModeFacts DEF Unfinished
  <2> QED  BY <2>1, <2>2 DEF KeepsDraft
<1>2. DraftStep(view)
  <2>1. SUFFICES ASSUME ModeOf(chat'.session) = "guided" PROVE DraftStep(view)
    BY DEF DraftStep
  <2>2. chat'.session = chat.session
    BY <2>1, ModeFacts DEF KeepsDraft
  <2>3. AsksOf(chat') => AsksOf(chat) /\ chat'.selection = chat.selection
    BY <2>2 DEF KeepsDraft, AsksOf
  <2>4. view.says = None /\ ~Submits(view.keyboard) /\ ~Chooses(view.keyboard)
    BY PlainFits
  <2> QED  BY <2>1, <2>2, <2>3, <2>4 DEF DraftStep
<1>3. view \in Presentable(Stored') /\ ShowsFor(view.screen, view.keyboard, chat')
  BY PlainFits
<1> QED  BY <1>1, <1>2, <1>3, ShowStep

\* A handler that stores no task and puts only good stores stores nothing new.
LEMMA StoredSame ==
  ASSUME IInv, NEW after, StoresOK(after, Stored), chat' = after, UNCHANGED tasks
  PROVE  Settled /\ Stored' = Stored /\ StoresNothing
BY DEF Settled, Stored, IInv, Types, StoresNothing

\* Showing something that is plain, whether or not it can be looked up.
LEMMA ShowPlain ==
  ASSUME IInv, NEW on, OnOK(on), NEW after, StoresOK(after, Stored), KeepsDraft(after),
         NEW view, PlainView(view, Stored), ShowTask(on, after, view)
  PROVE  IInv'
<1>1. Settled /\ Stored' = Stored /\ StoresNothing /\ chat' = after
  BY StoredSame DEF ShowTask, ShowOnly
<1>2. CASE ShowOnly(on, after, view)
  BY <1>1, <1>2, PlainStep DEF ShowOnly, KeepsDraft
<1>3. CASE ServiceFails(on)
  BY <1>1, <1>3, FailStep
<1> QED  BY <1>2, <1>3 DEF ShowTask

\* Stores with the draft and the question of the present ones.
Same(stores) ==
    /\ StoresOK(stores, Stored)
    /\ stores.session = chat.session /\ stores.selection = chat.selection

\* Clearing a store leaves the others good.
LEMMA StoresFacts ==
  /\ IInv => Same(chat) /\ Same([chat EXCEPT !.interaction = None])
  /\ \A S : StoresOK(EmptyChat, S) /\ KeepsDraft(EmptyChat)
  /\ \A stores : Same(stores) =>
       /\ KeepsDraft(stores)
       /\ StoresOK([stores EXCEPT !.selection = None], Stored)
       /\ KeepsDraft([stores EXCEPT !.selection = None])
       /\ StoresOK(Finished(stores), Stored) /\ KeepsDraft(Finished(stores))
       /\ Finished(stores).session = None /\ Finished(stores).selection = None
<1>1. IInv => Same(chat)
  BY DEF Same, IInv, Types
<1>2. ASSUME IInv PROVE Same([chat EXCEPT !.interaction = None])
  <2>1. StoresOK(chat, Stored)
    BY <1>2 DEF IInv, Types
  <2>2. [chat EXCEPT !.interaction = None] =
          [session |-> chat.session, selection |-> chat.selection, interaction |-> None]
    BY <2>1 DEF StoresOK, Stores
  <2> QED  BY <2>1, <2>2 DEF Same, StoresOK, Stores
<1>3. \A S : StoresOK(EmptyChat, S) /\ KeepsDraft(EmptyChat)
  BY DEF EmptyChat, StoresOK, Stores, KeepsDraft
<1>4. ASSUME NEW stores, Same(stores)
      PROVE  /\ KeepsDraft(stores)
             /\ StoresOK([stores EXCEPT !.selection = None], Stored)
             /\ KeepsDraft([stores EXCEPT !.selection = None])
             /\ StoresOK(Finished(stores), Stored) /\ KeepsDraft(Finished(stores))
             /\ Finished(stores).session = None /\ Finished(stores).selection = None
  <2>1. stores \in Stores
    BY <1>4 DEF Same, StoresOK
  <2>2. [stores EXCEPT !.selection = None] =
          [session |-> stores.session, selection |-> None, interaction |-> stores.interaction]
    BY <2>1 DEF Stores
  <2>3. /\ Finished(stores).session = None /\ Finished(stores).selection = None
        /\ Finished(stores).interaction = stores.interaction /\ Finished(stores) \in Stores
    BY <2>1 DEF Finished, Stores
  <2> QED  BY <1>4, <2>1, <2>2, <2>3 DEF Same, StoresOK, Stores, KeepsDraft
<1> QED  BY <1>1, <1>2, <1>3, <1>4

\* Stores that are good for some tasks are good for more of them.
LEMMA StoresStay ==
  ASSUME NEW stores, NEW S, NEW T, S \subseteq T, StoresOK(stores, S)
  PROVE  StoresOK(stores, T)
BY DEF StoresOK

\* The stored tasks are among the keys.
LEMMA StoredKeys == Stored \in SUBSET Keys
BY DEF Stored

\* A stored key has its task.
LEMMA TaskFacts ==
  ASSUME IInv, NEW key \in Stored
  PROVE  key \in Keys /\ tasks[key] \in Task /\ tasks[key] # None
BY DEF Stored, IInv, Types

\* A view that says something is the view with what it says.
LEMMA AskingIs ==
  ASSUME NEW screen, NEW keyboard, NEW text, NEW assignee
  PROVE  Asking(View(screen, keyboard), text, assignee) =
           [screen |-> screen, keyboard |-> keyboard,
            says |-> [text |-> text, assignee |-> assignee]]
<1> DEFINE said == [text |-> text, assignee |-> assignee]
           plain == [screen |-> screen, keyboard |-> keyboard, says |-> None]
<1> HIDE DEF said
<1>1. [plain EXCEPT !.says = said] = [screen |-> screen, keyboard |-> keyboard, says |-> said]
  OBVIOUS
<1> QED  BY <1>1 DEF Asking, View, said

(***************************************************************************)
(* The use cases.                                                          *)
(***************************************************************************)
LEMMA StoreStep ==
  ASSUME IInv, NEW request \in Request, NEW assignee \in Employees \cup {None},
         Store(request, assignee)
  PROVE  /\ tasks' \in [Keys -> Task \cup {None}] /\ Stored \subseteq Stored'
         /\ Stored' \in SUBSET Keys /\ request.key \in Stored'
         /\ \A key \in Keys : key # request.key => tasks'[key] = tasks[key]
         /\ tasks[request.key] = None => tasks'[request.key].text = request.text
<1>1. request.key \in Keys /\ request.text \in Texts
  BY DEF Request
<1>2. tasks \in [Keys -> Task \cup {None}]
  BY DEF IInv, Types
<1>3. CASE tasks[request.key] # None
  BY <1>1, <1>2, <1>3 DEF Store, Stored
<1>4. CASE tasks[request.key] = None
  <2> DEFINE task == [text |-> request.text, assignee |-> assignee, open |-> TRUE]
  <2>5. task \in Task /\ task.text = request.text
    BY <1>1 DEF Task
  <2>1. task \in Task /\ task # None /\ task.text = request.text
    BY <2>5, NoneAssumption
  <2>2. tasks' = [tasks EXCEPT ![request.key] = task]
    BY <1>4 DEF Store
  <2> HIDE DEF task
  <2>3. tasks' \in [Keys -> Task \cup {None}]
    BY <1>2, <2>1, <2>2
  <2>4. /\ tasks'[request.key] = task
        /\ \A key \in Keys : key # request.key => tasks'[key] = tasks[key]
    BY <1>1, <1>2, <2>2
  <2> QED  BY <1>1, <1>4, <2>1, <2>3, <2>4 DEF Stored
<1> QED  BY <1>3, <1>4

\* Creating a task for a chosen person.
LEMMA CreateForStep ==
  ASSUME IInv, NEW on, OnOK(on), NEW request \in Request, NEW assignee \in Employees \cup {None},
         NEW stores, Same(stores), NEW followUp \in BOOLEAN,
         CreateFor(on, request, assignee, stores, followUp)
  PROVE  IInv'
<1> DEFINE view == View(<<"TaskCreationResult", request.key>>,
                        IF followUp /\ tasks[request.key] = None
                        THEN CreatedTaskKeyboard(request.key, assignee = None)
                        ELSE OutcomeKeyboard(request.key))
<1>1. ASSUME Store(request, assignee), chat' = Finished(stores), SendScreen(on, view)
      PROVE  IInv'
  <2>1. /\ tasks' \in [Keys -> Task \cup {None}] /\ Stored \subseteq Stored'
        /\ Stored' \in SUBSET Keys /\ request.key \in Stored'
    BY <1>1, StoreStep
  <2>2. StoresOK(chat', Stored') /\ KeepsDraft(chat') /\ chat'.session = None
    BY <1>1, <2>1, StoresFacts, StoresStay
  <2>3. PlainView(view, Stored')
    BY <2>1, PlainTasks
  <2> QED  BY <1>1, <2>1, <2>2, <2>3, PlainStep DEF Settled
<1>2. ASSUME Store(request, assignee) \/ UNCHANGED tasks, chat' = stores, ServiceFails(on)
      PROVE  IInv'
  <2>1. tasks' \in [Keys -> Task \cup {None}] /\ Stored \subseteq Stored'
    BY <1>2, StoreStep DEF Stored, IInv, Types
  <2>2. StoresOK(chat', Stored')
    BY <1>2, <2>1, StoresStay DEF Same
  <2> QED  BY <1>2, <2>1, <2>2, FailStep DEF Settled
<1> QED  BY <1>1, <1>2 DEF CreateFor

\* The name in a request is a text of it.
LEMMA NameFacts ==
  ASSUME NEW request \in Request
  PROVE  NameIn(request) \in Texts \cup {None}
BY DEF NameIn, Request

\* The buttons of a question.
LEMMA QuestionFits ==
  ASSUME NEW S, NEW candidates \in SUBSET Employees, NEW allow \in BOOLEAN
  PROVE  /\ ClarificationKeyboard(candidates, allow) \subseteq Buttons(S)
         /\ ~Submits(ClarificationKeyboard(candidates, allow))
         /\ \A stores : stores.selection # None /\ stores.selection.candidates = candidates =>
              \A button \in ClarificationKeyboard(candidates, allow) : ButtonLives(button, stores)
<1> DEFINE keyboard == ClarificationKeyboard(candidates, allow)
<1>1. \A button \in keyboard :
         \/ \E e \in candidates : button = <<"ClarificationPickEmployee", e>>
         \/ button \in {<<"ClarificationCreateUnassigned">>, <<"MenuCreate">>, <<"MenuHome">>}
  BY DEF ClarificationKeyboard, Home
<1>2. \A e \in Employees : <<"ClarificationPickEmployee", e>> \in Buttons(S)
  BY DEF Buttons
<1>3. <<"ClarificationCreateUnassigned">> \in Buttons(S)
  BY DEF Buttons, DraftNames
<1>4. <<"MenuCreate">> \in Buttons(S) /\ <<"MenuHome">> \in Buttons(S)
  BY DEF Buttons, PlainButtons, PlainNames
<1>5. \A button \in keyboard :
         /\ button[1] \in {"ClarificationPickEmployee", "ClarificationCreateUnassigned",
                           "MenuCreate", "MenuHome"}
         /\ button[1] = "ClarificationPickEmployee" => button[2] \in candidates
  <2> TAKE button \in keyboard
  <2>1. CASE \E e \in candidates : button = <<"ClarificationPickEmployee", e>>
    BY <2>1
  <2>2. CASE button \in {<<"ClarificationCreateUnassigned">>, <<"MenuCreate">>, <<"MenuHome">>}
    BY <2>2
  <2> QED  BY <1>1, <2>1, <2>2
<1>6. keyboard \subseteq Buttons(S)
  BY <1>1, <1>2, <1>3, <1>4
<1>7. ~Submits(keyboard)
  <2>1. <<"DraftSubmit">>[1] = "DraftSubmit"
    OBVIOUS
  <2> QED  BY <1>5, <2>1 DEF Submits
<1> HIDE DEF keyboard
<1>8. \A stores : stores.selection # None /\ stores.selection.candidates = candidates =>
        \A button \in keyboard : ButtonLives(button, stores)
  BY <1>5 DEF ButtonLives, DraftButtons
<1> QED  BY <1>6, <1>7, <1>8 DEF keyboard

\* Candidates are employees.
LEMMA CandidatesFacts ==
  ASSUME NEW name
  PROVE  Candidates(name) \in SUBSET Employees
BY DEF Candidates

\* A question about a request is put, or the request is carried out at once.
LEMMA CreateTaskStep ==
  ASSUME IInv, NEW on, OnOK(on), NEW request \in Request, NEW stores, Same(stores),
         NEW asking, asking = stores \/ asking = [stores EXCEPT !.session = None],
         NEW question, NEW screen \in Screen, NEW says \in {None} \cup Said,
         question = [screen |-> screen,
                     keyboard |-> ClarificationKeyboard(Candidates(NameIn(request)), TRUE),
                     says |-> says],
         screen[1] # "GuidedStep", screen # <<"VoiceCreate", "EditTranscript">>,
         ModeOf(asking.session) = "guided" =>
             /\ asking = stores /\ says = None /\ request.text = chat.session.text
             /\ faults = 0 => ShownFits(request.text),
         NEW followUp \in BOOLEAN,
         CreateTask(on, request, stores, asking, question, followUp)
  PROVE  IInv'
<1> DEFINE name == NameIn(request)
           selection == [for |-> "create", request |-> request, candidates |-> Candidates(name)]
<1>1. name \in Texts \cup {None}
  BY NameFacts
<1>2. ASSUME ~IsUnclear(name),
             CreateFor(on, request, IF name = None THEN None ELSE Named[name], stores, followUp)
      PROVE  IInv'
  <2>1. (IF name = None THEN None ELSE Named[name]) \in Employees \cup {None}
    BY <1>1, <1>2 DEF IsUnclear, IsClear
  <2> QED  BY <1>2, <2>1, CreateForStep
<1>3. ASSUME chat' = [asking EXCEPT !.selection = selection], SendScreen(on, question),
             UNCHANGED tasks
      PROVE  IInv'
  <2>1. selection \in Selection /\ selection # None /\ selection.for = "create"
        /\ selection.candidates = Candidates(name) /\ selection.request = request
    BY CandidatesFacts, NoneAssumption DEF Selection
  <2> HIDE DEF selection
  <2>2. stores \in Stores /\ asking \in Stores
    BY DEF Same, StoresOK, Stores
  <2>3. asking.session \in {None, chat.session} /\ asking.interaction = stores.interaction
    BY <2>2 DEF Same, Stores
  <2>4. /\ chat' \in Stores /\ chat'.session = asking.session
        /\ chat'.selection = selection /\ chat'.interaction = stores.interaction
    BY <1>3, <2>1, <2>2, <2>3 DEF Stores
  <2>5. Stored' = Stored /\ Settled
    BY <1>3, <2>1, <2>4 DEF Settled, StoresOK, Same, Stored, IInv, Types
  <2>6. Unfinished
    BY <1>3, <2>3, <2>4, ModeFacts DEF Unfinished
  <2>7. /\ question.keyboard \subseteq Buttons(Stored') /\ ~Submits(question.keyboard)
        /\ \A button \in question.keyboard : ButtonLives(button, chat')
        /\ question.screen = screen /\ question.says = says
    BY <2>1, <2>4, QuestionFits, CandidatesFacts
  <2>8. question \in Presentable(Stored')
    BY <2>7 DEF Presentable
  <2>9. PromptFits(screen, chat'.session)
    <3>1. \A step \in Steps : screen # <<"GuidedStep", step>>
      OBVIOUS
    <3> QED  BY <3>1 DEF PromptFits
  <2>10. DraftStep(question)
    <3>1. SUFFICES ASSUME ModeOf(chat'.session) = "guided" PROVE DraftStep(question)
      BY DEF DraftStep
    <3>2. /\ chat'.session = chat.session /\ says = None /\ request.text = chat.session.text
          /\ faults = 0 => ShownFits(request.text)
      BY <2>4, <3>1 DEF Same
    <3>3. request.text # None
      BY NoneAssumption DEF Request
    <3> QED  BY <2>1, <2>4, <2>7, <3>1, <3>2, <3>3 DEF DraftStep
  <2> QED  BY <1>3, <2>5, <2>6, <2>7, <2>8, <2>9, <2>10, ShowStep DEF ShowsFor
<1>4. ASSUME chat' = stores, ServiceFails(on), UNCHANGED tasks
      PROVE  IInv'
  BY <1>4, StoredSame, FailStep DEF Same
<1> QED  BY <1>2, <1>3, <1>4 DEF CreateTask

\* A task is changed and shown, if it is open and the services answer.
LEMMA ChangeTaskStep ==
  ASSUME IInv, NEW on, OnOK(on), NEW task \in Stored, NEW new,
         tasks[task].open => new \in Task,
         NEW stores, Same(stores), NEW after, StoresOK(after, Stored), KeepsDraft(after),
         ChangeTask(on, task, new, stores, after)
  PROVE  IInv'
<1>1. task \in Keys /\ tasks[task] \in Task /\ tasks[task] # None
  BY TaskFacts
<1>2. tasks \in [Keys -> Task \cup {None}]
  BY DEF IInv, Types
<1>3. ASSUME tasks[task].open, tasks' = [tasks EXCEPT ![task] = new]
      PROVE  /\ tasks' \in [Keys -> Task \cup {None}] /\ Stored' = Stored
             /\ StoresNothing
  <2>1. new \in Task /\ new # None
    BY <1>3, NoneAssumption
  <2> QED  BY <1>1, <1>2, <1>3, <2>1 DEF Stored, StoresNothing
<1>4. ASSUME tasks[task].open, tasks' = [tasks EXCEPT ![task] = new],
             chat' = after, SendScreen(on, CardOf(task, new))
      PROVE  IInv'
  <2>1. Settled /\ Stored' = Stored /\ StoresNothing
    BY <1>3, <1>4 DEF Settled
  <2>2. PlainView(CardOf(task, new), Stored')
    BY <2>1, StoredKeys, PlainTasks
  <2> QED  BY <1>4, <2>1, <2>2, PlainStep DEF KeepsDraft
<1>5. ASSUME tasks[task].open, tasks' = [tasks EXCEPT ![task] = new],
             chat' \in {stores, after}, ServiceFails(on)
      PROVE  IInv'
  <2>1. Settled
    BY <1>3, <1>5 DEF Settled, Same
  <2> QED  BY <1>5, <2>1, FailStep
<1>6. ASSUME KeepScreen(on), chat' = stores, UNCHANGED <<tasks, torn, faults>>
      PROVE  IInv'
  BY <1>6, KeepStep DEF Same
<1>7. ASSUME ServiceFails(on), chat' = stores, UNCHANGED tasks
      PROVE  IInv'
  BY <1>7, StoredSame, FailStep DEF Same
<1> QED  BY <1>4, <1>5, <1>6, <1>7 DEF ChangeTask

(***************************************************************************)
(* Presses on menus and cards.                                             *)
(***************************************************************************)
LEMMA ButtonFacts ==
  ASSUME NEW S, NEW button \in Buttons(S)
  PROVE  /\ button[1] \in TaskNames => button[2] \in S
         /\ button[1] = "GuidedAssigneeConfirm" => button[2] \in Employees
         /\ button[1] = "DraftEdit" => button[2] \in Steps
         /\ button[1] = "DraftSubmit" => button = <<"DraftSubmit">>
<1>1. "ListTasks" \notin TaskNames /\ Views \cap TaskNames = {}
  BY ViewsAssumption DEF TaskNames, CardButtons, ScreensOf
<1>2. CASE \E name \in PlainNames : button = <<name>>
  BY <1>1, <1>2, ViewsAssumption DEF PlainNames, TaskNames, CardButtons, ScreensOf
<1>3. CASE button \in TaskNames \X S
  BY <1>3 DEF TaskNames, CardButtons
<1>4. CASE button \in {"UpdateTaskStatus"} \X S \X {"open", "closed"}
  BY <1>4
<1>5. CASE \E name \in DraftNames : button = <<name>>
  BY <1>5 DEF DraftNames, TaskNames, CardButtons
<1>6. CASE button \in {"GuidedAssigneeConfirm", "ClarificationPickEmployee"} \X Employees
  BY <1>6 DEF TaskNames, CardButtons
<1>7. CASE button \in {"DraftEdit"} \X Steps
  BY <1>7 DEF TaskNames, CardButtons
<1> QED  BY <1>2, <1>3, <1>4, <1>5, <1>6, <1>7 DEF Buttons, PlainButtons

\* The presses, family by family: the menus,
LEMMA MenuStep ==
  ASSUME IInv, NEW on, OnOK(on), NEW idle, Same(idle), NEW button, PressMenu(on, idle, button)
  PROVE  IInv'
<1>1. StoresOK(EmptyChat, Stored) /\ KeepsDraft(EmptyChat)
  BY StoresFacts
<1>2. StoresOK(idle, Stored) /\ KeepsDraft(idle)
  BY StoresFacts DEF Same
<1>3. CASE ShowOnly(on, EmptyChat, MainMenuView) \/ ShowOnly(on, EmptyChat, CreateMenuView)
  BY <1>1, <1>3, PlainPages, ShowPlain DEF ShowTask
<1>4. CASE ShowTask(on, idle, ListView)
  BY <1>2, <1>4, PlainList, StoredKeys, ShowPlain DEF ListView
<1>5. CASE button[1] \in Views /\ ShowOnly(on, idle, PageView(button[1]))
  BY <1>2, <1>5, PlainPages, ShowPlain DEF ShowTask
<1> QED  BY <1>3, <1>4, <1>5 DEF PressMenu

\* a prompt for a comment, a blocker or another assignee,
LEMMA InteractionStep ==
  ASSUME IInv, NEW on, OnOK(on), NEW idle, Same(idle), NEW task \in Stored,
         NEW kind \in {"Comment", "Blocker", "Reassign"}, StartInteraction(on, idle, task, kind)
  PROVE  IInv'
<1> DEFINE asked == [task |-> task, kind |-> kind]
           after == [idle EXCEPT !.interaction = asked]
<1>1. asked \in Interaction /\ asked.task = task
  BY StoredKeys DEF Interaction
<1>2. PlainView(PromptView(asked), Stored)
  BY StoredKeys, PlainTasks
<1> HIDE DEF asked
<1>3. after = [session |-> idle.session, selection |-> idle.selection, interaction |-> asked]
  BY DEF Same, StoresOK, Stores
<1>4. StoresOK(after, Stored) /\ KeepsDraft(after)
  BY <1>1, <1>3 DEF Same, StoresOK, Stores, KeepsDraft
<1>5. CASE ShowOnly(on, after, PromptView(asked))
  BY <1>2, <1>4, <1>5, ShowPlain DEF ShowTask
<1>6. CASE chat' = idle /\ UNCHANGED tasks /\ ServiceFails(on)
  BY <1>6, StoredSame, FailStep DEF Same
<1> QED  BY <1>5, <1>6 DEF StartInteraction, asked

\* a change of status,
LEMMA StatusStep ==
  ASSUME IInv, NEW on, OnOK(on), NEW idle, Same(idle), NEW task \in Stored, NEW open \in BOOLEAN,
         ChangeStatus(on, idle, task, open)
  PROVE  IInv'
<1>1. [tasks[task] EXCEPT !.open = open] \in Task
  BY TaskFacts DEF Task
<1>2. StoresOK(idle, Stored) /\ KeepsDraft(idle)
  BY StoresFacts DEF Same
<1> QED  BY <1>1, <1>2, ChangeTaskStep DEF ChangeStatus

\* the other buttons of a card,
LEMMA CardStep ==
  ASSUME IInv, NEW on, OnOK(on), NEW idle, Same(idle), NEW button,
         button[1] \in TaskNames => button[2] \in Stored, PressCard(on, idle, button)
  PROVE  IInv'
<1> DEFINE task == button[2]
<1>1. task \in Stored
  BY DEF PressCard, TaskNames, CardButtons
<1>2. StoresOK(idle, Stored) /\ KeepsDraft(idle)
  BY StoresFacts DEF Same
<1> HIDE DEF task
<1>3. ASSUME NEW view, PlainView(view, Stored), ShowTask(on, idle, view) PROVE IInv'
  BY <1>2, <1>3, ShowPlain
<1>4. /\ PlainView(CardView(task), Stored)
      /\ PlainView(View(<<"CancelConfirmation", task>>, CancelConfirmationKeyboard(task)), Stored)
      /\ PlainView(View(<<"DeliveryHelp", task>>, DeliveryHelpKeyboard(task)), Stored)
  BY <1>1, StoredKeys, PlainTasks DEF CardView
<1>5. CASE ChangeStatus(on, idle, task, button[3] = "open") \/ ChangeStatus(on, idle, task, FALSE)
  <2>1. (button[3] = "open") \in BOOLEAN
    OBVIOUS
  <2> QED  BY <1>1, <1>5, <2>1, StatusStep
<1>6. CASE \E kind \in {"Comment", "Blocker", "Reassign"} : StartInteraction(on, idle, task, kind)
  BY <1>1, <1>6, InteractionStep
<1> QED  BY <1>3, <1>4, <1>5, <1>6 DEF PressCard, task

\* the start of a quick capture,
LEMMA QuickStep ==
  ASSUME IInv, NEW on, OnOK(on), NEW idle, Same(idle), StartQuick(on, idle)
  PROVE  IInv'
<1> DEFINE after == [idle EXCEPT !.session = QuickCapture, !.selection = None]
<1>1. /\ after.session = QuickCapture /\ after.selection = None
      /\ after.interaction = idle.interaction /\ after \in Stores
  BY DEF Same, StoresOK, Stores
<1>2. StoresOK(after, Stored) /\ KeepsDraft(after)
  BY <1>1 DEF Same, StoresOK, KeepsDraft
<1> QED  BY <1>2, PlainPages, ShowPlain DEF StartQuick, ShowTask

(***************************************************************************)
(* The guided draft.                                                       *)
(***************************************************************************)
LEMMA StepViewFits ==
  ASSUME NEW S, NEW draft \in Draft
  PROVE  /\ StepView(draft) \in Presentable(S)
         /\ ~Chooses(StepView(draft).keyboard)
         /\ Submits(StepView(draft).keyboard) => draft.step = "Confirm"
         /\ draft.step = "Confirm" =>
              StepView(draft).says = [text |-> draft.text, assignee |-> draft.assignee]
         /\ draft.step # "Confirm" => StepView(draft).says = None
         /\ \A stores : /\ ModeOf(stores.session) = "guided"
                        /\ draft.step = "Confirm" \/ stores.session.step = draft.step
              => ShowsFor(StepView(draft).screen, StepView(draft).keyboard, stores)
<1> DEFINE keyboard == StepKeyboard[draft.step]
           said == [text |-> draft.text, assignee |-> draft.assignee]
<1>1. draft.step \in Steps /\ draft.text \in Texts \cup {None} /\ draft.assignee \in Texts \cup {None}
  BY DEF Draft
<1>2. said \in Said
  BY <1>1 DEF Said
<1>3. /\ StepView(draft).screen = <<"GuidedStep", draft.step>> /\ StepView(draft).keyboard = keyboard
      /\ StepView(draft).says = (IF draft.step = "Confirm" THEN said ELSE None)
      /\ StepView(draft) \in [screen : {<<"GuidedStep", draft.step>>}, keyboard : {keyboard},
                              says : {None, said}]
  BY DEF StepView, View, Asking
<1>4. \A button \in keyboard :
         \/ button \in {<<"MenuHome">>, <<"StartQuickCreate">>, <<"StartGuidedCreate">>}
         \/ button \in {<<"DraftSkipAssignee">>, <<"DraftSkipDeadline">>}
         \/ draft.step = "Confirm" /\ button = <<"DraftSubmit">>
         \/ \E field \in Steps : button = <<"DraftEdit", field>>
  BY <1>1 DEF StepKeyboard, Steps, GuidedAssigneeKeyboard, CreateMenuKeyboard,
         GuidedDeadlineKeyboard, GuidedConfirmationKeyboard, Home
<1>5. \A button \in keyboard :
         /\ button \in Buttons(S)
         /\ button[1] \in {"MenuHome", "StartQuickCreate", "StartGuidedCreate", "DraftSkipAssignee",
                           "DraftSkipDeadline", "DraftSubmit", "DraftEdit"}
         /\ button = <<"DraftSubmit">> => draft.step = "Confirm"
  <2> TAKE button \in keyboard
  <2>1. CASE button \in {<<"MenuHome">>, <<"StartQuickCreate">>, <<"StartGuidedCreate">>}
    BY <2>1 DEF Buttons, PlainButtons, PlainNames
  <2>2. CASE button \in {<<"DraftSkipAssignee">>, <<"DraftSkipDeadline">>}
    BY <2>2 DEF Buttons, DraftNames
  <2>3. CASE draft.step = "Confirm" /\ button = <<"DraftSubmit">>
    BY <2>3 DEF Buttons, DraftNames
  <2>4. CASE \E field \in Steps : button = <<"DraftEdit", field>>
    BY <2>4 DEF Buttons
  <2> QED  BY <1>4, <2>1, <2>2, <2>3, <2>4
<1> HIDE DEF keyboard, said
<1>6. <<"GuidedStep", draft.step>> \in Screen
  BY <1>1, NamesOfScreens DEF Screen, ScreensOf
<1>7. StepView(draft) \in Presentable(S)
  BY <1>2, <1>3, <1>5, <1>6 DEF Presentable
<1>8. ~Chooses(keyboard) /\ (Submits(keyboard) => draft.step = "Confirm")
  BY <1>5 DEF Chooses, IsChoice, Submits
<1>9. ASSUME NEW stores, ModeOf(stores.session) = "guided",
             draft.step = "Confirm" \/ stores.session.step = draft.step
      PROVE  ShowsFor(<<"GuidedStep", draft.step>>, keyboard, stores)
  <2>1. \A button \in keyboard : ButtonLives(button, stores)
    BY <1>5, <1>9 DEF ButtonLives
  <2>2. PromptFits(<<"GuidedStep", draft.step>>, stores.session)
    BY <1>9 DEF PromptFits
  <2> QED  BY <2>1, <2>2 DEF ShowsFor
<1> QED  BY <1>3, <1>7, <1>8, <1>9 DEF said

\* In the guided mode the session is a draft.
LEMMA DraftFacts ==
  ASSUME IInv, ModeOf(chat.session) = "guided"
  PROVE  chat.session \in Draft /\ chat.session # None
BY ModeFacts DEF IInv, Types, StoresOK, Stores

\* A change of the draft that keeps its key, and its text unless the step asks for one.
LEMMA PutDraftStep ==
  ASSUME IInv, NEW on, OnOK(on), NEW stores, Same(stores), ModeOf(chat.session) = "guided",
         NEW draft \in Draft, draft.key = chat.session.key,
         \/ draft.text = chat.session.text
         \/ chat.session.step = "Description" /\ draft.text # None /\ draft.step = "Deadline",
         PutDraft(on, stores, draft)
  PROVE  IInv'
<1> DEFINE after == [stores EXCEPT !.session = draft]
           view == StepView(draft)
<1>1. after = [session |-> draft, selection |-> stores.selection, interaction |-> stores.interaction]
  BY DEF Same, StoresOK, Stores
<1>2. StoresOK(after, Stored) /\ after.session = draft /\ after.selection = chat.selection
  BY <1>1 DEF Same, StoresOK, Stores
<1> HIDE DEF after
<1>3. chat' = after /\ UNCHANGED tasks /\ SendScreen(on, view)
  BY DEF PutDraft, ShowOnly, after
<1>4. Settled /\ Stored' = Stored /\ StoresNothing
  BY <1>2, <1>3, StoredSame
<1>5. ModeOf(draft) = "guided" /\ draft # None
  BY ModeFacts
<1>6. Unfinished
  BY <1>2, <1>3, <1>5 DEF Unfinished
<1>7. /\ view \in Presentable(Stored') /\ ShowsFor(view.screen, view.keyboard, chat')
      /\ ~Chooses(view.keyboard) /\ (Submits(view.keyboard) => draft.step = "Confirm")
      /\ draft.step = "Confirm" => view.says = [text |-> draft.text, assignee |-> draft.assignee]
      /\ draft.step # "Confirm" => view.says = None
  BY <1>2, <1>3, <1>5, StepViewFits
<1>8. draft.step = "Confirm" => view.says # None /\ view.says.text = draft.text
  <2>1. [text |-> draft.text, assignee |-> draft.assignee] \in Said
    BY DEF Draft, Said
  <2> QED  BY <1>7, <2>1, NoneAssumption
<1>9. AsksOf(chat') => AsksOf(chat) /\ chat'.selection = chat.selection
  BY <1>2, <1>3 DEF AsksOf
<1> HIDE DEF view
<1>10. DraftStep(view)
  BY <1>2, <1>3, <1>7, <1>8, <1>9 DEF DraftStep
<1> QED  BY <1>3, <1>4, <1>6, <1>7, <1>10, ShowStep

\* A step shown of the draft in the stores, or its confirmation.
LEMMA ShowDraftStep ==
  ASSUME IInv, NEW on, OnOK(on), NEW stores, Same(stores), ModeOf(chat.session) = "guided",
         NEW view \in Presentable(Stored), ShowsFor(view.screen, view.keyboard, chat),
         ~Chooses(view.keyboard),
         Submits(view.keyboard) => view.says # None /\ chat.session.text = None,
         view.says # None => view.says.text = chat.session.text,
         ShowOnly(on, stores, view)
  PROVE  IInv'
<1>1. chat' = stores /\ UNCHANGED tasks /\ SendScreen(on, view)
  BY DEF ShowOnly
<1>2. Settled /\ Stored' = Stored /\ StoresNothing
  BY <1>1, StoredSame DEF Same
<1>3. Unfinished
  BY <1>1 DEF Unfinished, Same
<1>4. ShowsFor(view.screen, view.keyboard, chat')
  BY <1>1 DEF Same, ShowsFor, ButtonLives
<1>5. DraftStep(view)
  BY <1>1 DEF DraftStep, Same, AsksOf
<1> QED  BY <1>1, <1>2, <1>3, <1>4, <1>5, ShowStep

\* A fresh key has no task.
LEMMA FreshFacts ==
  ASSUME NEW stores, FreshKeys(stores) # {}
  PROVE  FreshKey(stores) \in Keys /\ tasks[FreshKey(stores)] = None /\ FreshKey(stores) \in FreshKeys(stores)
<1>1. FreshKey(stores) \in FreshKeys(stores)
  BY DEF FreshKey
<1> QED  BY <1>1 DEF FreshKeys

\* The start of a guided draft, under a fresh key.
LEMMA GuidedStep ==
  ASSUME IInv, NEW on, OnOK(on), NEW idle, Same(idle), StartGuided(on, idle)
  PROVE  IInv'
<1> DEFINE key == FreshKey(Finished(idle))
           draft == NewDraft(key)
           after == [idle EXCEPT !.session = draft, !.selection = None]
           view == StepView(draft)
<1>1. key \in Keys /\ tasks[key] = None
  BY FreshFacts DEF StartGuided
<1> HIDE DEF key
<1>2. draft \in Draft /\ draft.step = "Assignee" /\ draft.text = None /\ draft.key = key
  BY <1>1 DEF NewDraft, Draft, Steps
<1> HIDE DEF draft
<1>3. /\ after.session = draft /\ after.selection = None
      /\ after.interaction = idle.interaction /\ after \in Stores
  BY <1>2 DEF Same, StoresOK, Stores
<1>4. StoresOK(after, Stored)
  BY <1>3 DEF Same, StoresOK
<1> HIDE DEF after
<1>5. chat' = after /\ UNCHANGED tasks /\ SendScreen(on, view)
  BY DEF StartGuided, ShowOnly, after, draft, key
<1>6. Settled /\ Stored' = Stored /\ StoresNothing
  BY <1>4, <1>5, StoredSame
<1>7. Unfinished
  BY <1>1, <1>2, <1>3, <1>5 DEF Unfinished
<1>8. /\ view \in Presentable(Stored') /\ ShowsFor(view.screen, view.keyboard, chat')
      /\ ~Chooses(view.keyboard) /\ ~Submits(view.keyboard) /\ view.says = None
  BY <1>2, <1>3, <1>5, StepViewFits, ModeFacts
<1> HIDE DEF view
<1>9. DraftStep(view)
  BY <1>2, <1>3, <1>5, <1>8 DEF DraftStep
<1> QED  BY <1>5, <1>6, <1>7, <1>8, <1>9, ShowStep

\* A button that carries something out was, faults aside, on the screen or just edited away.
Offered(button) == faults = 0 /\ IsMutating(button) => button \in Visible \cup late

\* Without faults, where a draft can be submitted its text has been shown.
LEMMA SubmitIsShown ==
  ASSUME IInv, ModeOf(chat.session) = "guided", chat.session.text # None,
         faults = 0, Submits(Visible) \/ Submits(late)
  PROVE  ShownFits(chat.session.text)
BY DEF IInv, DraftWasShown, ShownFits

\* The request of a draft keeps its text and its key.
LEMMA GuidedRequestFacts ==
  ASSUME NEW draft \in Draft, draft.text # None
  PROVE  /\ GuidedRequest(draft) \in Request /\ GuidedRequest(draft).text = draft.text
         /\ GuidedRequest(draft).key = draft.key
BY DEF GuidedRequest, Draft, Request

\* The submission of a draft.
LEMMA SubmitStep ==
  ASSUME IInv, NEW on, OnOK(on), NEW idle, Same(idle), ModeOf(chat.session) = "guided",
         faults = 0 => Submits(Visible) \/ Submits(late),
         SubmitDraft(on, idle, chat.session)
  PROVE  IInv'
<1> DEFINE draft == chat.session
           request == GuidedRequest(draft)
<1>1. draft \in Draft
  BY DraftFacts
<1>2. CASE draft.text = None /\ ShowOnly(on, idle, StepView([draft EXCEPT !.step = "Confirm"]))
  <2> DEFINE confirmed == [draft EXCEPT !.step = "Confirm"]
             view == StepView(confirmed)
             said == [text |-> confirmed.text, assignee |-> confirmed.assignee]
  <2>1. confirmed \in Draft /\ confirmed.step = "Confirm" /\ confirmed.text = draft.text
    BY <1>1 DEF Draft, Steps
  <2>2. said \in Said /\ said.text = draft.text
    BY <2>1 DEF Draft, Said
  <2>3. said # None
    BY <2>2, NoneAssumption
  <2> HIDE DEF confirmed
  <2>4. /\ view \in Presentable(Stored) /\ ShowsFor(view.screen, view.keyboard, chat)
        /\ ~Chooses(view.keyboard) /\ view.says = said
    BY <2>1, StepViewFits
  <2> HIDE DEF view, said
  <2>5. ShowOnly(on, idle, view)
    BY <1>2 DEF view, confirmed
  <2> QED  BY <1>2, <2>2, <2>3, <2>4, <2>5, ShowDraftStep
<1>3. CASE draft.text # None
  <2>1. request \in Request /\ request.text = draft.text /\ request.key = draft.key
    BY <1>1, <1>3, GuidedRequestFacts
  <2>2. faults = 0 => ShownFits(request.text)
    BY <1>3, <2>1, SubmitIsShown
  <2>3. draft.resolved \in Employees \cup {None}
    BY <1>1 DEF Draft
  <2>4. Question(request) =
          [screen |-> <<"TaskCreationResult">>,
           keyboard |-> ClarificationKeyboard(Candidates(NameIn(request)), TRUE), says |-> None]
    BY DEF Question, View
  <2>5. /\ <<"TaskCreationResult">> \in Screen /\ <<"TaskCreationResult">>[1] # "GuidedStep"
        /\ <<"TaskCreationResult">> # <<"VoiceCreate", "EditTranscript">>
    BY NamesOfScreens DEF Screen, ScreensOf
  <2> HIDE DEF request
  <2>6. CASE CreateFor(on, request, draft.resolved, idle, FALSE)
    BY <2>1, <2>3, <2>6, CreateForStep
  <2>7. CASE CreateTask(on, request, idle, idle, Question(request), FALSE)
    BY <2>1, <2>2, <2>4, <2>5, <2>7, CreateTaskStep
  <2> QED  BY <1>3, <2>6, <2>7 DEF SubmitDraft, request
<1> QED  BY <1>2, <1>3 DEF SubmitDraft

\* A press to submit comes from a keyboard that offers it.
LEMMA SubmitIsOffered ==
  ASSUME NEW button \in Buttons(Stored), button[1] = "DraftSubmit", Offered(button), faults = 0
  PROVE  Submits(Visible) \/ Submits(late)
<1>1. button = <<"DraftSubmit">>
  BY ButtonFacts
<1>2. IsMutating(button)
  BY DEF IsMutating, MutatingButtons
<1> QED  BY <1>1, <1>2 DEF Offered, Submits

\* The presses of the guided draft.
LEMMA DraftPressStep ==
  ASSUME IInv, NEW on, OnOK(on), NEW idle, Same(idle), NEW button \in Buttons(Stored),
         Offered(button), PressDraft(on, idle, button)
  PROVE  IInv'
<1>1. CASE ShowOnly(on, idle, CreateMenuView)
  <2>1. StoresOK(idle, Stored) /\ KeepsDraft(idle)
    BY StoresFacts DEF Same
  <2> QED  BY <1>1, <2>1, PlainPages, ShowPlain DEF ShowTask
<1>2. CASE Mode = "guided"
  <2> DEFINE draft == chat.session
  <2>1. draft = idle.session /\ ModeOf(draft) = "guided" /\ draft \in Draft
    BY <1>2, DraftFacts DEF Same, Mode, ModeOf
  <2>2. ASSUME NEW new \in Draft, new.key = draft.key, new.text = draft.text, PutDraft(on, idle, new)
        PROVE  IInv'
    BY <2>1, <2>2, PutDraftStep
  <2> HIDE DEF draft
  <2>3. CASE PutDraft(on, idle, [draft EXCEPT !.assignee = None, !.step = "Description"])
    <3>1. /\ [draft EXCEPT !.assignee = None, !.step = "Description"] \in Draft
          /\ [draft EXCEPT !.assignee = None, !.step = "Description"].key = draft.key
          /\ [draft EXCEPT !.assignee = None, !.step = "Description"].text = draft.text
      BY <2>1 DEF Draft, Steps
    <3> QED  BY <2>2, <2>3, <3>1
  <2>4. ASSUME button[1] = "GuidedAssigneeConfirm",
               PutDraft(on, idle, [draft EXCEPT !.resolved = button[2], !.step = "Description"])
        PROVE  IInv'
    <3>1. button[2] \in Employees
      BY <2>4, ButtonFacts
    <3>2. /\ [draft EXCEPT !.resolved = button[2], !.step = "Description"] \in Draft
          /\ [draft EXCEPT !.resolved = button[2], !.step = "Description"].key = draft.key
          /\ [draft EXCEPT !.resolved = button[2], !.step = "Description"].text = draft.text
      BY <2>1, <3>1 DEF Draft, Steps
    <3> QED  BY <2>2, <2>4, <3>2
  <2>5. CASE PutDraft(on, idle, [draft EXCEPT !.step = "Confirm"])
    <3>1. /\ [draft EXCEPT !.step = "Confirm"] \in Draft
          /\ [draft EXCEPT !.step = "Confirm"].key = draft.key
          /\ [draft EXCEPT !.step = "Confirm"].text = draft.text
      BY <2>1 DEF Draft, Steps
    <3> QED  BY <2>2, <2>5, <3>1
  <2>6. ASSUME button[1] = "DraftEdit", PutDraft(on, idle, EditField(draft, button[2]))
        PROVE  IInv'
    <3>1. button[2] \in Steps
      BY <2>6, ButtonFacts
    <3>2. /\ EditField(draft, button[2]) \in Draft
          /\ EditField(draft, button[2]).key = draft.key
          /\ EditField(draft, button[2]).text = draft.text
      BY <2>1, <3>1 DEF EditField, Draft
    <3> QED  BY <2>2, <2>6, <3>2
  <2>7. ASSUME button[1] = "DraftSubmit", SubmitDraft(on, idle, draft) PROVE IInv'
    <3>1. faults = 0 => Submits(Visible) \/ Submits(late)
      BY <2>7, SubmitIsOffered
    <3> QED  BY <2>1, <2>7, <3>1, SubmitStep DEF draft
  <2> QED  BY <1>1, <1>2, <2>1, <2>3, <2>4, <2>5, <2>6, <2>7 DEF PressDraft
<1> QED  BY <1>1, <1>2 DEF PressDraft

(***************************************************************************)
(* The spoken draft.                                                       *)
(***************************************************************************)
LEMMA VoiceViewFits ==
  ASSUME NEW S, NEW draft \in VoiceDraft
  PROVE  /\ VoiceView(draft) \in Presentable(S)
         /\ \A stores : stores.session = draft =>
              ShowsFor(VoiceView(draft).screen, VoiceView(draft).keyboard, stores)
<1> DEFINE keyboard == IF draft.step = "Confirm" THEN VoiceConfirmationKeyboard ELSE VoiceEditKeyboard
           said == [text |-> draft.text, assignee |-> draft.text]
<1>1. draft.step \in {"Confirm", "EditTranscript"} /\ draft.text \in Texts
  BY DEF VoiceDraft
<1>2. said \in Said
  BY <1>1 DEF Said
<1>3. VoiceView(draft) =
        [screen |-> <<"VoiceCreate", draft.step>>, keyboard |-> keyboard,
         says |-> IF draft.step = "Confirm" THEN said ELSE None]
  BY DEF VoiceView, View, Asking
<1>4. keyboard \subseteq
        {<<"MenuHome">>, <<"VoiceCreateCancel">>, <<"VoiceCreateConfirm">>, <<"VoiceCreateEdit">>,
         <<"VoiceCreateBack">>}
  BY DEF VoiceConfirmationKeyboard, VoiceEditKeyboard, Home
<1> HIDE DEF keyboard, said
<1>5. keyboard \subseteq Buttons(S)
  <2>1. <<"MenuHome">> \in Buttons(S) /\ <<"VoiceCreateCancel">> \in Buttons(S)
    BY DEF Buttons, PlainButtons, PlainNames
  <2>2. /\ <<"VoiceCreateConfirm">> \in Buttons(S) /\ <<"VoiceCreateEdit">> \in Buttons(S)
        /\ <<"VoiceCreateBack">> \in Buttons(S)
    BY DEF Buttons, DraftNames
  <2> QED  BY <1>4, <2>1, <2>2
<1>6. <<"VoiceCreate", draft.step>> \in Screen
  BY <1>1, NamesOfScreens DEF Screen, ScreensOf, Steps
<1>7. VoiceView(draft) \in Presentable(S)
  BY <1>2, <1>3, <1>5, <1>6 DEF Presentable
<1>8. ASSUME NEW stores, stores.session = draft
      PROVE  ShowsFor(<<"VoiceCreate", draft.step>>, keyboard, stores)
  <2>1. ModeOf(stores.session) = "voice"
    BY <1>8, ModeFacts
  <2>2. \A button \in keyboard : ButtonLives(button, stores)
    BY <1>4, <2>1 DEF ButtonLives, DraftButtons
  <2>3. \A step \in Steps : <<"VoiceCreate", draft.step>> # <<"GuidedStep", step>>
    OBVIOUS
  <2>4. <<"VoiceCreate", draft.step>> = <<"VoiceCreate", "EditTranscript">> => draft.step = "EditTranscript"
    OBVIOUS
  <2> QED  BY <1>8, <2>1, <2>2, <2>3, <2>4 DEF ShowsFor, PromptFits
<1> QED  BY <1>3, <1>7, <1>8

\* A change of the spoken draft that keeps its key.
LEMMA PutVoiceStep ==
  ASSUME IInv, NEW on, OnOK(on), NEW stores, Same(stores), ModeOf(chat.session) = "voice",
         NEW draft \in VoiceDraft, draft.key = chat.session.key, PutVoice(on, stores, draft)
  PROVE  IInv'
<1> DEFINE after == [stores EXCEPT !.session = draft]
           view == VoiceView(draft)
<1>1. after = [session |-> draft, selection |-> stores.selection, interaction |-> stores.interaction]
  BY DEF Same, StoresOK, Stores
<1>2. StoresOK(after, Stored) /\ after.session = draft
  BY <1>1 DEF Same, StoresOK, Stores
<1> HIDE DEF after
<1>3. chat' = after /\ UNCHANGED tasks /\ SendScreen(on, view)
  BY DEF PutVoice, ShowOnly, after
<1>4. Settled /\ Stored' = Stored /\ StoresNothing
  BY <1>2, <1>3, StoredSame
<1>5. ModeOf(draft) = "voice" /\ draft # None
  BY ModeFacts
<1>6. Unfinished
  BY <1>2, <1>3, <1>5 DEF Unfinished
<1>7. view \in Presentable(Stored') /\ ShowsFor(view.screen, view.keyboard, chat')
  BY <1>2, <1>3, VoiceViewFits
<1>8. DraftStep(view)
  BY <1>2, <1>3, <1>5 DEF DraftStep
<1> QED  BY <1>3, <1>4, <1>6, <1>7, <1>8, ShowStep

\* In the voice mode the session is a spoken draft.
LEMMA VoiceFacts ==
  ASSUME IInv, ModeOf(chat.session) = "voice"
  PROVE  chat.session \in VoiceDraft /\ chat.session # None
BY ModeFacts DEF IInv, Types, StoresOK, Stores

\* The presses of the spoken draft.
LEMMA VoicePressStep ==
  ASSUME IInv, NEW on, OnOK(on), NEW idle, Same(idle), NEW button, PressVoice(on, idle, button)
  PROVE  IInv'
<1>1. CASE ShowOnly(on, idle, CreateMenuView) \/ ShowOnly(on, Finished(idle), CreateMenuView)
  BY <1>1, StoresFacts, PlainPages, ShowPlain DEF ShowTask, Same
<1>2. CASE Mode = "voice"
  <2> DEFINE draft == chat.session
  <2>1. draft = idle.session /\ ModeOf(draft) = "voice" /\ draft \in VoiceDraft
    BY <1>2, VoiceFacts DEF Same, Mode, ModeOf
  <2>2. ASSUME NEW step \in {"Confirm", "EditTranscript"}, PutVoice(on, idle, [draft EXCEPT !.step = step])
        PROVE  IInv'
    <3>1. [draft EXCEPT !.step = step] \in VoiceDraft /\ [draft EXCEPT !.step = step].key = draft.key
      BY <2>1 DEF VoiceDraft
    <3> QED  BY <2>1, <2>2, <3>1, PutVoiceStep
  <2>3. CASE SubmitVoice(on, idle, draft)
    <3> DEFINE request == VoiceRequest(draft)
               said == [text |-> draft.text, assignee |-> draft.text]
               keyboard == ClarificationKeyboard(Candidates(NameIn(request)), TRUE)
               screen == <<"VoiceCreate", "Confirm">>
               question == [screen |-> screen, keyboard |-> keyboard, says |-> said]
    <3>1. request \in Request
      BY <2>1 DEF VoiceRequest, VoiceDraft, Request
    <3>2. said \in Said
      BY <2>1 DEF VoiceDraft, Said
    <3>3. /\ <<"VoiceCreate", "Confirm">> \in Screen /\ <<"VoiceCreate", "Confirm">>[1] # "GuidedStep"
          /\ <<"VoiceCreate", "Confirm">> # <<"VoiceCreate", "EditTranscript">>
      BY NamesOfScreens DEF Screen, ScreensOf, Steps
    <3> HIDE DEF keyboard, screen
    <3>6. question = Asking(View(screen, keyboard), draft.text, draft.text)
      BY AskingIs
    <3> HIDE DEF request, said, question
    <3>4. CreateTask(on, request, idle, idle, question, FALSE)
      BY <2>3, <3>6 DEF SubmitVoice, request, screen, keyboard
    <3>5. ModeOf(idle.session) # "guided"
      BY <2>1
    <3> QED  BY <3>1, <3>2, <3>3, <3>4, <3>5, CreateTaskStep DEF question, screen, keyboard
  <2> QED  BY <1>1, <1>2, <2>1, <2>2, <2>3 DEF PressVoice
<1> QED  BY <1>1, <1>2 DEF PressVoice

(***************************************************************************)
(* The answers to a question.                                              *)
(***************************************************************************)
LEMMA ChoiceStep ==
  ASSUME IInv, NEW on, OnOK(on), NEW idle, Same(idle), NEW button,
         PressClarification(on, idle, button)
  PROVE  IInv'
<1> DEFINE selection == chat.selection
           dropped == [idle EXCEPT !.selection = None]
<1>1. idle.selection = selection /\ StoresOK(idle, Stored)
  BY DEF Same
<1>2. /\ KeepsDraft(idle) /\ StoresOK(dropped, Stored) /\ KeepsDraft(dropped)
  BY StoresFacts
<1>3. selection \in {None} \cup Selection
  BY DEF IInv, Types, StoresOK, Stores
<1>4. selection # None => selection.candidates \in SUBSET Employees
  BY <1>3 DEF Selection
<1>5. selection # None /\ selection.for = "create" => selection.request \in Request
  BY <1>3 DEF Selection
<1>6. selection # None /\ selection.for = "reassign" => selection.task \in Stored
  BY DEF IInv, Types, StoresOK
<1> HIDE DEF selection, dropped
<1>7. CASE ShowOnly(on, idle, CreateMenuView) \/ ShowOnly(on, dropped, CreateMenuView)
  BY <1>1, <1>2, <1>7, PlainPages, ShowPlain DEF ShowTask
<1>8. ASSUME NEW assignee \in Employees \cup {None}, selection # None, selection.for = "create",
             CreateFor(on, selection.request, assignee, idle, TRUE)
      PROVE  IInv'
  BY <1>5, <1>8, CreateForStep
<1>9. ASSUME selection # None, selection.for = "reassign", button[2] \in selection.candidates,
             ChangeTask(on, selection.task,
                        [tasks[selection.task] EXCEPT !.assignee = button[2]], idle, dropped)
      PROVE  IInv'
  <2>1. [tasks[selection.task] EXCEPT !.assignee = button[2]] \in Task
    BY <1>4, <1>6, <1>9, TaskFacts DEF Task
  <2> QED  BY <1>2, <1>6, <1>9, <2>1, ChangeTaskStep
<1>10. ASSUME selection # None, selection.for = "reassign",
              ShowTask(on, dropped, CardView(selection.task))
       PROVE  IInv'
  <2>1. PlainView(CardView(selection.task), Stored)
    BY <1>6, <1>10, StoredKeys, PlainTasks DEF CardView
  <2> QED  BY <1>2, <1>10, <2>1, ShowPlain
<1> QED  BY <1>1, <1>4, <1>7, <1>8, <1>9, <1>10 DEF PressClarification, dropped

(***************************************************************************)
(* A press.                                                                *)
(***************************************************************************)
LEMMA DispatchStep ==
  ASSUME IInv, NEW on, OnOK(on), NEW button \in Buttons(Stored), Offered(button),
         Dispatch(on, button)
  PROVE  IInv'
<1> DEFINE idle == [chat EXCEPT !.interaction = None]
<1>1. Same(idle)
  BY StoresFacts
<1>2. button[1] \in TaskNames => button[2] \in Stored
  BY ButtonFacts
<1> HIDE DEF idle
<1> QED  BY <1>1, <1>2, MenuStep, CardStep, QuickStep, GuidedStep, DraftPressStep, VoicePressStep,
            ChoiceStep DEF Dispatch, idle

\* The screen a press finds, and the button being offered.
LEMMA PressFacts ==
  ASSUME IInv, NEW msg \in DOMAIN keyboards, NEW button,
         \/ button \in keyboards[msg]
         \/ active # None /\ msg = active.msg /\ button \in late,
         NEW on, on = IF active = None THEN [msg |-> msg, screen |-> <<"Unknown">>] ELSE active
  PROVE  /\ OnOK(on) /\ button \in Buttons(Stored)
         /\ ~IsRefused(on, msg, button) => Offered(button)
<1>1. /\ keyboards \in Seq(SUBSET Buttons(Stored)) /\ late \subseteq Buttons(Stored)
      /\ DOMAIN keyboards = 1..Len(keyboards)
  BY LenProperties DEF IInv, Types
<1>2. button \in Buttons(Stored)
  <2>1. keyboards[msg] \in SUBSET Buttons(Stored)
    BY <1>1, ElementOfSeq
  <2> QED  BY <1>1, <2>1
<1>3. active = None => torn
  <2>1. keyboards # <<>>
    OBVIOUS
  <2> QED  BY <2>1 DEF IInv, TornForCause
<1>4. <<"Unknown">> \in Screen
  BY NamesOfScreens DEF Screen, ScreensOf
<1>5. OnOK(on)
  BY <1>3, <1>4 DEF OnOK
<1>6. ASSUME ~IsRefused(on, msg, button), faults = 0, IsMutating(button)
      PROVE  button \in Visible \cup late
  <2>1. active # None /\ on = active
    BY <1>3, <1>6 DEF IInv, TornForCause
  <2>2. active.msg = msg
    BY <1>6, <2>1 DEF IsRefused
  <2> QED  BY <2>1, <2>2 DEF Visible
<1> QED  BY <1>2, <1>5, <1>6 DEF Offered

\* A press, of whatever family, through its gates.
LEMMA PressStep ==
  ASSUME IInv, NEW msg \in DOMAIN keyboards, NEW button,
         \/ button \in keyboards[msg]
         \/ active # None /\ msg = active.msg /\ button \in late,
         Press(msg, button)
  PROVE  IInv'
<1> DEFINE on == IF active = None THEN [msg |-> msg, screen |-> <<"Unknown">>] ELSE active
<1>1. /\ OnOK(on) /\ button \in Buttons(Stored)
      /\ ~IsRefused(on, msg, button) => Offered(button)
  BY PressFacts
<1> HIDE DEF on
<1>2. CASE Refuse(on)
  <2>1. StoresOK(chat', Stored)
    BY <1>2 DEF Refuse, IInv, Types
  <2> QED  BY <1>1, <1>2, <2>1, KeepStep DEF Refuse
<1>3. CASE ~IsRefused(on, msg, button) /\ Dispatch(on, button)
  BY <1>1, <1>3, DispatchStep
<1> QED  BY <1>2, <1>3 DEF Press, on

(***************************************************************************)
(* Messages.                                                               *)
(***************************************************************************)
LEMMA ActiveOK == OnOK(active)
BY DEF OnOK

\* The texts, by what the chat is waiting for: a task in free form,
LEMMA MessageStep ==
  ASSUME IInv, NEW text \in Texts, NEW stores, Same(stores),
         NEW asking, asking = stores \/ asking = [stores EXCEPT !.session = None],
         ModeOf(asking.session) # "guided", CreateFromMessage(text, stores, asking)
  PROVE  IInv'
<1> DEFINE request == DirectRequest(text)
           keyboard == ClarificationKeyboard(Candidates(NameIn(request)), TRUE)
           screen == <<"TaskCreationResult">>
<1>1. request \in Request
  BY FreshFacts DEF CreateFromMessage, DirectRequest, Request
<1>2. screen \in Screen /\ screen[1] # "GuidedStep" /\ screen # <<"VoiceCreate", "EditTranscript">>
  BY NamesOfScreens DEF Screen, ScreensOf
<1>3. Question(request) = [screen |-> screen, keyboard |-> keyboard, says |-> None]
  BY DEF Question, View
<1>4. CreateTask(active, request, stores, asking, Question(request), TRUE)
  BY DEF CreateFromMessage
<1> HIDE DEF request, screen
<1> QED  BY <1>1, <1>2, <1>3, <1>4, ActiveOK, CreateTaskStep

\* a field of the guided draft,
LEMMA DraftTextStep ==
  ASSUME IInv, NEW text \in Texts, Mode = "guided", TextForDraft(text)
  PROVE  IInv'
<1> DEFINE draft == chat.session
<1>1. ModeOf(draft) = "guided" /\ draft \in Draft /\ Same(chat)
  BY DraftFacts, StoresFacts DEF Mode, ModeOf
<1>2. ASSUME NEW new \in Draft, new.key = draft.key, PutDraft(active, chat, new),
             \/ new.text = draft.text
             \/ draft.step = "Description" /\ new.text # None /\ new.step = "Deadline"
      PROVE  IInv'
  BY <1>1, <1>2, ActiveOK, PutDraftStep
<1>3. ASSUME IsClear(text),
             PutDraft(active, chat, [draft EXCEPT !.assignee = text, !.resolved = Named[text],
                                                  !.step = "Description"])
      PROVE  IInv'
  <2> DEFINE new == [draft EXCEPT !.assignee = text, !.resolved = Named[text], !.step = "Description"]
  <2>1. Named[text] \in Employees
    BY <1>3 DEF IsClear
  <2>2. new \in Draft /\ new.key = draft.key /\ new.text = draft.text
    BY <1>1, <2>1 DEF Draft, Steps
  <2> QED  BY <1>2, <1>3, <2>2
<1>4. CASE PutDraft(active, chat, [draft EXCEPT !.assignee = text, !.resolved = None,
                                                !.step = "Description"])
  <2> DEFINE new == [draft EXCEPT !.assignee = text, !.resolved = None, !.step = "Description"]
  <2>1. new \in Draft /\ new.key = draft.key /\ new.text = draft.text
    BY <1>1 DEF Draft, Steps
  <2> QED  BY <1>2, <1>4, <2>1
<1>5. CASE ShowOnly(active, chat, View(<<"GuidedAssigneeOptions">>,
                                       GuidedSuggestionsKeyboard(Candidates(text))))
  <2> DEFINE keyboard == GuidedSuggestionsKeyboard(Candidates(text))
             view == View(<<"GuidedAssigneeOptions">>, keyboard)
  <2>1. \A button \in keyboard :
           \/ \E e \in Employees : button = <<"GuidedAssigneeConfirm", e>>
           \/ button \in {<<"DraftSkipAssignee">>, <<"MenuHome">>}
    BY CandidatesFacts DEF GuidedSuggestionsKeyboard, GuidedAssigneeKeyboard, Home
  <2>2. \A button \in keyboard :
           /\ button \in Buttons(Stored)
           /\ button[1] \in {"GuidedAssigneeConfirm", "DraftSkipAssignee", "MenuHome"}
    <3> TAKE button \in keyboard
    <3>1. CASE \E e \in Employees : button = <<"GuidedAssigneeConfirm", e>>
      BY <3>1 DEF Buttons
    <3>2. CASE button = <<"DraftSkipAssignee">>
      BY <3>2 DEF Buttons, DraftNames
    <3>3. CASE button = <<"MenuHome">>
      BY <3>3 DEF Buttons, PlainButtons, PlainNames
    <3> QED  BY <2>1, <3>1, <3>2, <3>3
  <2>3. <<"GuidedAssigneeOptions">> \in Screen
    BY NamesOfScreens DEF Screen, ScreensOf
  <2> HIDE DEF keyboard
  <2>4. /\ view.screen = <<"GuidedAssigneeOptions">> /\ view.keyboard = keyboard /\ view.says = None
        /\ view \in Presentable(Stored)
    BY <2>2, <2>3 DEF View, Presentable
  <2>5. ~Chooses(keyboard)
    BY <2>2 DEF Chooses, IsChoice
  <2>6. ~Submits(keyboard)
    <3>1. <<"DraftSubmit">>[1] = "DraftSubmit"
      OBVIOUS
    <3> QED  BY <2>2, <3>1 DEF Submits
  <2>7. ShowsFor(<<"GuidedAssigneeOptions">>, keyboard, chat)
    <3>1. \A button \in keyboard : ButtonLives(button, chat)
      BY <1>1, <2>2 DEF ButtonLives
    <3>2. \A step \in Steps : <<"GuidedAssigneeOptions">> # <<"GuidedStep", step>>
      OBVIOUS
    <3>3. <<"GuidedAssigneeOptions">> # <<"VoiceCreate", "EditTranscript">>
      OBVIOUS
    <3> QED  BY <3>1, <3>2, <3>3 DEF ShowsFor, PromptFits
  <2> HIDE DEF view
  <2>8. ShowOnly(active, chat, view)
    BY <1>5 DEF view, keyboard
  <2> QED  BY <1>1, <2>4, <2>5, <2>6, <2>7, <2>8, ActiveOK, ShowDraftStep
<1>6. CASE PutDraft(active, chat, draft)
  BY <1>1, <1>2, <1>6
<1>7. CASE draft.step = "Description"
           /\ PutDraft(active, chat, [draft EXCEPT !.text = text, !.step = "Deadline"])
  <2> DEFINE new == [draft EXCEPT !.text = text, !.step = "Deadline"]
  <2>1. new \in Draft /\ new.key = draft.key /\ new.text = text /\ new.step = "Deadline"
    BY <1>1 DEF Draft, Steps
  <2>2. text # None
    BY NoneAssumption
  <2> QED  BY <1>2, <1>7, <2>1, <2>2
<1>8. CASE PutDraft(active, chat, [draft EXCEPT !.step = "Confirm"])
  <2> DEFINE new == [draft EXCEPT !.step = "Confirm"]
  <2>1. new \in Draft /\ new.key = draft.key /\ new.text = draft.text
    BY <1>1 DEF Draft, Steps
  <2> QED  BY <1>2, <1>8, <2>1
<1> QED  BY <1>3, <1>4, <1>5, <1>6, <1>7, <1>8 DEF TextForDraft

\* an edit of the spoken draft,
LEMMA VoiceTextStep ==
  ASSUME IInv, NEW text \in Texts, Mode = "voice", TextForVoice(text)
  PROVE  IInv'
<1> DEFINE draft == chat.session
           new == IF draft.step = "Confirm" THEN draft
                  ELSE [draft EXCEPT !.text = text, !.step = "Confirm"]
<1>1. ModeOf(draft) = "voice" /\ draft \in VoiceDraft /\ Same(chat)
  BY VoiceFacts, StoresFacts DEF Mode, ModeOf
<1>2. new \in VoiceDraft /\ new.key = draft.key
  BY <1>1 DEF VoiceDraft
<1>3. PutVoice(active, chat, new)
  BY DEF TextForVoice
<1> HIDE DEF new
<1> QED  BY <1>1, <1>2, <1>3, ActiveOK, PutVoiceStep

\* (a pending prompt is about a stored task)
LEMMA InteractionFacts ==
  ASSUME IInv, chat.interaction # None
  PROVE  /\ chat.interaction.task \in Stored /\ chat.interaction.kind \in {"Comment", "Blocker", "Reassign"}
         /\ chat.interaction = [task |-> chat.interaction.task, kind |-> chat.interaction.kind]
         /\ PlainView(PromptView(chat.interaction), Stored)
<1>1. chat.interaction \in Interaction /\ chat.interaction.task \in Stored
  BY DEF IInv, Types, StoresOK, Stores
<1>2. chat.interaction = [task |-> chat.interaction.task, kind |-> chat.interaction.kind]
  BY <1>1 DEF Interaction
<1>3. chat.interaction.kind \in {"Comment", "Blocker", "Reassign"}
  BY <1>1 DEF Interaction
<1>4. PlainView(PromptView([task |-> chat.interaction.task, kind |-> chat.interaction.kind]), Stored)
  BY <1>1, <1>3, StoredKeys, PlainTasks
<1> QED  BY <1>1, <1>2, <1>3, <1>4

\* A name that is not clear, written for another assignee, is asked about.
LEMMA ReassignQuestionStep ==
  ASSUME IInv, NEW text \in Texts, Mode = "none", chat.interaction # None,
         ShowOnly(active,
                  [chat EXCEPT !.selection =
                     [for |-> "reassign", task |-> chat.interaction.task,
                      candidates |-> Candidates(text)]],
                  View(PromptView(chat.interaction).screen,
                       ClarificationKeyboard(Candidates(text), FALSE)))
  PROVE  IInv'
<1> DEFINE selection == [for |-> "reassign", task |-> chat.interaction.task,
                         candidates |-> Candidates(text)]
           screen == PromptView(chat.interaction).screen
           keyboard == ClarificationKeyboard(Candidates(text), FALSE)
           after == [chat EXCEPT !.selection = selection]
           view == View(screen, keyboard)
<1>1. chat.interaction.task \in Stored /\ PlainView(PromptView(chat.interaction), Stored)
  BY InteractionFacts
<1>2. selection \in Selection /\ selection.for = "reassign" /\ selection.task \in Stored
      /\ selection.candidates = Candidates(text)
  BY <1>1, StoredKeys, CandidatesFacts DEF Selection
<1>3. selection # None
  BY <1>2, NoneAssumption
<1>4. screen \in Screen /\ screen[1] \notin {"GuidedStep", "VoiceCreate"}
  BY <1>1 DEF PlainView
<1> HIDE DEF selection, screen
<1>5. after = [session |-> chat.session, selection |-> selection, interaction |-> chat.interaction]
  BY DEF IInv, Types, StoresOK, Stores
<1>6. StoresOK(after, Stored) /\ after.session = chat.session /\ after.selection = selection
  BY <1>2, <1>5 DEF IInv, Types, StoresOK, Stores
<1> HIDE DEF after
<1>7. chat' = after /\ UNCHANGED tasks /\ SendScreen(active, view)
  BY DEF ShowOnly, after, selection, screen
<1>8. Settled /\ Stored' = Stored
  BY <1>6, <1>7, StoredSame
<1>9. ModeOf(chat'.session) = "none"
  BY <1>6, <1>7 DEF Mode, ModeOf
<1>10. Unfinished /\ DraftStep(view)
  BY <1>9 DEF Unfinished, DraftStep
<1>11. /\ keyboard \subseteq Buttons(Stored)
       /\ \A button \in keyboard : ButtonLives(button, chat')
  BY <1>2, <1>3, <1>6, <1>7, QuestionFits, CandidatesFacts
<1> HIDE DEF keyboard
<1>12. view \in Presentable(Stored') /\ view.screen = screen /\ view.keyboard = keyboard
  BY <1>4, <1>8, <1>11 DEF Presentable, View
<1>13. PromptFits(screen, chat'.session)
  <2>1. \A step \in Steps : screen # <<"GuidedStep", step>>
    BY <1>4
  <2>2. screen # <<"VoiceCreate", "EditTranscript">>
    BY <1>4
  <2> QED  BY <2>1, <2>2 DEF PromptFits
<1> QED  BY <1>7, <1>8, <1>10, <1>11, <1>12, <1>13, ActiveOK, ShowStep DEF ShowsFor

\* the answer to a prompt.
LEMMA InteractionTextStep ==
  ASSUME IInv, NEW text \in Texts, Mode = "none", chat.interaction # None, TextForInteraction(text)
  PROVE  IInv'
<1> DEFINE task == chat.interaction.task
           answered == [chat EXCEPT !.interaction = None]
           dropped == [answered EXCEPT !.selection = None]
<1>1. task \in Stored /\ PlainView(CardView(task), Stored)
  BY InteractionFacts, StoredKeys, PlainTasks DEF CardView
<1>2. Same(chat) /\ Same(answered)
  BY StoresFacts
<1>3. /\ StoresOK(answered, Stored) /\ KeepsDraft(answered)
      /\ StoresOK(dropped, Stored) /\ KeepsDraft(dropped)
  BY <1>2, StoresFacts DEF Same
<1> HIDE DEF answered, dropped
<1>4. CASE ShowTask(active, answered, CardView(task))
  BY <1>1, <1>3, <1>4, ActiveOK, ShowPlain
<1>5. CASE chat' = chat /\ UNCHANGED tasks /\ ServiceFails(active)
  BY <1>2, <1>5, ActiveOK, StoredSame, FailStep DEF Same
<1>6. CASE ChangeTask(active, task, tasks[task], chat, answered)
  BY <1>1, <1>2, <1>3, <1>6, ActiveOK, TaskFacts, ChangeTaskStep
<1>7. ASSUME IsClear(text) \/ ~tasks[task].open,
             ChangeTask(active, task, [tasks[task] EXCEPT !.assignee = Named[text]], chat, dropped)
      PROVE  IInv'
  <2>1. tasks[task].open => [tasks[task] EXCEPT !.assignee = Named[text]] \in Task
    BY <1>1, <1>7, TaskFacts DEF Task, IsClear
  <2> QED  BY <1>1, <1>2, <1>3, <1>7, <2>1, ActiveOK, ChangeTaskStep
<1>8. CASE ShowOnly(active,
                    [chat EXCEPT !.selection =
                       [for |-> "reassign", task |-> task, candidates |-> Candidates(text)]],
                    View(PromptView(chat.interaction).screen,
                         ClarificationKeyboard(Candidates(text), FALSE)))
  BY <1>8, ReassignQuestionStep
<1> QED  BY <1>4, <1>5, <1>6, <1>7, <1>8 DEF TextForInteraction, answered, dropped

\* A text, whatever the chat is waiting for.
LEMMA TextStep ==
  ASSUME IInv, NEW text \in Texts, SendText(text)
  PROVE  IInv'
<1>1. Same(chat)
  BY StoresFacts
<1>2. CASE Mode \in {"quick", "none"} /\ CreateFromMessage(text, chat, chat)
  BY <1>1, <1>2, MessageStep DEF Mode, ModeOf
<1> QED  BY <1>2, DraftTextStep, VoiceTextStep, InteractionTextStep DEF SendText

\* A recording: whatever becomes of it, the screen of the processing is all that is shown.
LEMMA RecordingStep ==
  ASSUME IInv, NEW text \in Texts, StartVoice(text), Mode # "guided"
  PROVE  IInv'
<1> DEFINE view == View(<<"Processing">>, NoKeyboard)
           key == FreshKey(Finished(chat))
           draft == NewVoiceDraft(key, text)
           after == [chat EXCEPT !.session = draft, !.selection = None]
<1>1. Same(chat) /\ StoresOK(chat, Stored) /\ KeepsDraft(chat)
  BY StoresFacts DEF Same
<1>2. PlainView(view, Stored)
  BY PlainPages
<1>3. key \in Keys /\ tasks[key] = None
  BY FreshFacts DEF StartVoice
<1> HIDE DEF view, key
<1>4. CASE UNCHANGED <<chat, tasks>> /\ SendScreen(active, view)
  BY <1>1, <1>2, <1>4, ActiveOK, ShowPlain DEF ShowTask, ShowOnly
<1>5. ASSUME chat' = after, UNCHANGED tasks, SendScreen(active, view) PROVE IInv'
  <2>1. draft \in VoiceDraft /\ draft.key = key
    BY <1>3 DEF NewVoiceDraft, VoiceDraft
  <2> HIDE DEF draft
  <2>2. /\ after.session = draft /\ after.selection = None
        /\ after.interaction = chat.interaction /\ after \in Stores
    BY <1>1, <2>1 DEF StoresOK, Stores
  <2>3. StoresOK(after, Stored)
    BY <1>1, <2>2 DEF StoresOK
  <2> HIDE DEF after
  <2>4. Settled /\ Stored' = Stored
    BY <1>5, <2>3, StoredSame
  <2>5. ModeOf(chat'.session) = "voice"
    BY <1>5, <2>1, <2>2, ModeFacts
  <2>6. Unfinished /\ DraftStep(view)
    BY <1>3, <1>5, <2>1, <2>2, <2>5 DEF Unfinished, DraftStep
  <2>7. view \in Presentable(Stored') /\ ShowsFor(view.screen, view.keyboard, chat')
    BY <1>2, <2>4, PlainFits
  <2> QED  BY <1>5, <2>4, <2>6, <2>7, ActiveOK, ShowStep
<1> QED  BY <1>4, <1>5 DEF StartVoice, SendScreen, view, key

\* A voice message.
LEMMA VoiceStep ==
  ASSUME IInv, NEW text \in Texts, SendVoice(text)
  PROVE  IInv'
<1>1. Same(chat) /\ StoresOK(chat, Stored) /\ KeepsDraft(chat)
  BY StoresFacts DEF Same
<1>2. CASE Mode = "guided"
           /\ ShowOnly(active, chat, View(StepView(chat.session).screen, MainMenuKeyboard(Views)))
  <2> DEFINE draft == chat.session
             screen == StepView(draft).screen
             keyboard == MainMenuKeyboard(Views)
             view == View(screen, keyboard)
  <2>1. ModeOf(draft) = "guided" /\ draft \in Draft
    BY <1>2, DraftFacts DEF Mode, ModeOf
  <2>2. screen \in Screen /\ PromptFits(screen, draft)
    <3>1. ShowsFor(screen, StepView(draft).keyboard, chat) /\ StepView(draft) \in Presentable(Stored)
      BY <2>1, StepViewFits
    <3> QED  BY <3>1 DEF ShowsFor, Presentable
  <2>3. keyboard \subseteq PlainButtons(Stored)
    BY PlainPages DEF Steps
  <2>4. keyboard \subseteq Buttons(Stored)
    BY <2>3 DEF Buttons
  <2> HIDE DEF screen, keyboard
  <2>5. /\ view.screen = screen /\ view.keyboard = keyboard /\ view.says = None
        /\ view \in Presentable(Stored)
    BY <2>2, <2>4 DEF View, Presentable
  <2>6. ~Chooses(keyboard)
    BY <2>3, PlainHasNoDraft DEF Chooses
  <2>7. ~Submits(keyboard)
    <3>1. <<"DraftSubmit">>[1] \in DraftButtons
      BY DEF DraftButtons
    <3> QED  BY <2>3, <3>1, PlainHasNoDraft DEF Submits
  <2>8. ShowsFor(screen, keyboard, chat)
    BY <2>2, <2>3, PlainHasNoDraft DEF ShowsFor, ButtonLives, IsChoice
  <2> HIDE DEF view
  <2>9. ShowOnly(active, chat, view)
    BY <1>2 DEF view, screen, keyboard
  <2> QED  BY <1>1, <2>1, <2>5, <2>6, <2>7, <2>8, <2>9, ActiveOK, ShowDraftStep
<1>3. CASE chat.interaction # None /\ ShowTask(active, chat, PromptView(chat.interaction))
  BY <1>1, <1>3, ActiveOK, InteractionFacts, ShowPlain
<1>4. CASE Mode # "guided" /\ StartVoice(text)
  BY <1>4, RecordingStep
<1> QED  BY <1>2, <1>3, <1>4 DEF SendVoice

(***************************************************************************)
(* Commands, restarts, and all of it together.                             *)
(***************************************************************************)
LEMMA CommandStep ==
  ASSUME IInv, Command
  PROVE  IInv'
<1>1. Same(Idle) /\ StoresOK(Idle, Stored) /\ KeepsDraft(Idle)
  BY StoresFacts DEF Same, Idle
<1>2. StoresOK(EmptyChat, Stored) /\ KeepsDraft(EmptyChat)
  BY StoresFacts
<1>3. CASE Menu
  <2>1. ShowOnly(active, EmptyChat, MainMenuView)
    BY <1>3 DEF Menu, ShowOnly, SendFreshScreen, SendScreen
  <2> QED  BY <1>2, <2>1, PlainPages, ActiveOK, ShowPlain DEF ShowTask
<1>4. CASE NewTaskMenu
  BY <1>2, <1>4, PlainPages, ActiveOK, ShowPlain DEF NewTaskMenu, ShowTask
<1>5. CASE UnknownTask
  BY <1>1, <1>5, PlainPages, ActiveOK, ShowPlain DEF UnknownTask, ShowTask
<1>6. ASSUME NEW page \in Views, OpenPage(page) PROVE IInv'
  BY <1>1, <1>6, ActiveOK, MenuStep DEF OpenPage
<1>7. ASSUME NEW text \in Texts, NewTask(text) PROVE IInv'
  <2> DEFINE asking == [Idle EXCEPT !.session = None]
  <2>1. asking.session = None
    BY <1>1 DEF StoresOK, Stores
  <2>2. ModeOf(asking.session) # "guided"
    BY <2>1, ModeFacts
  <2> QED  BY <1>1, <1>7, <2>2, MessageStep DEF NewTask
<1>8. ASSUME NEW task \in Stored, Status(task) PROVE IInv'
  <2>1. PlainView(CardView(task), Stored)
    BY StoredKeys, PlainTasks DEF CardView
  <2> QED  BY <1>1, <1>8, <2>1, ActiveOK, ShowPlain DEF Status
<1>9. ASSUME NEW task \in Stored, CancelTask(task) PROVE IInv'
  <2>1. <<"ConfirmTaskCancel", task>>[2] = task
    OBVIOUS
  <2> QED  BY <1>1, <1>9, <2>1, ActiveOK, CardStep DEF CancelTask
<1> QED  BY <1>3, <1>4, <1>5, <1>6, <1>7, <1>8, <1>9 DEF Command

\* A restart empties the stores and leaves the messages with their keyboards.
LEMMA RestartStep ==
  ASSUME IInv, Restart
  PROVE  IInv'
<1>1. StoresOK(EmptyChat, Stored)
  BY StoresFacts
<1>2. Stored' = Stored /\ Buttons(Stored') = Buttons(Stored)
  BY DEF Restart, Stored, Buttons, PlainButtons
<1>3. Len(keyboards) \in Nat
  BY LenProperties DEF IInv, Types
<1>4. faults' \in Nat /\ faults' > 0 /\ Len(keyboards') + faults' <= MaxEvents
  BY <1>3, EventsAssumption DEF Restart, IInv, Types
<1>5. Types'
  BY <1>1, <1>2, <1>4 DEF Restart, IInv, Types
<1> QED  BY <1>4, <1>5 DEF Restart, IInv, TornForCause, ScreenFits, FinishedDraftsAreClosed,
            DraftWasShown

\* The invariant holds at first,
LEMMA ConversationInit == Init => IInv
<1> SUFFICES ASSUME Init PROVE IInv
  OBVIOUS
<1>1. StoresOK(chat, Stored) /\ chat.session = None
  BY StoresFacts DEF Init, EmptyChat
<1>2. keyboards = <<>> /\ Len(keyboards) = 0 /\ keyboards \in Seq(SUBSET Buttons(Stored))
  BY DEF Init
<1>3. Types
  <2>1. active = None /\ shown = None /\ late = {} /\ torn = FALSE /\ faults = 0 /\ faults \in Nat
    BY DEF Init
  <2>2. Len(keyboards) + faults <= MaxEvents
    BY <1>2, <2>1, EventsAssumption
  <2>3. tasks \in [Keys -> Task \cup {None}]
    BY TasksAssumption DEF Init
  <2> QED  BY <1>1, <1>2, <2>1, <2>2, <2>3 DEF Types
<1>4. Mode = "none" /\ ModeOf(chat.session) = "none"
  BY <1>1 DEF Mode, ModeOf
<1> QED  BY <1>2, <1>3, <1>4 DEF Init, IInv, TornForCause, ScreenFits, FinishedDraftsAreClosed,
            DraftWasShown

\* and every step preserves it.
LEMMA ConversationNext == IInv /\ [Next]_vars => IInv'
<1> SUFFICES ASSUME IInv, [Next]_vars PROVE IInv'
  OBVIOUS
<1>1. CASE PressVisible
  BY <1>1, PressStep DEF PressVisible
<1>2. CASE PressLate
  <2>1. active # None => active.msg \in DOMAIN keyboards
    BY DEF IInv, Types
  <2> QED  BY <1>2, <2>1, PressStep DEF PressLate
<1>3. CASE Message
  BY <1>3, TextStep, VoiceStep DEF Message
<1>4. CASE Command
  BY <1>4, CommandStep
<1>5. CASE Restart
  BY <1>5, RestartStep
<1>6. CASE UNCHANGED vars
  <2>1. Stored' = Stored /\ Buttons(Stored') = Buttons(Stored)
    BY <1>6 DEF vars, Stored, Buttons, PlainButtons
  <2>2. Types'
    BY <1>6, <2>1 DEF vars, IInv, Types
  <2>3. Visible' = Visible /\ AsksOf(chat') = AsksOf(chat)
    BY <1>6 DEF vars, Visible, AsksOf
  <2>4. DraftWasShown'
    BY <1>6, <2>3 DEF vars, IInv, DraftWasShown, ShownFits
  <2> QED  BY <1>6, <2>2, <2>4 DEF vars, IInv, TornForCause, ScreenFits, ShowsFor, PromptFits,
              ButtonLives, FinishedDraftsAreClosed, Mode
<1> QED  BY <1>1, <1>2, <1>3, <1>4, <1>5, <1>6 DEF Next

\* Whatever is pressed, written and lost, the screen, the stores and what was shown belong
\* together.
THEOREM ConversationInvariance == Spec => []IInv
BY ConversationInit, ConversationNext, PTL DEF Spec

\* The screens, buttons, stores and tasks have their types.
THEOREM TypeCorrect == Spec => []TypeOK
<1>1. IInv => TypeOK
  BY DEF IInv, Types, TypeOK, StoresOK, Stores
<1> QED  BY <1>1, ConversationInvariance, PTL

\* A text is only asked for while the session is at that step.
THEOREM PromptsAreMeant == Spec => []PromptsMatchSession
<1>1. IInv => PromptsMatchSession
  BY DEF IInv, ScreenFits, ShowsFor, PromptFits, PromptsMatchSession, Mode, ModeOf
<1> QED  BY <1>1, ConversationInvariance, PTL

\* The buttons on the active screen find the session or the question they need.
THEOREM ButtonsLive == Spec => []ButtonsAreAlive
<1>1. IInv => ButtonsAreAlive
  BY DEF IInv, ScreenFits, ShowsFor, ButtonLives, ButtonsAreAlive, Mode, ModeOf
<1> QED  BY <1>1, ConversationInvariance, PTL

\* A draft does not outlive the task made of it, unless a service failed behind the insertion.
THEOREM DraftsAreClosed == Spec => []FinishedDraftsAreClosed
<1>1. IInv => FinishedDraftsAreClosed
  BY DEF IInv
<1> QED  BY <1>1, ConversationInvariance, PTL

(***************************************************************************)
(* What becomes of the text of a guided draft: a step that stores its task *)
(* stores the text that was shown.                                         *)
(***************************************************************************)
DraftKey == chat.session.key

StoredAsShown ==
    (faults = 0 /\ tasks[DraftKey] = None /\ tasks'[DraftKey] # None) =>
        ShownFits(tasks'[DraftKey].text)

\* The draft has a key of a task.
LEMMA DraftKeyFacts ==
  ASSUME IInv, ModeOf(chat.session) = "guided"
  PROVE  DraftKey \in Keys
BY DraftFacts DEF DraftKey, Draft

\* A step that stores no task stores nothing unseen.
LEMMA UnchangedText ==
  ASSUME UNCHANGED tasks
  PROVE  StoredAsShown
BY DEF StoredAsShown

\* Showing a view stores no task.
LEMMA ShowText ==
  ASSUME NEW on, NEW after, NEW view, ShowTask(on, after, view) \/ ShowOnly(on, after, view)
  PROVE  StoredAsShown
BY UnchangedText DEF ShowTask, ShowOnly

\* A creation stores the text of its request, which under the key of the draft was shown.
LEMMA CreateForText ==
  ASSUME IInv, ModeOf(chat.session) = "guided", NEW on, NEW request \in Request,
         NEW assignee \in Employees \cup {None}, NEW stores, NEW followUp,
         faults = 0 /\ request.key = DraftKey => ShownFits(request.text),
         CreateFor(on, request, assignee, stores, followUp)
  PROVE  StoredAsShown
<1>1. CASE Store(request, assignee)
  <2>1. /\ \A key \in Keys : key # request.key => tasks'[key] = tasks[key]
        /\ tasks[request.key] = None => tasks'[request.key].text = request.text
    BY <1>1, StoreStep
  <2> QED  BY <2>1, DraftKeyFacts DEF StoredAsShown
<1>2. CASE UNCHANGED tasks
  BY <1>2, UnchangedText
<1> QED  BY <1>1, <1>2 DEF CreateFor

\* So does a creation that first looks for the assignee.
LEMMA CreateTaskText ==
  ASSUME IInv, ModeOf(chat.session) = "guided", NEW on, NEW request \in Request,
         NEW stores, NEW asking, NEW question, NEW followUp,
         faults = 0 /\ request.key = DraftKey => ShownFits(request.text),
         CreateTask(on, request, stores, asking, question, followUp)
  PROVE  StoredAsShown
<1> DEFINE name == NameIn(request)
           assignee == IF name = None THEN None ELSE Named[name]
<1>1. CASE ~IsUnclear(name) /\ CreateFor(on, request, assignee, stores, followUp)
  <2>1. assignee \in Employees \cup {None}
    BY <1>1, NameFacts DEF IsUnclear, IsClear
  <2> HIDE DEF assignee
  <2> QED  BY <1>1, <2>1, CreateForText
<1>2. CASE UNCHANGED tasks
  BY <1>2, UnchangedText
<1> QED  BY <1>1, <1>2 DEF CreateTask

\* A change of a task that is there stores no other.
LEMMA ChangeTaskText ==
  ASSUME IInv, ModeOf(chat.session) = "guided", NEW on, NEW task \in Stored, NEW new, NEW stores,
         NEW after, ChangeTask(on, task, new, stores, after)
  PROVE  StoredAsShown
<1>1. task \in Keys /\ tasks[task] # None /\ DraftKey \in Keys
  BY TaskFacts, DraftKeyFacts
<1>2. tasks \in [Keys -> Task \cup {None}]
  BY DEF IInv, Types
<1>3. CASE tasks' = [tasks EXCEPT ![task] = new]
  BY <1>1, <1>2, <1>3 DEF StoredAsShown
<1>4. CASE UNCHANGED tasks
  BY <1>4, UnchangedText
<1> QED  BY <1>3, <1>4 DEF ChangeTask

\* No press of a menu stores a task.
LEMMA MenuText ==
  ASSUME NEW on, NEW idle, NEW button, PressMenu(on, idle, button)
  PROVE  StoredAsShown
BY ShowText DEF PressMenu

\* A press of a card changes tasks that were stored before.
LEMMA CardText ==
  ASSUME IInv, ModeOf(chat.session) = "guided", NEW on, NEW idle, NEW button,
         button[1] \in TaskNames => button[2] \in Stored, PressCard(on, idle, button)
  PROVE  StoredAsShown
<1>1. ASSUME NEW task, NEW kind, StartInteraction(on, idle, task, kind) PROVE StoredAsShown
  BY <1>1, ShowText, UnchangedText DEF StartInteraction
<1>2. ASSUME NEW task \in Stored, NEW open, ChangeStatus(on, idle, task, open) PROVE StoredAsShown
  BY <1>2, ChangeTaskText DEF ChangeStatus
<1>3. button[2] \in Stored
  BY DEF PressCard, TaskNames, CardButtons
<1> QED  BY <1>1, <1>2, <1>3, ShowText DEF PressCard

\* A submission stores the text that was shown.
LEMMA DraftPressText ==
  ASSUME IInv, ModeOf(chat.session) = "guided", NEW on, NEW idle, Same(idle),
         NEW button \in Buttons(Stored), Offered(button), PressDraft(on, idle, button)
  PROVE  StoredAsShown
<1> DEFINE draft == chat.session
           request == GuidedRequest(draft)
<1>1. draft \in Draft /\ idle.session = draft
  BY DraftFacts DEF Same
<1>2. ASSUME NEW new, PutDraft(on, idle, new) PROVE StoredAsShown
  BY <1>2, ShowText DEF PutDraft
<1>3. ASSUME button[1] = "DraftSubmit", SubmitDraft(on, idle, draft) PROVE StoredAsShown
  <2>1. CASE draft.text = None
    BY <1>3, <2>1, ShowText DEF SubmitDraft
  <2>2. CASE draft.text # None
    <3>1. request \in Request /\ request.text = draft.text
      BY <1>1, <2>2, GuidedRequestFacts
    <3>2. faults = 0 => ShownFits(request.text)
      BY <1>3, <2>2, <3>1, SubmitIsOffered, SubmitIsShown
    <3>3. draft.resolved \in Employees \cup {None}
      BY <1>1 DEF Draft
    <3> HIDE DEF request
    <3>4. CASE CreateFor(on, request, draft.resolved, idle, FALSE)
      BY <3>1, <3>2, <3>3, <3>4, CreateForText
    <3>5. CASE CreateTask(on, request, idle, idle, Question(request), FALSE)
      BY <3>1, <3>2, <3>5, CreateTaskText
    <3> QED  BY <1>3, <2>2, <3>4, <3>5 DEF SubmitDraft, request
  <2> QED  BY <2>1, <2>2
<1> QED  BY <1>1, <1>2, <1>3, ShowText DEF PressDraft

\* In the guided mode no press of a spoken draft stores a task.
LEMMA VoicePressText ==
  ASSUME ModeOf(chat.session) = "guided", NEW on, NEW idle, NEW button, PressVoice(on, idle, button)
  PROVE  StoredAsShown
<1>1. Mode # "voice"
  BY DEF Mode, ModeOf
<1> QED  BY <1>1, ShowText DEF PressVoice

\* A choice of an assignee stores the request it was asked for.
LEMMA ChoiceText ==
  ASSUME IInv, ModeOf(chat.session) = "guided", NEW on, NEW idle, Same(idle), NEW button,
         Offered(button), PressClarification(on, idle, button)
  PROVE  StoredAsShown
<1> DEFINE selection == chat.selection
<1>1. idle.selection = selection
  BY DEF Same
<1>2. selection \in {None} \cup Selection
  BY DEF IInv, Types, StoresOK, Stores
<1>3. selection # None => selection.candidates \in SUBSET Employees
  BY <1>2 DEF Selection
<1>4. selection # None /\ selection.for = "create" => selection.request \in Request
  BY <1>2 DEF Selection
<1>5. selection # None /\ selection.for = "reassign" => selection.task \in Stored
  BY DEF IInv, Types, StoresOK
<1>6. ASSUME NEW assignee \in Employees \cup {None}, IsChoice(button),
             selection # None, selection.for = "create",
             CreateFor(on, selection.request, assignee, idle, TRUE)
      PROVE  StoredAsShown
  <2>1. ASSUME faults = 0, selection.request.key = DraftKey PROVE ShownFits(selection.request.text)
    <3>1. AsksOf(chat)
      BY <1>6, <2>1 DEF AsksOf, DraftKey
    <3>2. IsMutating(button)
      BY <1>6 DEF IsChoice, IsMutating, MutatingButtons
    <3>3. Chooses(Visible) \/ Chooses(late)
      BY <1>6, <2>1, <3>2 DEF Offered, Chooses
    <3>4. /\ Chooses(Visible) /\ AsksOf(chat) =>
               chat.session.text = chat.selection.request.text /\ ShownFits(chat.session.text)
          /\ Chooses(late) /\ AsksOf(chat) => ShownFits(chat.selection.request.text)
      BY <2>1 DEF IInv, DraftWasShown
    <3> QED  BY <3>1, <3>3, <3>4
  <2> HIDE DEF selection
  <2> QED  BY <1>4, <1>6, <2>1, CreateForText
<1> HIDE DEF selection
<1>7. ASSUME selection # None, selection.for = "reassign", NEW new, NEW after,
             ChangeTask(on, selection.task, new, idle, after)
      PROVE  StoredAsShown
  BY <1>5, <1>7, ChangeTaskText
<1>8. IsChoice(button)
  BY DEF PressClarification, IsChoice
<1> QED  BY <1>1, <1>3, <1>6, <1>7, <1>8, ShowText DEF PressClarification

\* A press, of whatever family.
LEMMA PressText ==
  ASSUME IInv, ModeOf(chat.session) = "guided", NEW msg \in DOMAIN keyboards, NEW button,
         \/ button \in keyboards[msg]
         \/ active # None /\ msg = active.msg /\ button \in late,
         Press(msg, button)
  PROVE  StoredAsShown
<1> DEFINE on == IF active = None THEN [msg |-> msg, screen |-> <<"Unknown">>] ELSE active
           idle == [chat EXCEPT !.interaction = None]
<1>1. /\ button \in Buttons(Stored)
      /\ ~IsRefused(on, msg, button) => Offered(button)
  BY PressFacts
<1>2. Same(idle)
  BY StoresFacts
<1> HIDE DEF on
<1>3. CASE Refuse(on)
  BY <1>3, UnchangedText DEF Refuse
<1>4. ASSUME ~IsRefused(on, msg, button), Dispatch(on, button) PROVE StoredAsShown
  <2>1. button[1] \in TaskNames => button[2] \in Stored
    BY <1>1, ButtonFacts
  <2>2. CASE StartQuick(on, idle) \/ StartGuided(on, idle)
    BY <2>2, ShowText DEF StartQuick, StartGuided
  <2> HIDE DEF idle
  <2> QED  BY <1>1, <1>2, <1>4, <2>1, <2>2, MenuText, CardText, DraftPressText, VoicePressText,
              ChoiceText DEF Dispatch, idle
<1> QED  BY <1>3, <1>4 DEF Press, on

\* While a draft is guided, a text belongs to it, and a recording is sent back.
LEMMA MessageText ==
  ASSUME ModeOf(chat.session) = "guided", NEW text, SendText(text) \/ SendVoice(text)
  PROVE  StoredAsShown
<1>1. Mode = "guided"
  BY DEF Mode, ModeOf
<1>2. CASE SendText(text)
  <2>1. TextForDraft(text)
    BY <1>1, <1>2 DEF SendText
  <2> QED  BY <2>1, ShowText DEF TextForDraft, PutDraft
<1>3. CASE SendVoice(text)
  BY <1>1, <1>3, ShowText DEF SendVoice
<1> QED  BY <1>2, <1>3

\* No command stores a task.
LEMMA CommandText ==
  ASSUME IInv, ModeOf(chat.session) = "guided", Command
  PROVE  StoredAsShown
<1>1. CASE Menu \/ NewTaskMenu \/ UnknownTask
  BY <1>1, ShowText, UnchangedText DEF Menu, NewTaskMenu, UnknownTask
<1>2. ASSUME NEW page \in Views, OpenPage(page) PROVE StoredAsShown
  BY <1>2, MenuText DEF OpenPage
<1>3. ASSUME NEW text \in Texts, NewTask(text) PROVE StoredAsShown
  <2> DEFINE request == DirectRequest(text)
  <2>1. FreshKeys(chat) # {}
    BY <1>3 DEF NewTask, CreateFromMessage
  <2>2. request \in Request /\ request.key = FreshKey(chat) /\ FreshKey(chat) \in FreshKeys(chat)
    BY <2>1, FreshFacts DEF DirectRequest, Request
  <2>3. chat.session \notin {None, QuickCapture}
    BY DraftFacts, ModeFacts
  <2>4. request.key # DraftKey
    BY <2>2, <2>3 DEF FreshKeys, DraftKey
  <2>5. \E asking : CreateTask(active, request, Idle, asking, Question(request), TRUE)
    BY <1>3 DEF NewTask, CreateFromMessage
  <2> HIDE DEF request
  <2> QED  BY <2>2, <2>4, <2>5, CreateTaskText
<1>4. ASSUME NEW task \in Stored, Status(task) PROVE StoredAsShown
  BY <1>4, ShowText DEF Status
<1>5. ASSUME NEW task \in Stored, CancelTask(task) PROVE StoredAsShown
  <2>1. <<"ConfirmTaskCancel", task>>[2] = task
    OBVIOUS
  <2> QED  BY <1>5, <2>1, CardText DEF CancelTask
<1> QED  BY <1>1, <1>2, <1>3, <1>4, <1>5 DEF Command

\* No step of the guided mode stores a text under the key of the draft that was not shown.
LEMMA NextText ==
  ASSUME IInv, [Next]_vars, ModeOf(chat.session) = "guided"
  PROVE  StoredAsShown
<1>1. CASE PressVisible
  BY <1>1, PressText DEF PressVisible
<1>2. CASE PressLate
  <2>1. active # None => active.msg \in DOMAIN keyboards
    BY DEF IInv, Types
  <2> QED  BY <1>2, <2>1, PressText DEF PressLate
<1>3. CASE Message
  BY <1>3, MessageText DEF Message
<1>4. CASE Command
  BY <1>4, CommandText
<1>5. CASE UNCHANGED tasks
  BY <1>5, UnchangedText
<1> QED  BY <1>1, <1>2, <1>3, <1>4, <1>5 DEF Next, Restart, vars

\* A guided draft becomes a task with the description its user was last shown, unless a screen
\* was lost on the way.
THEOREM GuidedTextIsShown == Spec => GuidedTextWasShown
<1> DEFINE AsShown ==
      \A key \in Keys :
        (/\ Mode = "guided" /\ chat.session.key = key
         /\ tasks[key] = None /\ tasks'[key] # None
         /\ faults = 0)
          => shown # None /\ shown.text \in {None, tasks'[key].text}
<1>1. IInv /\ [Next]_vars => AsShown
  BY NextText DEF StoredAsShown, DraftKey, ShownFits, Mode, ModeOf
<1>2. IInv /\ [Next]_vars => [AsShown]_vars
  BY <1>1
<1> QED  BY <1>2, ConversationInvariance, PTL DEF Spec, GuidedTextWasShown

=====
