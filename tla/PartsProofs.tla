--------------------------- MODULE PartsProofs ---------------------------
(***************************************************************************)
(* Theorems about the parts of the bot that meet only through the database *)
(* or not at all: the gateway of the updates, the onboarding, the daily    *)
(* jobs, the calls of outside services, the voice records, the lists of    *)
(* tasks and the data of the buttons.  They hold for any numbers of chats, *)
(* people, tasks, callers and files, for any days and any capacities.      *)
(* Each section states what is invariant of one part, and then that its    *)
(* steps keep it so; the last one has no steps.                            *)
(***************************************************************************)
EXTENDS UpdateGateway, Onboarding, DailyJobs, ServiceCalls, VoiceRecords, TaskLists,
        CallbackCodec, TLAPS, FiniteSetTheorems, SequenceTheorems, WellFoundedInduction

-----------------------------------------------------------------------------
(* The gateway of the updates *)

\* Chats have locks of their own.
LocksDiffer ==
  /\ \A c \in Chats : chatLock[c] <= made
  /\ \A c, d \in Chats : chatLock[c] = chatLock[d] /\ chatLock[c] # 0 => c = d

HasLock(w) == worker[w].pc \in {"wait", "locked", "admitted", "handling", "leaving"}

\* A task that has found its lock has the lock of its chat.
LocksFound ==
  /\ \A w \in Workers : worker[w].pc # "idle" => worker[w].update \in Updates
  /\ \A w \in Workers : HasLock(w) => worker[w].lock # 0 /\ worker[w].lock = chatLock[Chat(w)]

\* A lock is held by one task.
OneInside == \A v, w \in Inside : worker[v].lock = worker[w].lock => v = w

\* The barrier in force is that of the task that handles, and it is spent by its first screen.
BarrierHolds ==
  /\ \A w \in Workers : worker[w].pc = "handling" => barrier[Chat(w)] = {w}
  /\ \A w \in Workers :
       /\ worker[w].effects <= 1
       /\ worker[w].effects # 0 => worker[w].spent

\* The strengthening of ChatsAreSerial that is inductive.
SerialInv == GatewayTypeOK /\ LocksDiffer /\ LocksFound /\ OneInside /\ BarrierHolds

\* Whether u was admitted and not handed to its handler yet.
Pending(u) == IF \E w \in Workers : worker[w].pc = "admitted" /\ worker[w].update = u THEN 1 ELSE 0

Known(u) == IF u \in Remembered THEN 1 ELSE 0

\* An update that was handled is remembered, unless it was forgotten since.
Counted == \A u \in Updates : handled[u] + Pending(u) <= forgotten[u] + Known(u)

\* Two tasks past the lock are of different chats.
LEMMA TasksInsideDiffer ==
  ASSUME SerialInv, NEW v \in Inside, NEW w \in Inside, v # w
  PROVE  Chat(v) # Chat(w)
BY DEF SerialInv, OneInside, LocksFound, HasLock, Inside

\* The invariant says it,
LEMMA SerialImplies == SerialInv => ChatsAreSerial
<1> SUFFICES ASSUME SerialInv, NEW w \in Inside
             PROVE  /\ \A v \in Inside \ {w} : Chat(v) # Chat(w)
                    /\ worker[w].pc = "handling" => barrier[Chat(w)] = {w}
                    /\ worker[w].effects <= 1
  BY DEF ChatsAreSerial
<1>1. \A v \in Inside \ {w} : Chat(v) # Chat(w)
  BY TasksInsideDiffer
<1>2. w \in Workers
  BY DEF Inside
<1> QED
  BY <1>1, <1>2 DEF SerialInv, BarrierHolds

\* holds at first,
LEMMA SerialInit == GatewayInit => SerialInv
<1> SUFFICES ASSUME GatewayInit PROVE SerialInv
  OBVIOUS
<1> USE DEF GatewayInit, IdleWorker
<1>1. GatewayTypeOK
  BY DEF GatewayTypeOK, Phases
<1>2. LocksDiffer
  BY DEF LocksDiffer
<1>3. LocksFound /\ OneInside /\ BarrierHolds
  BY DEF LocksFound, HasLock, OneInside, Inside, BarrierHolds
<1> QED
  BY <1>1, <1>2, <1>3 DEF SerialInv

Tasks == [pc : Phases, update : Updates \cup {NoUpdate}, lock : Nat, spent : BOOLEAN, tries : Nat,
          effects : Nat]

\* (an idle task is a task)
LEMMA IdleTask == IdleWorker \in Tasks
BY DEF IdleWorker, Tasks, Phases

\* A step on one task, or two, is a step from tasks to tasks.
LEMMA TypeStep ==
  ASSUME GatewayTypeOK, LocksFound, [GatewayNext]_gatewayVars
  PROVE  GatewayTypeOK'
<1> USE GatewayAssumption
<1>0. worker \in [Workers -> Tasks] /\ IdleWorker \in Tasks
  BY IdleTask DEF GatewayTypeOK, Tasks
<1>1. CASE UNCHANGED gatewayVars
  BY <1>1 DEF gatewayVars, GatewayTypeOK
<1>3. ASSUME NEW w \in Workers, NEW u \in Updates, Deliver(w, u) PROVE GatewayTypeOK'
  <2>1. [IdleWorker EXCEPT !.pc = "find", !.update = u] \in Tasks
    BY DEF IdleWorker, Tasks, Phases
  <2>2. worker' \in [Workers -> Tasks]
    BY <1>0, <1>3, <2>1 DEF Deliver
  <2>3. delivered' \in [Updates -> Nat]
    BY <1>3 DEF Deliver, GatewayTypeOK
  <2>4. UNCHANGED <<chatLock, made, observed, barrier, handled, forgotten, restarts>>
    BY <1>3 DEF Deliver
  <2> QED
    BY <2>2, <2>3, <2>4 DEF GatewayTypeOK, Tasks
<1>4. ASSUME NEW w \in Workers, HandleUpdate(w) PROVE GatewayTypeOK'
  <2>0. worker[w].pc # "idle" /\ worker[w].update \in Updates /\ Chat(w) \in Chats
    BY <1>4 DEF LocksFound, Chat, HandleUpdate, FindLock, MakeLock, Enter, DropDuplicate, Observe,
                Install, Render, Uninstall, Leave
  <2>1. worker[w] \in Tasks
    BY <1>0
  <2>2. \A p \in Phases : [worker EXCEPT ![w].pc = p] \in [Workers -> Tasks]
    BY <1>0 DEF Tasks
  <2>20. \A p \in Phases, n \in Nat :
            [worker EXCEPT ![w].pc = p, ![w].lock = n] \in [Workers -> Tasks]
    BY <1>0 DEF Tasks
  <2>3. CASE FindLock(w)
    <3>1. chatLock[Chat(w)] \in Nat
      BY <2>0 DEF GatewayTypeOK
    <3>2. worker' \in [Workers -> Tasks]
      BY <2>3, <2>20, <3>1 DEF FindLock, Phases
    <3> QED
      BY <2>3, <3>2 DEF FindLock, GatewayTypeOK, Tasks
  <2>4. CASE MakeLock(w)
    <3>1. made' \in Nat /\ chatLock' \in [Chats -> Nat]
      BY <2>0, <2>4 DEF MakeLock, GatewayTypeOK
    <3>2. worker' \in [Workers -> Tasks]
      BY <2>0, <2>4, <2>20, <3>1 DEF MakeLock, Phases
    <3> QED
      BY <2>4, <3>1, <3>2 DEF MakeLock, GatewayTypeOK, Tasks
  <2>5. CASE Enter(w)
    <3>1. worker' \in [Workers -> Tasks]
      BY <2>2, <2>5 DEF Enter, Phases
    <3> QED
      BY <2>5, <3>1 DEF Enter, GatewayTypeOK, Tasks
  <2>6. CASE DropDuplicate(w)
    <3>1. worker' \in [Workers -> Tasks]
      BY <1>0, <2>6 DEF DropDuplicate
    <3> QED
      BY <2>6, <3>1 DEF DropDuplicate, GatewayTypeOK, Tasks
  <2>7. CASE Observe(w)
    <3>1. observed' \in Seq(Updates)
      BY <2>0, <2>7 DEF Observe, GatewayTypeOK
    <3>2. forgotten' \in [Updates -> Nat]
      <4>1. CASE Len(observed) >= Capacity
        <5>1. Head(observed) \in Updates
          BY <4>1 DEF GatewayTypeOK
        <5>2. forgotten' = [forgotten EXCEPT ![Head(observed)] = forgotten[Head(observed)] + 1]
          BY <2>7, <4>1 DEF Observe
        <5>3. forgotten \in [Updates -> Nat]
          BY DEF GatewayTypeOK
        <5> QED
          BY <5>1, <5>2, <5>3
      <4> QED
        BY <2>7, <4>1 DEF Observe, GatewayTypeOK
    <3>3. worker' \in [Workers -> Tasks]
      BY <2>2, <2>7 DEF Observe, Phases
    <3> QED
      BY <2>7, <3>1, <3>2, <3>3 DEF Observe, GatewayTypeOK, Tasks
  <2>8. CASE Install(w)
    <3>1. barrier' \in [Chats -> SUBSET Workers] /\ handled' \in [Updates -> Nat]
      BY <2>0, <2>8 DEF Install, GatewayTypeOK
    <3>2. worker' \in [Workers -> Tasks]
      BY <2>2, <2>8 DEF Install, Phases
    <3> QED
      BY <2>8, <3>1, <3>2 DEF Install, GatewayTypeOK, Tasks
  <2>9. CASE Render(w)
    <3> DEFINE tried == [worker EXCEPT ![w].tries = @ + 1]
               out == [tried EXCEPT ![w].effects = @ + 1]
    <3>1. tried \in [Workers -> Tasks]
      BY <1>0 DEF Tasks
    <3>2. out \in [Workers -> Tasks]
      <4> HIDE DEF tried
      <4> QED
        BY <3>1 DEF Tasks
    <3>3. \A b \in Workers : [out EXCEPT ![b].spent = TRUE] \in [Workers -> Tasks]
      <4> HIDE DEF out
      <4> QED
        BY <3>2 DEF Tasks
    <3>4. barrier[Chat(w)] \subseteq Workers
      BY <2>0 DEF GatewayTypeOK
    <3>5. \/ worker' = out
          \/ worker' = tried
          \/ \E b \in Workers : worker' = [out EXCEPT ![b].spent = TRUE]
      BY <2>9, <3>4 DEF Render
    <3>6. worker' \in [Workers -> Tasks]
      <4> HIDE DEF tried, out
      <4> QED
        BY <3>1, <3>2, <3>3, <3>5
    <3> QED
      BY <2>9, <3>6 DEF Render, GatewayTypeOK, Tasks
  <2>10. CASE Uninstall(w)
    <3>1. worker' \in [Workers -> Tasks]
      BY <2>2, <2>10 DEF Uninstall, Phases
    <3>2. barrier' \in [Chats -> SUBSET Workers]
      BY <2>10 DEF Uninstall, GatewayTypeOK
    <3> QED
      BY <2>10, <3>1, <3>2 DEF Uninstall, GatewayTypeOK, Tasks
  <2>11. CASE Leave(w)
    <3>1. worker' \in [Workers -> Tasks]
      BY <1>0, <2>11 DEF Leave
    <3> QED
      BY <2>11, <3>1 DEF Leave, GatewayTypeOK, Tasks
  <2> QED
    BY <1>4, <2>3, <2>4, <2>5, <2>6, <2>7, <2>8, <2>9, <2>10, <2>11 DEF HandleUpdate
<1>5. ASSUME RestartGateway PROVE GatewayTypeOK'
  <2>1. worker' \in [Workers -> Tasks]
    BY <1>0, <1>5 DEF RestartGateway
  <2>2. forgotten' \in [Updates -> Nat]
    BY <1>5 DEF RestartGateway, GatewayTypeOK
  <2> QED
    BY <1>5, <2>1, <2>2 DEF RestartGateway, GatewayTypeOK, Tasks
<1> QED
  BY <1>1, <1>3, <1>4, <1>5 DEF GatewayNext

\* What a step of one task leaves to the others.
LEMMA OthersStay ==
  ASSUME SerialInv, NEW w \in Workers,
         HandleUpdate(w) \/ \E u \in Updates : Deliver(w, u)
  PROVE  \A v \in Workers \ {w} : worker'[v] = worker[v]
<1>0. worker \in [Workers -> Tasks]
  BY DEF SerialInv, GatewayTypeOK, Tasks
<1>1. CASE Render(w)
  <2>1. barrier[Chat(w)] = {w}
    BY <1>1 DEF Render, SerialInv, BarrierHolds
  <2> QED
    BY <1>0, <1>1, <2>1 DEF Render
<1>2. CASE \E u \in Updates : Deliver(w, u)
  BY <1>0, <1>2 DEF Deliver
<1>3. CASE FindLock(w) \/ MakeLock(w) \/ Enter(w) \/ DropDuplicate(w) \/ Observe(w)
  BY <1>0, <1>3 DEF FindLock, MakeLock, Enter, DropDuplicate, Observe
<1>4. CASE Install(w) \/ Uninstall(w) \/ Leave(w)
  BY <1>0, <1>4 DEF Install, Uninstall, Leave
<1> QED
  BY <1>1, <1>2, <1>3, <1>4 DEF HandleUpdate

\* A screen of a task: the first one spends the barrier, the others do not go out.
LEMMA RenderOnce ==
  ASSUME SerialInv, NEW w \in Workers, Render(w)
  PROVE  /\ worker'[w].pc = "handling" /\ worker[w].pc = "handling"
         /\ worker'[w].update = worker[w].update /\ worker'[w].lock = worker[w].lock
         /\ worker'[w].effects <= 1 /\ worker'[w].spent
<1>0. worker \in [Workers -> Tasks]
  BY DEF SerialInv, GatewayTypeOK, Tasks
<1>1. barrier[Chat(w)] = {w} /\ worker[w].pc = "handling"
  BY DEF Render, SerialInv, BarrierHolds
<1>2. /\ worker[w].effects \in Nat /\ worker[w].effects <= 1 /\ worker[w].spent \in BOOLEAN
      /\ worker[w].effects # 0 => worker[w].spent
  BY <1>0 DEF SerialInv, BarrierHolds, Tasks
<1>3. CASE worker[w].spent
  BY <1>0, <1>1, <1>2, <1>3 DEF Render, Tasks
<1>4. CASE ~ worker[w].spent
  <2>1. worker[w].effects = 0
    BY <1>2, <1>4
  <2>2. /\ worker'[w].pc = worker[w].pc /\ worker'[w].update = worker[w].update
        /\ worker'[w].lock = worker[w].lock /\ worker'[w].effects = worker[w].effects + 1
        /\ worker'[w].spent = TRUE
    BY <1>0, <1>1, <1>4 DEF Render, Tasks
  <2> QED
    BY <1>1, <2>1, <2>2
<1> QED
  BY <1>2, <1>3, <1>4

\* and every step preserves it.
LEMMA SerialStep ==
  ASSUME SerialInv, [GatewayNext]_gatewayVars
  PROVE  SerialInv'
<1> USE GatewayAssumption
<1>0. GatewayTypeOK' /\ worker \in [Workers -> Tasks] /\ worker' \in [Workers -> Tasks]
  BY TypeStep DEF SerialInv, GatewayTypeOK, Tasks
<1>1. CASE UNCHANGED gatewayVars
  BY <1>1, <1>0 DEF gatewayVars, SerialInv, LocksDiffer, LocksFound, HasLock, OneInside, Inside,
                    BarrierHolds, Chat
<1>2. CASE RestartGateway
  <2>1. \A w \in Workers : worker'[w] = IdleWorker
    BY <1>2 DEF RestartGateway
  <2>2. LocksDiffer'
    BY <1>2 DEF RestartGateway, LocksDiffer, SerialInv, GatewayTypeOK
  <2>3. LocksFound' /\ OneInside' /\ BarrierHolds'
    BY <2>1 DEF LocksFound, HasLock, OneInside, Inside, BarrierHolds, IdleWorker
  <2> QED
    BY <1>0, <2>2, <2>3 DEF SerialInv
<1>3. ASSUME NEW w \in Workers, HandleUpdate(w) \/ \E u \in Updates : Deliver(w, u)
      PROVE  SerialInv'
  <2>1. \A v \in Workers \ {w} : worker'[v] = worker[v] /\ Chat(v)' = Chat(v)
    BY <1>3, OthersStay DEF Chat
  <2>2. CASE MakeLock(w)
    <3>1. /\ worker'[w].pc = "wait" /\ worker'[w].update = worker[w].update
          /\ worker'[w].lock = chatLock'[Chat(w)] /\ worker[w].pc = "make"
          /\ worker'[w].effects = worker[w].effects /\ worker'[w].spent = worker[w].spent
      BY <1>0, <2>2 DEF MakeLock
    <3>2. Chat(w) \in Chats /\ Chat(w)' = Chat(w)
      BY <3>1 DEF SerialInv, LocksFound, Chat
    <3>3. /\ chatLock'[Chat(w)] # 0
          /\ \A c \in Chats : chatLock[c] # 0 => chatLock'[c] = chatLock[c]
          /\ LocksDiffer'
      BY <2>2, <3>2 DEF MakeLock, SerialInv, GatewayTypeOK, LocksDiffer
    <3>4. LocksFound'
      BY <2>1, <3>1, <3>2, <3>3 DEF LocksFound, SerialInv, HasLock, Chat
    <3>5. OneInside'
      BY <2>1, <3>1 DEF OneInside, SerialInv, Inside
    <3>6. BarrierHolds'
      BY <2>1, <2>2, <3>1 DEF BarrierHolds, SerialInv, MakeLock
    <3> QED
      BY <1>0, <3>3, <3>4, <3>5, <3>6 DEF SerialInv
  <2>3. ASSUME UNCHANGED <<chatLock, made>>,
               worker'[w].pc # "idle" => /\ worker'[w].update \in Updates
                                         /\ worker[w].pc # "idle" => worker'[w].update = worker[w].update,
               HasLock(w)' => \/ HasLock(w) /\ worker'[w].lock = worker[w].lock
                                            /\ worker[w].update = worker'[w].update
                              \/ worker'[w].lock # 0 /\ worker'[w].lock = chatLock[Chat(w)']
        PROVE  LocksDiffer' /\ LocksFound'
    BY <2>1, <2>3 DEF SerialInv, LocksDiffer, LocksFound, HasLock, Chat
  <2>4. ASSUME w \in Inside' => w \in Inside /\ worker'[w].lock = worker[w].lock
        PROVE  OneInside'
    BY <2>1, <2>4 DEF SerialInv, OneInside, Inside
  <2>5. ASSUME UNCHANGED barrier, worker'[w].pc # "handling",
               worker'[w].effects = 0 \/ (/\ worker'[w].effects = worker[w].effects
                                          /\ worker'[w].spent = worker[w].spent)
        PROVE  BarrierHolds'
    BY <1>0, <2>1, <2>5 DEF SerialInv, BarrierHolds, Tasks
  <2>6. CASE \E u \in Updates : Deliver(w, u)
    <3>1. /\ worker'[w].pc = "find" /\ worker'[w].update \in Updates /\ worker'[w].effects = 0
          /\ worker[w].pc = "idle" /\ UNCHANGED <<chatLock, made, barrier>>
      BY <1>0, <2>6 DEF Deliver, IdleWorker
    <3> QED
      BY <1>0, <2>3, <2>4, <2>5, <3>1 DEF SerialInv, HasLock, Inside
  <2>7. CASE FindLock(w)
    <3>1. /\ worker'[w].pc = (IF chatLock[Chat(w)] = 0 THEN "make" ELSE "wait")
          /\ worker'[w].update = worker[w].update /\ worker'[w].lock = chatLock[Chat(w)]
          /\ worker'[w].effects = worker[w].effects /\ worker'[w].spent = worker[w].spent
          /\ worker[w].pc = "find" /\ UNCHANGED <<chatLock, made, barrier>>
      BY <1>0, <2>7 DEF FindLock
    <3>2. Chat(w)' = Chat(w) /\ worker[w].update \in Updates
      BY <3>1 DEF Chat, SerialInv, LocksFound
    <3>3. LocksDiffer' /\ LocksFound'
      BY <2>3, <3>1, <3>2 DEF HasLock
    <3>4. OneInside' /\ BarrierHolds'
      BY <2>4, <2>5, <3>1 DEF Inside
    <3> QED
      BY <1>0, <3>3, <3>4 DEF SerialInv
  <2>8. CASE DropDuplicate(w) \/ Leave(w)
    <3>1. worker'[w] = IdleWorker /\ UNCHANGED <<chatLock, made, barrier>>
      BY <1>0, <2>8 DEF DropDuplicate, Leave
    <3> QED
      BY <1>0, <2>3, <2>4, <2>5, <3>1 DEF SerialInv, HasLock, Inside, IdleWorker
  <2>9. ASSUME NEW p \in Phases, p # "idle", worker'[w] = [worker[w] EXCEPT !.pc = p],
               worker[w].pc # "idle"
        PROVE  /\ worker'[w].pc = p /\ worker'[w].update = worker[w].update
               /\ worker'[w].lock = worker[w].lock /\ worker'[w].effects = worker[w].effects
               /\ worker'[w].spent = worker[w].spent /\ worker[w].update \in Updates
    BY <1>0, <2>9 DEF Tasks, SerialInv, LocksFound
  <2>10. CASE Enter(w)
    <3>1. worker'[w] = [worker[w] EXCEPT !.pc = "locked"] /\ worker[w].pc = "wait"
      BY <1>0, <2>10 DEF Enter
    <3>2. LocksDiffer' /\ LocksFound' /\ BarrierHolds'
      BY <2>3, <2>5, <2>9, <2>10, <3>1 DEF Enter, HasLock, Phases
    <3>3. \A v \in Inside : worker[v].lock # worker[w].lock
      BY <2>10 DEF Enter
    <3>4. worker'[w].lock = worker[w].lock
      BY <1>0, <3>1 DEF Tasks
    <3>5. OneInside'
      BY <2>1, <3>3, <3>4 DEF SerialInv, OneInside, Inside
    <3> QED
      BY <1>0, <3>2, <3>5 DEF SerialInv
  <2>11. CASE Observe(w)
    <3>1. worker'[w] = [worker[w] EXCEPT !.pc = "admitted"] /\ worker[w].pc = "locked"
      BY <1>0, <2>11 DEF Observe
    <3>2. LocksDiffer' /\ LocksFound' /\ OneInside' /\ BarrierHolds'
      BY <2>3, <2>4, <2>5, <2>9, <2>11, <3>1 DEF Observe, HasLock, Inside, Phases
    <3> QED
      BY <1>0, <3>2 DEF SerialInv
  <2>12. ASSUME w \in Inside, Chat(w)' = Chat(w), worker'[w].update = worker[w].update,
                NEW S \in SUBSET {w}, barrier' = [barrier EXCEPT ![Chat(w)] = S],
                worker'[w].pc = "handling" => S = {w},
                /\ worker'[w].effects = worker[w].effects
                /\ worker'[w].spent = worker[w].spent
         PROVE  BarrierHolds'
    <3>1. Chat(w) \in Chats
      BY <2>12 DEF SerialInv, LocksFound, Inside, Chat
    <3>2. \A v \in Workers \ {w} : worker[v].pc = "handling" => Chat(v) # Chat(w)
      BY <2>12, TasksInsideDiffer DEF Inside
    <3>3. \A v \in Workers : worker'[v].pc = "handling" => barrier'[Chat(v)'] = {v}
      <4> SUFFICES ASSUME NEW v \in Workers, worker'[v].pc = "handling"
                   PROVE  barrier'[Chat(v)'] = {v}
        OBVIOUS
      <4>1. Chat(v)' \in Chats /\ Chat(v)' = Chat(v)
        BY <2>1, <2>12, <3>1 DEF SerialInv, LocksFound, Chat
      <4>2. CASE v = w
        BY <2>12, <3>1, <4>1, <4>2 DEF SerialInv, GatewayTypeOK
      <4>3. CASE v # w
        BY <2>1, <2>12, <3>1, <3>2, <4>1, <4>3 DEF SerialInv, GatewayTypeOK, BarrierHolds
      <4> QED
        BY <4>2, <4>3
    <3>4. \A v \in Workers : /\ worker'[v].effects <= 1
                             /\ worker'[v].effects # 0 => worker'[v].spent
      BY <2>1, <2>12 DEF SerialInv, BarrierHolds
    <3> QED
      BY <3>3, <3>4 DEF BarrierHolds
  <2>13. CASE Install(w)
    <3>1. worker'[w] = [worker[w] EXCEPT !.pc = "handling"] /\ worker[w].pc = "admitted"
      BY <1>0, <2>13 DEF Install
    <3>2. LocksDiffer' /\ LocksFound' /\ OneInside'
      BY <2>3, <2>4, <2>9, <2>13, <3>1 DEF Install, HasLock, Inside, Phases
    <3>3. BarrierHolds'
      BY <2>9, <2>12, <2>13, <3>1 DEF Install, Inside, Phases, Chat
    <3> QED
      BY <1>0, <3>2, <3>3 DEF SerialInv
  <2>14. CASE Uninstall(w)
    <3>1. worker'[w] = [worker[w] EXCEPT !.pc = "leaving"] /\ worker[w].pc = "handling"
      BY <1>0, <2>14 DEF Uninstall
    <3>2. LocksDiffer' /\ LocksFound' /\ OneInside'
      BY <2>3, <2>4, <2>9, <2>14, <3>1 DEF Uninstall, HasLock, Inside, Phases
    <3>3. w \in Inside /\ barrier' = [barrier EXCEPT ![Chat(w)] = {}]
      BY <2>14, <3>1 DEF Uninstall, Inside
    <3>4. /\ worker'[w].pc = "leaving" /\ worker'[w].update = worker[w].update
          /\ worker'[w].effects = worker[w].effects /\ worker'[w].spent = worker[w].spent
          /\ Chat(w)' = Chat(w)
      BY <2>9, <3>1 DEF Phases, Chat
    <3>5. {} \in SUBSET {w} /\ ~ (worker'[w].pc = "handling")
      BY <3>4
    <3>6. BarrierHolds'
      BY <2>12, <3>3, <3>4, <3>5
    <3> QED
      BY <1>0, <3>2, <3>6 DEF SerialInv
  <2>15. CASE Render(w)
    <3>1. UNCHANGED <<chatLock, made, barrier>>
      BY <2>15 DEF Render
    <3>2. worker[w].update \in Updates /\ worker[w].pc = "handling"
      BY <2>15 DEF Render, SerialInv, LocksFound
    <3>3. LocksDiffer' /\ LocksFound' /\ OneInside'
      BY <2>3, <2>4, <2>15, <3>1, <3>2, RenderOnce DEF HasLock, Inside
    <3>4. BarrierHolds'
      BY <2>1, <2>15, <3>1, RenderOnce DEF SerialInv, BarrierHolds, Chat
    <3> QED
      BY <1>0, <3>3, <3>4 DEF SerialInv
  <2> QED
    BY <1>3, <2>2, <2>6, <2>7, <2>8, <2>10, <2>11, <2>13, <2>14, <2>15 DEF HandleUpdate
<1> QED
  BY <1>1, <1>2, <1>3 DEF GatewayNext

\* The types of the gateway's state.
THEOREM GatewayTypes == GatewaySpec => []GatewayTypeOK
<1>1. SerialInv => GatewayTypeOK
  BY DEF SerialInv
<1> QED
  BY <1>1, SerialInit, SerialStep, PTL DEF GatewaySpec

\* Updates of one chat are handled one after the other, each with its own barrier and with one
\* screen at most: gateway.rs promises it for chats that have no lock yet, too.
THEOREM SerialUpdates == GatewaySpec => []ChatsAreSerial
BY SerialInit, SerialStep, SerialImplies, PTL DEF GatewaySpec

\* The keys kept are those of before and the new one, without the oldest if there was no room.
LEMMA RememberedAfter ==
  ASSUME SerialInv, NEW w \in Workers, Observe(w)
  PROVE  /\ worker[w].update \in Remembered' /\ worker[w].update \in Updates
         /\ worker[w].update \notin Remembered
         /\ \/ Remembered \subseteq Remembered' /\ forgotten' = forgotten
            \/ /\ observed # <<>> /\ Head(observed) \in Updates \cap Remembered
               /\ Remembered \ {Head(observed)} \subseteq Remembered'
               /\ forgotten' = [forgotten EXCEPT ![Head(observed)] = @ + 1]
<1> USE GatewayAssumption
<1> DEFINE u == worker[w].update
<1>1. observed \in Seq(Updates) /\ u \in Updates /\ u \notin Remembered
  BY DEF SerialInv, GatewayTypeOK, LocksFound, Observe
<1> HIDE DEF u
<1>2. CASE Len(observed) >= Capacity
  <2>1. /\ observed' = Append(Tail(observed), u)
        /\ forgotten' = [forgotten EXCEPT ![Head(observed)] = @ + 1]
    BY <1>2 DEF Observe, u
  <2>2. /\ observed # <<>> /\ Len(observed) > 0 /\ Head(observed) = observed[1]
        /\ Tail(observed) \in Seq(Updates) /\ Len(Tail(observed)) = Len(observed) - 1
        /\ \A i \in 1..Len(Tail(observed)) : Tail(observed)[i] = observed[i + 1]
    BY <1>1, <1>2
  <2>3. /\ DOMAIN observed' = 1..Len(observed) /\ observed'[Len(observed)] = u
        /\ \A i \in 1..(Len(observed) - 1) : observed'[i] = observed[i + 1]
    BY <1>1, <2>1, <2>2
  <2>4. u \in Remembered'
    BY <1>1, <2>2, <2>3 DEF Remembered
  <2>5. ASSUME NEW x \in Remembered, x # Head(observed) PROVE x \in Remembered'
    <3>1. PICK i \in DOMAIN observed : x = observed[i]
      BY DEF Remembered
    <3>2. i \in 1..Len(observed) /\ i # 1
      BY <1>1, <2>2, <2>5, <3>1
    <3>3. i - 1 \in 1..(Len(observed) - 1) /\ observed'[i - 1] = x
      BY <1>1, <2>3, <3>1, <3>2
    <3> QED
      BY <1>1, <2>3, <3>3 DEF Remembered
  <2>6. Head(observed) \in Updates \cap Remembered
    BY <1>1, <2>2 DEF Remembered
  <2> QED
    BY <1>1, <2>1, <2>2, <2>4, <2>5, <2>6 DEF u
<1>3. CASE ~ (Len(observed) >= Capacity)
  <2>1. observed' = Append(observed, u) /\ forgotten' = forgotten
    BY <1>3 DEF Observe, u
  <2>2. /\ DOMAIN observed' = 1..(Len(observed) + 1) /\ observed'[Len(observed) + 1] = u
        /\ \A i \in 1..Len(observed) : observed'[i] = observed[i]
    BY <1>1, <2>1
  <2>3. Remembered \subseteq Remembered' /\ u \in Remembered'
    BY <1>1, <2>2 DEF Remembered
  <2> QED
    BY <1>1, <2>1, <2>3 DEF u
<1> QED
  BY <1>2, <1>3

\* The tasks that were admitted with u and have not reached their handler.
AdmittedWith(u) == {w \in Workers : worker[w].pc = "admitted" /\ worker[w].update = u}

\* An update is admitted by one task at a time.
LEMMA AdmittedAlone ==
  ASSUME SerialInv, NEW u \in Updates, NEW v \in AdmittedWith(u), NEW w \in AdmittedWith(u)
  PROVE  v = w
BY TasksInsideDiffer DEF AdmittedWith, Inside, Chat

\* The count holds at first,
LEMMA CountedInit == GatewayInit => Counted
BY DEF GatewayInit, Counted, Pending, Known, Remembered, IdleWorker

\* every step preserves it,
LEMMA CountedStep ==
  ASSUME SerialInv, SerialInv', Counted, [GatewayNext]_gatewayVars
  PROVE  Counted'
<1> SUFFICES ASSUME NEW u \in Updates
             PROVE  handled'[u] + Pending(u)' <= forgotten'[u] + Known(u)'
  BY DEF Counted
<1>0. /\ handled[u] \in Nat /\ handled'[u] \in Nat /\ forgotten[u] \in Nat /\ forgotten'[u] \in Nat
      /\ handled[u] + Pending(u) <= forgotten[u] + Known(u)
      /\ handled \in [Updates -> Nat] /\ forgotten \in [Updates -> Nat]
      /\ Pending(u) \in {0, 1} /\ Known(u) \in {0, 1} /\ Pending(u)' \in {0, 1} /\ Known(u)' \in {0, 1}
  BY DEF SerialInv, GatewayTypeOK, Counted, Pending, Known
<1>00. worker \in [Workers -> Tasks] /\ worker' \in [Workers -> Tasks]
  BY DEF SerialInv, GatewayTypeOK, Tasks
<1>1. ASSUME UNCHANGED <<handled, forgotten, observed>>,
             \A w \in Workers : worker'[w].pc = "admitted" =>
                 worker[w].pc = "admitted" /\ worker'[w].update = worker[w].update
      PROVE  handled'[u] + Pending(u)' <= forgotten'[u] + Known(u)'
  <2>1. Pending(u)' <= Pending(u) /\ Known(u)' = Known(u)
    BY <1>1 DEF Pending, Known, Remembered
  <2> QED
    BY <1>0, <1>1, <2>1
<1>2. CASE UNCHANGED gatewayVars
  BY <1>1, <1>2 DEF gatewayVars
<1>3. CASE RestartGateway
  <2>1. Pending(u)' = 0 /\ handled' = handled
    BY <1>3 DEF RestartGateway, Pending, IdleWorker
  <2>2. forgotten'[u] = forgotten[u] + Known(u)
    BY <1>0, <1>3 DEF RestartGateway, Known
  <2> QED
    BY <1>0, <2>1, <2>2
<1>4. ASSUME NEW w \in Workers, HandleUpdate(w) \/ \E x \in Updates : Deliver(w, x)
      PROVE  handled'[u] + Pending(u)' <= forgotten'[u] + Known(u)'
  <2>1. \A v \in Workers \ {w} : worker'[v] = worker[v]
    BY <1>4, OthersStay
  <2>2. CASE Observe(w)
    <3>1. /\ worker'[w].pc = "admitted" /\ worker'[w].update = worker[w].update
          /\ handled' = handled
      BY <1>00, <2>2 DEF Observe
    <3>2. CASE u = worker[w].update
      <4>1. u \in Remembered' /\ u \notin Remembered
        BY <2>2, <3>2, RememberedAfter
      <4>2. Known(u)' = 1 /\ Known(u) = 0
        BY <4>1 DEF Known
      <4>3. forgotten'[u] >= forgotten[u]
        BY <1>0, <2>2, <4>1, RememberedAfter
      <4> QED
        BY <1>0, <3>1, <4>2, <4>3
    <3>3. CASE u # worker[w].update
      <4>1. Pending(u)' <= Pending(u)
        BY <2>1, <3>1, <3>3 DEF Pending
      <4>2. forgotten'[u] + Known(u)' >= forgotten[u] + Known(u)
        <5>1. CASE Remembered \subseteq Remembered' /\ forgotten' = forgotten
          BY <1>0, <5>1 DEF Known
        <5>2. CASE /\ Head(observed) \in Updates \cap Remembered
                   /\ Remembered \ {Head(observed)} \subseteq Remembered'
                   /\ forgotten' = [forgotten EXCEPT ![Head(observed)] = @ + 1]
          <6>1. CASE u = Head(observed)
            BY <1>0, <5>2, <6>1
          <6>2. CASE u # Head(observed)
            BY <1>0, <5>2, <6>2 DEF Known
          <6> QED
            BY <6>1, <6>2
        <5> QED
          BY <2>2, <5>1, <5>2, RememberedAfter
      <4> QED
        BY <1>0, <3>1, <4>1, <4>2
    <3> QED
      BY <3>2, <3>3
  <2>3. CASE Install(w)
    <3>1. /\ worker[w].pc = "admitted" /\ worker'[w].pc = "handling"
          /\ handled' = [handled EXCEPT ![worker[w].update] = @ + 1]
          /\ UNCHANGED <<forgotten, observed>>
      BY <1>00, <2>3 DEF Install
    <3>2. Known(u)' = Known(u)
      BY <3>1 DEF Known, Remembered
    <3>3. Pending(u)' <= Pending(u)
      BY <2>1, <3>1 DEF Pending
    <3>4. CASE u = worker[w].update
      <4>1. Pending(u) = 1
        BY <3>1, <3>4 DEF Pending
      <4>2. \A v \in Workers : ~ (worker'[v].pc = "admitted" /\ worker'[v].update = u)
        BY <2>1, <3>1, <3>4, AdmittedAlone DEF AdmittedWith
      <4>3. Pending(u)' = 0
        BY <4>2 DEF Pending
      <4> QED
        BY <1>0, <3>1, <3>2, <3>4, <4>1, <4>3
    <3> QED
      BY <1>0, <3>1, <3>2, <3>3, <3>4
  <2>4. CASE Render(w)
    <3>1. \A v \in Workers : worker'[v].pc = "admitted" =>
              worker[v].pc = "admitted" /\ worker'[v].update = worker[v].update
      BY <2>1, <2>4, RenderOnce
    <3> QED
      BY <1>1, <2>4, <3>1 DEF Render
  <2>5. CASE \/ FindLock(w) \/ MakeLock(w) \/ Enter(w) \/ DropDuplicate(w) \/ Uninstall(w) \/ Leave(w)
             \/ \E x \in Updates : Deliver(w, x)
    <3>1. worker'[w].pc # "admitted"
      <4>1. CASE FindLock(w)
        <5>1. worker'[w].pc = (IF chatLock[Chat(w)] = 0 THEN "make" ELSE "wait")
          BY <1>00, <4>1 DEF FindLock
        <5> QED
          BY <5>1
      <4>4. CASE MakeLock(w)
        BY <1>00, <4>4 DEF MakeLock
      <4>5. CASE Enter(w)
        BY <1>00, <4>5 DEF Enter
      <4>6. CASE Uninstall(w)
        BY <1>00, <4>6 DEF Uninstall
      <4>2. CASE DropDuplicate(w) \/ Leave(w)
        BY <1>00, <4>2 DEF DropDuplicate, Leave, IdleWorker
      <4>3. CASE \E x \in Updates : Deliver(w, x)
        BY <1>00, <4>3 DEF Deliver, IdleWorker
      <4> QED
        BY <2>5, <4>1, <4>2, <4>3, <4>4, <4>5, <4>6
    <3>2. UNCHANGED <<handled, forgotten, observed>>
      BY <2>5 DEF FindLock, MakeLock, Enter, DropDuplicate, Uninstall, Leave, Deliver
    <3> QED
      BY <1>1, <2>1, <3>1, <3>2
  <2> QED
    BY <1>4, <2>2, <2>3, <2>4, <2>5 DEF HandleUpdate
<1> QED
  BY <1>2, <1>3, <1>4 DEF GatewayNext

\* and with one task at a time it says how often an update was handled.
LEMMA CountedImplies == SerialInv /\ Counted => HandledOnce
<1> SUFFICES ASSUME SerialInv, Counted, NEW u \in Updates PROVE handled[u] <= 1 + forgotten[u]
  BY DEF HandledOnce
<1>1. /\ handled[u] \in Nat /\ forgotten[u] \in Nat /\ Pending(u) \in {0, 1} /\ Known(u) \in {0, 1}
      /\ handled[u] + Pending(u) <= forgotten[u] + Known(u)
  BY DEF SerialInv, GatewayTypeOK, Counted, Pending, Known
<1> QED
  BY <1>1

\* The deliveries of an update lead to one handling, and to one more for each time its key was
\* forgotten, whatever the capacity of the filter.
THEOREM UpdatesHandledOnce == GatewaySpec => []HandledOnce
<1>1. GatewaySpec => []SerialInv
  BY SerialInit, SerialStep, PTL DEF GatewaySpec
<1>2. SerialInv /\ SerialInv' /\ Counted /\ [GatewayNext]_gatewayVars => Counted'
  BY CountedStep
<1> QED
  BY <1>1, <1>2, CountedInit, CountedImplies, PTL DEF GatewaySpec

-----------------------------------------------------------------------------
(* The onboarding *)

DeskSteps == {"rest", "probe", "ensure", "insert", "session", "answer", "match", "complete", "register",
          "preview", "admit", "link"}

Desks == [pc : DeskSteps, input : Inputs \cup {Nothing}, seen : Rows \cup {Nothing},
          first : Names \cup {Nothing}, last : Names \cup {Nothing},
          link : Matches \cup {Nothing}]

OnboardingTypeOK ==
  /\ row \in Rows \cup {Nothing}
  /\ desk \in [Rooms -> Desks]
  /\ offered \in [Rooms -> (SUBSET Matches) \cup {Nothing}]

\* Which names there are at which state; nothing is known of a completed row, which may be from
\* before the migration.
RowFits(r) ==
  /\ r.state = 1 => r.first = Nothing /\ r.last = Nothing
  /\ r.state = 2 => r.first # Nothing /\ r.last = Nothing
  /\ r.state = 3 => r.first # Nothing /\ r.last # Nothing

\* What r was when it was read, and still is unless its version says otherwise.
StillIs(r, now) ==
  /\ r.version <= now.version
  /\ r.version = now.version =>
       now.state = r.state /\ now.first = r.first /\ now.last = r.last

\* A handler past the gate works on a row that exists; the copy it took is that row or an
\* earlier version of it, and the names it is about to complete with are those of its copy.
DeskFits(d, r) ==
  /\ d.pc \in {"session", "answer", "match", "complete", "register", "preview", "admit", "link"}
       => r # Nothing
  /\ d.pc # "rest" => d.input # Nothing
  /\ d.pc = "link" => d.input.kind \in {"pick", "continue"}
  /\ d.pc \in {"answer", "match", "complete"} =>
       /\ d.seen # Nothing /\ StillIs(d.seen, r)
       /\ d.pc = "answer" => /\ d.seen.state \in {1, 2}
                             /\ d.input.kind = "name"
       /\ d.pc # "answer" => /\ d.seen.state = 3
                             /\ d.seen.first = d.first /\ d.seen.last = d.last
                             /\ d.first # Nothing /\ d.last # Nothing

OnboardingInv ==
  /\ OnboardingTypeOK
  /\ row # Nothing => RowFits(row)
  /\ \A c \in Rooms : DeskFits(desk[c], row)

\* What AnswersAreKept says of a change of the row.
Keeps(r, s) ==
  /\ s.state >= r.state
  /\ r.first # Nothing => s.first = r.first
  /\ r.last # Nothing => s.last = r.last
  /\ (s.state = 4 /\ r.state # 4) => HasNames(r)
  /\ r.linked # Nothing => s.linked # Nothing

\* A row grows under a new version, unless it is only linked.
Grows(r, s) ==
  /\ s \in Rows /\ RowFits(s) /\ Keeps(r, s)
  /\ \/ s.version = r.version + 1
     \/ s.version = r.version /\ s.state = r.state /\ s.first = r.first /\ s.last = r.last

\* What a step makes of the row: nothing, a new row, or a row that has grown.
Moves(r, s) ==
  \/ s = r
  \/ r = Nothing /\ s \in Rows /\ RowFits(s)
  \/ r # Nothing /\ Grows(r, s)

\* A copy stays a copy of an earlier version when the row grows.
LEMMA GrowthIsSeen ==
  ASSUME NEW seen \in Rows, NEW r \in Rows, NEW s \in Rows, StillIs(seen, r), Grows(r, s)
  PROVE  StillIs(seen, s)
BY DEF StillIs, Grows, Rows

\* The desks nobody works at are as good after a change of the row as before.
LEMMA OtherDesks ==
  ASSUME NEW r \in Rows \cup {Nothing}, NEW s, Moves(r, s), NEW d \in Desks, DeskFits(d, r)
  PROVE  DeskFits(d, s)
<1> USE OnboardingAssumption
<1>1. d.seen \in Rows \cup {Nothing}
  BY DEF Desks
<1>2. CASE s = r
  BY <1>2
<1>3. CASE r = Nothing /\ s \in Rows
  BY <1>3 DEF DeskFits
<1>4. CASE r # Nothing /\ Grows(r, s)
  <2>1. s \in Rows /\ s # Nothing
    BY <1>4 DEF Grows
  <2> QED
    BY <2>1, <1>1, <1>4, GrowthIsSeen DEF DeskFits
<1> QED
  BY <1>2, <1>3, <1>4 DEF Moves

\* A step at one desk.
LEMMA DeskStep ==
  ASSUME OnboardingInv, NEW c \in Rooms, NEW d \in Desks, Moves(row, row'),
         desk' = [desk EXCEPT ![c] = d], DeskFits(d, row'),
         offered' \in [Rooms -> (SUBSET Matches) \cup {Nothing}]
  PROVE  OnboardingInv'
<1> USE OnboardingAssumption
<1>1. OnboardingTypeOK'
  BY DEF OnboardingInv, OnboardingTypeOK, Moves, Grows
<1>2. (row # Nothing => RowFits(row))'
  <2>1. CASE row' = row
    BY <2>1 DEF OnboardingInv, RowFits
  <2>2. CASE RowFits(row')
    BY <2>2 DEF RowFits
  <2> QED
    BY <2>1, <2>2 DEF Moves, Grows
<1>3. ASSUME NEW e \in Rooms PROVE DeskFits(desk'[e], row')
  <2>1. CASE e = c
    BY <2>1 DEF OnboardingInv, OnboardingTypeOK
  <2>2. CASE e # c
    <3>1. desk'[e] = desk[e] /\ desk[e] \in Desks /\ DeskFits(desk[e], row)
      BY <2>2 DEF OnboardingInv, OnboardingTypeOK
    <3>2. row \in Rows \cup {Nothing}
      BY DEF OnboardingInv, OnboardingTypeOK
    <3> QED
      BY <3>1, <3>2, OtherDesks
  <2> QED
    BY <2>1, <2>2
<1> QED
  BY <1>1, <1>2, <1>3 DEF OnboardingInv, DeskFits, StillIs

\* Linking keeps everything but the link, and never loses it.
LEMMA LinkGrows ==
  ASSUME OnboardingInv, row # Nothing, NEW link \in Matches \cup {Nothing},
         row' = [row EXCEPT !.linked = Linked(link)]
  PROVE  Moves(row, row') /\ row' # Nothing
<1> USE OnboardingAssumption
<1>1. row \in Rows /\ RowFits(row)
  BY DEF OnboardingInv, OnboardingTypeOK
<1>2. Linked(link) \in Matches \cup {Nothing}
  BY <1>1 DEF Linked, Rows
<1>3. row' \in Rows
  BY <1>1, <1>2 DEF Rows
<1>4. /\ row'.state = row.state /\ row'.version = row.version
      /\ row'.first = row.first /\ row'.last = row.last
      /\ row'.linked = Linked(link)
  BY <1>1 DEF Rows
<1> QED
  BY <1>1, <1>3, <1>4 DEF Moves, Grows, Keeps, RowFits, Linked, Rows

\* An answer is written to the row it was meant for: the version has not changed since it was read.
LEMMA AnswerStep ==
  ASSUME OnboardingInv, NEW c \in Rooms, Answer(c)
  PROVE  OnboardingInv' /\ Moves(row, row')
<1> USE OnboardingAssumption
<1> DEFINE d == desk[c]
           name == d.input.value
           moved == [row EXCEPT !.version = @ + 1, !.state = d.seen.state + 1]
           named == IF d.seen.state = 1 THEN [moved EXCEPT !.first = name]
                                        ELSE [moved EXCEPT !.last = name]
<1>1. /\ d \in Desks /\ row \in Rows /\ RowFits(row)
      /\ d.seen \in Rows /\ StillIs(d.seen, row) /\ d.seen.state \in {1, 2}
      /\ offered' \in [Rooms -> (SUBSET Matches) \cup {Nothing}]
  BY DEF Answer, OnboardingInv, OnboardingTypeOK, DeskFits, Desks
<1>2. name \in Names
  BY <1>1 DEF Answer, OnboardingInv, DeskFits, Desks, Inputs
<1>3. CASE VersionIs(c)
  <2>1. row.state = d.seen.state /\ row.first = d.seen.first /\ row.last = d.seen.last
    BY <1>1, <1>3 DEF VersionIs, StillIs
  <2>2. /\ named \in Rows
        /\ named.state = row.state + 1 /\ named.version = row.version + 1
        /\ named.linked = row.linked
        /\ row.state = 1 => named.first = name /\ named.last = row.last
        /\ row.state = 2 => named.last = name /\ named.first = row.first
    <3>1. /\ moved \in Rows
          /\ moved.state = row.state + 1 /\ moved.version = row.version + 1
          /\ moved.linked = row.linked /\ moved.first = row.first /\ moved.last = row.last
      <4>1. row.version + 1 \in Nat /\ d.seen.state + 1 \in 1..4 /\ d.seen.state = row.state
        BY <1>1, <2>1 DEF Rows
      <4> DEFINE v == row.version + 1
                 t == d.seen.state + 1
      <4>2. v \in Nat /\ t \in 1..4 /\ t = row.state + 1
        BY <4>1
      <4> HIDE DEF v, t
      <4>3. moved = [row EXCEPT !.version = v, !.state = t]
        BY DEF v, t
      <4>4. /\ [row EXCEPT !.version = v, !.state = t] \in Rows
            /\ [row EXCEPT !.version = v, !.state = t].state = t
            /\ [row EXCEPT !.version = v, !.state = t].version = v
            /\ [row EXCEPT !.version = v, !.state = t].linked = row.linked
            /\ [row EXCEPT !.version = v, !.state = t].first = row.first
            /\ [row EXCEPT !.version = v, !.state = t].last = row.last
        BY <1>1, <4>2 DEF Rows
      <4> QED
        BY <4>2, <4>3, <4>4 DEF v
    <3> HIDE DEF moved
    <3>2. CASE d.seen.state = 1
      BY <1>2, <2>1, <3>1, <3>2 DEF Rows
    <3>3. CASE d.seen.state = 2
      BY <1>2, <2>1, <3>1, <3>3 DEF Rows
    <3> QED
      BY <1>1, <3>2, <3>3
  <2>3. row' = named
    BY <1>3 DEF Answer
  <2> HIDE DEF named
  <2>4. Moves(row, row')
    BY <1>1, <1>2, <2>1, <2>2, <2>3 DEF Moves, Grows, Keeps, RowFits, HasNames, Rows
  <2>5. CASE d.seen.state = 1
    BY <1>3, <2>4, <2>5, <1>1, DeskStep DEF Answer, Rest, AtRest, Desks, DeskSteps, DeskFits
  <2>6. CASE d.seen.state = 2
    <3> DEFINE e == [d EXCEPT !.pc = "match", !.seen = named, !.first = named.first, !.last = name]
    <3>1. desk' = [desk EXCEPT ![c] = e]
      BY <1>3, <2>6 DEF Answer, named
    <3>2. e \in Desks
      BY <1>1, <1>2, <2>2 DEF Desks, DeskSteps, Rows
    <3>3. DeskFits(e, row')
      <4>1. /\ e.pc = "match" /\ e.seen = named /\ e.first = named.first /\ e.last = name
            /\ e.input = d.input
        BY <1>1 DEF Desks
      <4>2. named # Nothing /\ StillIs(named, named)
        BY <2>2 DEF StillIs, Rows
      <4>3. named.state = 3 /\ named.last = name /\ named.first # Nothing /\ name # Nothing
        BY <1>1, <1>2, <2>1, <2>2, <2>6 DEF RowFits
      <4>4. d.input # Nothing
        BY <1>1 DEF Answer, OnboardingInv, DeskFits
      <4> QED
        BY <2>3, <4>1, <4>2, <4>3, <4>4 DEF DeskFits
    <3> QED
      BY <1>1, <2>4, <3>1, <3>2, <3>3, DeskStep
  <2> QED
    BY <1>1, <2>4, <2>5, <2>6
<1>4. CASE ~VersionIs(c)
  BY <1>1, <1>4, DeskStep DEF Answer, Rest, AtRest, Desks, DeskSteps, DeskFits, Moves
<1> QED
  BY <1>3, <1>4

\* The row is completed under the names the person gave, as it stands at the version that has them.
LEMMA CompleteStep ==
  ASSUME OnboardingInv, NEW c \in Rooms, CompleteOnboarding(c)
  PROVE  OnboardingInv' /\ Moves(row, row')
<1> USE OnboardingAssumption
<1> DEFINE d == desk[c]
           full == [state |-> 4, version |-> row.version + 1, first |-> d.first, last |-> d.last,
                    linked |-> Linked(d.link)]
<1>1. /\ d \in Desks /\ row \in Rows /\ d.input # Nothing
      /\ d.seen \in Rows /\ StillIs(d.seen, row) /\ d.seen.state = 3
      /\ d.seen.first = d.first /\ d.seen.last = d.last /\ d.first # Nothing /\ d.last # Nothing
      /\ offered' \in [Rooms -> (SUBSET Matches) \cup {Nothing}]
  BY DEF CompleteOnboarding, OnboardingInv, OnboardingTypeOK, DeskFits, Desks
<1>2. CASE VersionIs(c)
  <2>1. row.state = 3 /\ row.first = d.first /\ row.last = d.last
    BY <1>1, <1>2 DEF VersionIs, StillIs
  <2>2. row' = full /\ desk' = [desk EXCEPT ![c] = [d EXCEPT !.pc = "register"]]
    BY <1>2 DEF CompleteOnboarding, GoTo
  <2>3. full \in Rows
    BY <1>1 DEF Desks, Rows, Linked
  <2>4. Moves(row, row')
    BY <1>1, <2>1, <2>2, <2>3 DEF Moves, Grows, Keeps, RowFits, HasNames, Linked
  <2>5. [d EXCEPT !.pc = "register"] \in Desks
    BY <1>1 DEF Desks, DeskSteps
  <2>6. DeskFits([d EXCEPT !.pc = "register"], row')
    BY <1>1, <2>2, <2>3 DEF DeskFits, Desks
  <2> QED
    BY <1>1, <2>2, <2>4, <2>5, <2>6, DeskStep
<1>3. CASE ~VersionIs(c)
  BY <1>1, <1>3, DeskStep DEF CompleteOnboarding, Rest, AtRest, Desks, DeskSteps, DeskFits, Moves
<1> QED
  BY <1>2, <1>3

\* An error, or a stop, whatever the row has been made before.
LEMMA InterruptedStep ==
  ASSUME OnboardingInv, NEW c \in Rooms, Moves(row, row'), Interrupted(c)
  PROVE  OnboardingInv'
<1> USE OnboardingAssumption
<1>1. AtRest \in Desks /\ DeskFits(AtRest, row')
  BY DEF AtRest, Desks, DeskSteps, DeskFits
<1>2. offered \in [Rooms -> (SUBSET Matches) \cup {Nothing}] /\ row \in Rows \cup {Nothing}
  BY DEF OnboardingInv, OnboardingTypeOK
<1>3. CASE Rest(c) /\ UNCHANGED offered
  BY <1>1, <1>2, <1>3, DeskStep DEF Rest
<1>4. CASE desk' = [d \in Rooms |-> AtRest] /\ offered' = [d \in Rooms |-> Nothing]
  <2>1. OnboardingTypeOK'
    BY <1>1, <1>2, <1>4 DEF OnboardingTypeOK, Moves, Grows
  <2>2. (row # Nothing => RowFits(row))'
    <3>1. CASE row' = row
      BY <3>1 DEF OnboardingInv, RowFits
    <3>2. CASE RowFits(row')
      BY <3>2 DEF RowFits
    <3> QED
      BY <3>1, <3>2 DEF Moves, Grows
  <2>3. \A e \in Rooms : DeskFits(desk'[e], row')
    BY <1>1, <1>4
  <2> QED
    BY <2>1, <2>2, <2>3 DEF OnboardingInv, DeskFits, StillIs
<1> QED
  BY <1>3, <1>4 DEF Interrupted

\* Once more the person is registered, or linked by a press: only the link changes.
LEMMA RegisterStep ==
  ASSUME OnboardingInv, NEW c \in Rooms, Register(c) \/ LinkByPress(c)
  PROVE  OnboardingInv' /\ Moves(row, row')
<1> USE OnboardingAssumption
<1> DEFINE d == desk[c]
<1>1. /\ d \in Desks /\ row # Nothing /\ d.input \in Inputs /\ d.input # Nothing
      /\ offered \in [Rooms -> (SUBSET Matches) \cup {Nothing}]
  BY DEF Register, LinkByPress, OnboardingInv, OnboardingTypeOK, DeskFits, Desks
<1>2. /\ [d EXCEPT !.pc = "link"] \in Desks /\ AtRest \in Desks
      /\ [d EXCEPT !.pc = "link"].pc = "link" /\ [d EXCEPT !.pc = "link"].input = d.input
      /\ DeskFits(AtRest, row')
  BY <1>1 DEF Desks, DeskSteps, AtRest, DeskFits
<1>3. CASE Register(c)
  <2>1. d.link \in Matches \cup {Nothing}
    BY <1>1 DEF Desks
  <2>2. Moves(row, row') /\ row' # Nothing
    BY <1>1, <1>3, <2>1, LinkGrows DEF Register
  <2>3. d.input.kind \in {"pick", "continue"} => DeskFits([d EXCEPT !.pc = "link"], row')
    BY <1>1, <1>2, <2>2 DEF DeskFits
  <2>4. \/ Interrupted(c)
        \/ /\ offered' = offered
           /\ \/ desk' = [desk EXCEPT ![c] = AtRest]
              \/ /\ desk' = [desk EXCEPT ![c] = [d EXCEPT !.pc = "link"]]
                 /\ d.input.kind \in {"pick", "continue"}
    BY <1>3 DEF Register, Rest, GoTo
  <2> QED
    BY <1>1, <1>2, <2>2, <2>3, <2>4, DeskStep, InterruptedStep
<1>4. CASE LinkByPress(c)
  <2>1. d.input.value \in Matches \cup {Nothing}
    BY <1>1, <1>4 DEF LinkByPress, OnboardingInv, DeskFits, Inputs
  <2>2. Moves(row, row')
    <3>1. CASE row' = row
      BY <3>1 DEF Moves
    <3>2. CASE row' # row
      <4>1. row' = [row EXCEPT !.linked = Linked(d.input.value)]
        BY <1>4, <3>2 DEF LinkByPress
      <4> QED
        BY <1>1, <2>1, <4>1, LinkGrows
    <3> QED
      BY <3>1, <3>2
  <2>3. \/ Interrupted(c)
        \/ /\ desk' = [desk EXCEPT ![c] = AtRest]
           /\ offered' \in [Rooms -> (SUBSET Matches) \cup {Nothing}]
    BY <1>1, <1>4 DEF LinkByPress, Rest
  <2> QED
    BY <1>2, <2>2, <2>3, DeskStep, InterruptedStep
<1> QED
  BY <1>3, <1>4

\* The row appears.
LEMMA InsertStep ==
  ASSUME OnboardingInv, NEW c \in Rooms, InsertRow(c)
  PROVE  OnboardingInv' /\ Moves(row, row')
<1> USE OnboardingAssumption
<1>1. NewRow \in Rows /\ RowFits(NewRow)
  BY DEF NewRow, LegacyRow, Rows, RowFits
<1>2. Moves(row, row')
  BY <1>1 DEF InsertRow, Moves
<1>3. AtRest \in Desks /\ DeskFits(AtRest, row')
  BY DEF AtRest, Desks, DeskSteps, DeskFits
<1>4. desk' = [desk EXCEPT ![c] = AtRest] /\ offered' \in [Rooms -> (SUBSET Matches) \cup {Nothing}]
  BY DEF InsertRow, Rest, OnboardingInv, OnboardingTypeOK
<1> QED
  BY <1>2, <1>3, <1>4, DeskStep

\* A desk that is moved to another step of its work, all else being equal.
LEMMA MovedDesk ==
  ASSUME OnboardingInv, NEW c \in Rooms, NEW pc \in DeskSteps \ {"answer", "match", "complete", "link"},
         desk[c].input # Nothing,
         pc \in {"session", "register", "preview", "admit"} => row # Nothing
  PROVE  /\ [desk[c] EXCEPT !.pc = pc] \in Desks
         /\ DeskFits([desk[c] EXCEPT !.pc = pc], row)
<1>1. desk[c] \in Desks
  BY DEF OnboardingInv, OnboardingTypeOK
<1> QED
  BY <1>1 DEF Desks, DeskFits, DeskSteps

\* The steps that leave the row alone.
LEMMA DeskworkSteps ==
  ASSUME OnboardingInv, NEW c \in Rooms,
         \/ \E input \in Inputs : Receive(c, input)
         \/ Probe(c) \/ Ensure(c) \/ ReadSession(c) \/ Match(c) \/ PreviewLink(c) \/ FailAt(c)
  PROVE  OnboardingInv' /\ Moves(row, row')
<1> USE OnboardingAssumption
<1>1. row' = row /\ Moves(row, row')
  BY DEF Receive, Probe, Ensure, ReadSession, Match, PreviewLink, FailAt, Moves
<1>2. /\ desk[c] \in Desks /\ DeskFits(desk[c], row) /\ row \in Rows \cup {Nothing}
      /\ offered \in [Rooms -> (SUBSET Matches) \cup {Nothing}]
      /\ desk \in [Rooms -> Desks]
  BY DEF OnboardingInv, OnboardingTypeOK
<1>3. AtRest \in Desks /\ DeskFits(AtRest, row)
  BY DEF AtRest, Desks, DeskSteps, DeskFits
<1> DEFINE To(pc) == [desk[c] EXCEPT !.pc = pc]
<1>4. CASE \E input \in Inputs : Receive(c, input)
  <2>1. PICK input \in Inputs : Receive(c, input)
    BY <1>4
  <2>2. [AtRest EXCEPT !.pc = "probe", !.input = input] \in Desks
    BY <2>1 DEF AtRest, Desks, DeskSteps
  <2>3. DeskFits([AtRest EXCEPT !.pc = "probe", !.input = input], row)
    BY DEF AtRest, DeskFits
  <2> QED
    BY <1>1, <1>2, <2>1, <2>2, <2>3, DeskStep DEF Receive
<1>5. CASE Probe(c)
  <2>1. desk[c].input # Nothing
    BY <1>2, <1>5 DEF Probe, DeskFits
  <2>2. /\ offered' = offered
        /\ \/ desk' = [desk EXCEPT ![c] = AtRest]
           \/ desk' = [desk EXCEPT ![c] = To("preview")] /\ row # Nothing
           \/ desk' = [desk EXCEPT ![c] = To("session")] /\ row # Nothing
           \/ desk' = [desk EXCEPT ![c] = To("ensure")]
    BY <1>5 DEF Probe, Rest, GoTo
  <2> HIDE DEF To
  <2>3. /\ To("ensure") \in Desks /\ DeskFits(To("ensure"), row)
        /\ row # Nothing => /\ To("preview") \in Desks /\ DeskFits(To("preview"), row)
                            /\ To("session") \in Desks /\ DeskFits(To("session"), row)
    BY <2>1, MovedDesk DEF To, DeskSteps
  <2> QED
    BY <1>1, <1>2, <1>3, <2>2, <2>3, DeskStep
<1>6. CASE Ensure(c)
  <2>1. desk[c].input # Nothing
    BY <1>2, <1>6 DEF Ensure, DeskFits
  <2>2. /\ offered' \in [Rooms -> (SUBSET Matches) \cup {Nothing}]
        /\ \/ desk' = [desk EXCEPT ![c] = AtRest]
           \/ desk' = [desk EXCEPT ![c] = To("insert")]
    BY <1>2, <1>6 DEF Ensure, Rest, GoTo
  <2> HIDE DEF To
  <2>3. To("insert") \in Desks /\ DeskFits(To("insert"), row)
    BY <2>1, MovedDesk DEF To, DeskSteps
  <2> QED
    BY <1>1, <1>3, <2>2, <2>3, DeskStep
<1>7. CASE ReadSession(c)
  <2> DEFINE d == [desk[c] EXCEPT !.seen = row, !.pc = "answer"]
  <2>1. desk[c].input # Nothing /\ row \in Rows
    BY <1>2, <1>7 DEF ReadSession, DeskFits
  <2>2. /\ offered' = offered
        /\ \/ desk' = [desk EXCEPT ![c] = AtRest]
           \/ /\ desk' = [desk EXCEPT ![c] = d]
              /\ row.state \in {1, 2} /\ desk[c].input.kind = "name"
    <3>1. [desk EXCEPT ![c].seen = row, ![c].pc = "answer"] = [desk EXCEPT ![c] = d]
      BY <1>2
    <3> QED
      BY <1>7, <3>1 DEF ReadSession, Rest
  <2>3. /\ d \in Desks
        /\ d.pc = "answer" /\ d.seen = row /\ d.input = desk[c].input
    BY <1>2, <2>1 DEF Desks, DeskSteps
  <2> HIDE DEF d
  <2>4. row.state \in {1, 2} /\ desk[c].input.kind = "name" => DeskFits(d, row)
    BY <2>1, <2>3 DEF DeskFits, StillIs, Rows
  <2> QED
    BY <1>1, <1>2, <1>3, <2>2, <2>3, <2>4, DeskStep
<1>8. CASE Match(c)
  <2> DEFINE d == [desk[c] EXCEPT !.link = row.linked, !.pc = "complete"]
  <2>1. row \in Rows
    BY <1>2, <1>8 DEF Match, DeskFits
  <2>2. /\ offered' = offered
        /\ desk' = [desk EXCEPT ![c] = d]
    <3>1. [desk EXCEPT ![c].link = row.linked, ![c].pc = "complete"] = [desk EXCEPT ![c] = d]
      BY <1>2
    <3> QED
      BY <1>8, <3>1 DEF Match
  <2>3. /\ d \in Desks
        /\ d.pc = "complete" /\ d.seen = desk[c].seen /\ d.input = desk[c].input
        /\ d.first = desk[c].first /\ d.last = desk[c].last
    BY <1>2, <2>1 DEF Desks, DeskSteps, Rows
  <2> HIDE DEF d
  <2>4. DeskFits(d, row)
    BY <1>2, <1>8, <2>3 DEF DeskFits, Match
  <2> QED
    BY <1>1, <1>2, <2>2, <2>3, <2>4, DeskStep
<1>9. CASE PreviewLink(c)
  <2> DEFINE d(link) == [desk[c] EXCEPT !.link = link, !.pc = "admit"]
  <2>1. row \in Rows /\ desk[c].input # Nothing
    BY <1>2, <1>9 DEF PreviewLink, DeskFits
  <2>2. /\ offered' \in [Rooms -> (SUBSET Matches) \cup {Nothing}]
        /\ \/ desk' = [desk EXCEPT ![c] = AtRest]
           \/ \E link \in Matches \cup {Nothing} : desk' = [desk EXCEPT ![c] = d(link)]
    <3>1. \A link : [desk EXCEPT ![c].link = link, ![c].pc = "admit"] = [desk EXCEPT ![c] = d(link)]
      BY <1>2
    <3> HIDE DEF d
    <3>2. row.linked \in Matches \cup {Nothing}
      BY <2>1 DEF Rows
    <3>3. \A found \in SUBSET Matches :
            (IF found = {} THEN Nothing ELSE CHOOSE e \in found : TRUE) \in Matches \cup {Nothing}
      OBVIOUS
    <3> QED
      BY <1>2, <1>9, <3>1, <3>2, <3>3 DEF PreviewLink, Rest
  <2>3. \A link \in Matches \cup {Nothing} :
          d(link) \in Desks /\ d(link).pc = "admit" /\ d(link).input = desk[c].input
    BY <1>2 DEF Desks, DeskSteps
  <2> HIDE DEF d
  <2>4. \A link \in Matches \cup {Nothing} : DeskFits(d(link), row)
    BY <2>1, <2>3 DEF DeskFits
  <2> QED
    BY <1>1, <1>3, <2>2, <2>3, <2>4, DeskStep
<1>10. CASE FailAt(c)
  BY <1>1, <1>10, InterruptedStep DEF FailAt
<1> QED
  BY <1>4, <1>5, <1>6, <1>7, <1>8, <1>9, <1>10

\* Every step keeps the invariant and moves the row as it may be moved.
LEMMA OnboardingStep ==
  ASSUME OnboardingInv, OnboardingNext
  PROVE  OnboardingInv' /\ Moves(row, row')
BY AnswerStep, CompleteStep, RegisterStep, InsertStep, DeskworkSteps DEF OnboardingNext, StepOf

\* An answer is written to the row that it was given to, and no answer of another chat is lost: the
\* write names the version that was read.
THEOREM OnboardingKeepsAnswers == OnboardingSpec => AnswersAreKept
<1>1. OnboardingInit => OnboardingInv
  <2> SUFFICES ASSUME OnboardingInit PROVE OnboardingInv
    OBVIOUS
  <2>1. AtRest \in Desks /\ DeskFits(AtRest, row)
    BY DEF AtRest, Desks, DeskSteps, DeskFits
  <2>2. LegacyRow \in Rows /\ RowFits(LegacyRow)
    BY DEF LegacyRow, Rows, RowFits
  <2> QED
    BY <2>1, <2>2, OnboardingAssumption DEF OnboardingInit, OnboardingInv, OnboardingTypeOK
<1>2. OnboardingInv /\ [OnboardingNext]_onboardingVars => OnboardingInv'
  <2>1. CASE UNCHANGED onboardingVars
    BY <2>1 DEF onboardingVars, OnboardingInv, OnboardingTypeOK, RowFits, DeskFits, StillIs
  <2> QED
    BY <2>1, OnboardingStep
<1>3. OnboardingInv /\ [OnboardingNext]_onboardingVars =>
        [row # Nothing
          => /\ row'.state >= row.state
             /\ row.first # Nothing => row'.first = row.first
             /\ row.last # Nothing => row'.last = row.last
             /\ (row'.state = 4 /\ row.state # 4) => HasNames(row)
             /\ row.linked # Nothing => row'.linked # Nothing]_row
  BY OnboardingStep DEF onboardingVars, Moves, Grows, Keeps
<1> QED
  BY <1>1, <1>2, <1>3, PTL DEF OnboardingSpec, AnswersAreKept

-----------------------------------------------------------------------------
(* The daily jobs *)

DailyTypeOK ==
  /\ kind \in Jobs /\ day \in Nat
  /\ chore \in [Chores -> [open : BOOLEAN, doer : Staff \cup {Nobody}, changed : Nat]]
  /\ job \in [pc : {"waiting", "started", "queueing"}, date : Nat, today : Nat,
              pending : SUBSET Subjects]
  /\ told \subseteq Subjects
  /\ job.today <= day

\* A key is in the outbox exactly when somebody was told under it.
KeysAreTold ==
  /\ \A s \in told : Key(s) \in queued
  /\ \A k \in queued : \E s \in told : k = Key(s)
  /\ again = {}

\* The key of a reminder does not name its recipient, but the recipient is whoever has the task,
\* unless the task was changed on the day of the reminder or later.
RemindersReachTheDoer ==
  \A s \in told \cup job.pending :
    s.kind = "deadline" =>
      /\ s.chore \in Chores /\ s.on <= day + 1
      /\ chore[s.chore].changed + 1 < s.on => chore[s.chore].doer = s.to

\* Whom a run has to tell it has told or is about to tell.
NobodyIsForgotten ==
  job.pc = "queueing" /\ Cardinality(Concerned(job.today)) <= FetchLimit =>
    Tidings(Steady(job.today), job.today) \subseteq told \cup job.pending

SubjectsAreOfTheKind ==
  \A s \in told \cup job.pending : s.kind = kind /\ (kind = "summary" => s.chore = Nobody)

DailyInv ==
  /\ DailyTypeOK /\ KeysAreTold /\ RemindersReachTheDoer /\ SubjectsAreOfTheKind
  /\ NobodyIsForgotten

\* The tidings of a task are for the one who has it or its author, and more tasks make more of them.
LEMMA TidingsOf ==
  ASSUME DailyTypeOK, NEW batch \in SUBSET Chores, NEW d \in Nat,
         \A c \in batch : kind = "overdue" => DueOn[c] < d,
         \A c \in batch : kind = "deadline" => DueOn[c] = d + 1
  PROVE  /\ Tidings(batch, d) \subseteq Subjects
         /\ \A s \in Tidings(batch, d) :
              /\ s.kind = kind /\ (kind = "summary" => s.chore = Nobody)
              /\ kind = "deadline" => /\ s.chore \in batch /\ s.on = d + 1
                                      /\ chore[s.chore].doer = s.to
<1> USE DailyAssumption
<1>1. CASE kind = "deadline"
  <2>1. Tidings(batch, d) = Reminders(batch, d)
    BY <1>1 DEF Tidings
  <2>2. ASSUME NEW c \in batch, chore[c].doer # Nobody
        PROVE  About("deadline", c, chore[c].doer, d + 1) \in Subjects
    BY <2>2 DEF About, Subjects, Jobs, DailyTypeOK
  <2> QED
    BY <1>1, <2>1, <2>2 DEF Reminders, About
<1>2. CASE kind = "overdue"
  <2>1. Tidings(batch, d) = Alerts(batch, d)
    BY <1>2 DEF Tidings
  <2>2. ASSUME NEW c \in batch, NEW to \in {Author[c], chore[c].doer} \ {Nobody}
        PROVE  About("overdue", c, to, d - DueOn[c]) \in Subjects
    <3>1. d - DueOn[c] \in Nat /\ to \in Staff
      BY <1>2, <2>2 DEF DailyTypeOK
    <3> QED
      BY <3>1 DEF About, Subjects, Jobs
  <2>3. \A s \in Alerts(batch, d) :
          \E c \in batch : \E to \in {Author[c], chore[c].doer} \ {Nobody} :
            s = About("overdue", c, to, d - DueOn[c])
    <3> SUFFICES ASSUME NEW s \in Alerts(batch, d)
                 PROVE  \E c \in batch : \E to \in {Author[c], chore[c].doer} \ {Nobody} :
                          s = About("overdue", c, to, d - DueOn[c])
      OBVIOUS
    <3>1. PICK c \in batch : s \in {About("overdue", c, to, d - DueOn[c]) :
                                     to \in {Author[c], chore[c].doer} \ {Nobody}}
      BY DEF Alerts
    <3> QED
      BY <3>1
  <2> QED
    BY <1>2, <2>1, <2>2, <2>3 DEF About
<1>3. CASE kind = "summary"
  <2>1. Tidings(batch, d) = Summaries(batch, d)
    BY <1>3 DEF Tidings
  <2>2. ASSUME NEW to \in {chore[c].doer : c \in batch} \ {Nobody}
        PROVE  About("summary", Nobody, to, d) \in Subjects
    BY <2>2 DEF About, Subjects, Jobs, DailyTypeOK
  <2> QED
    BY <1>3, <2>1, <2>2 DEF Summaries, About
<1> QED
  BY <1>1, <1>2, <1>3 DEF DailyTypeOK, Jobs

\* More tasks make no fewer tidings.
LEMMA MoreTidings ==
  ASSUME NEW batch, NEW more, batch \subseteq more, NEW d, kind \in Jobs
  PROVE  Tidings(batch, d) \subseteq Tidings(more, d)
<1>1. Reminders(batch, d) \subseteq Reminders(more, d)
  BY DEF Reminders
<1>2. Alerts(batch, d) \subseteq Alerts(more, d)
  BY DEF Alerts
<1>3. Summaries(batch, d) \subseteq Summaries(more, d)
  BY DEF Summaries
<1> QED
  BY <1>1, <1>2, <1>3 DEF Tidings, Jobs

\* A batch of all there is, when there is no more than may be read.
LEMMA WholeBatch ==
  ASSUME NEW found \in SUBSET Chores, NEW more \in SUBSET Chores, found \subseteq more,
         Cardinality(more) <= FetchLimit,
         NEW batch \in SUBSET found,
         Cardinality(batch) = (IF Cardinality(found) < FetchLimit
                               THEN Cardinality(found) ELSE FetchLimit)
  PROVE  batch = found
<1>1. IsFiniteSet(more) /\ IsFiniteSet(found)
  BY DailyAssumption, FS_Subset
<1>2. Cardinality(found) <= Cardinality(more)
  BY <1>1, FS_Subset
<1>3. Cardinality(found) \in Nat /\ Cardinality(more) \in Nat
  BY <1>1, FS_CardinalityType
<1>4. Cardinality(batch) = Cardinality(found)
  BY <1>2, <1>3, DailyAssumption
<1> QED
  BY <1>1, <1>4, FS_Subset

\* A run that begins is about to tell what concerns its day, and only that.
LEMMA BeginStep ==
  ASSUME DailyInv, Begin
  PROVE  DailyInv'
<1> USE DailyAssumption
<1>0. kind \in Jobs /\ day \in Nat /\ DailyTypeOK
  BY DEF DailyInv, DailyTypeOK
<1> DEFINE wanted == CASE kind = "deadline" -> DueTomorrow(day)
                       [] kind = "overdue" -> Overdue(day)
                       [] kind = "summary" -> OpenChores
<1>1. PICK batch \in SUBSET wanted :
        /\ job' = [job EXCEPT !.pc = "queueing", !.today = day, !.pending = Tidings(batch, day)]
        /\ Cardinality(batch) = (IF Cardinality(wanted) < FetchLimit
                                 THEN Cardinality(wanted) ELSE FetchLimit)
  BY <1>0 DEF Begin, Fetched, Scanned, Jobs
<1>2. UNCHANGED <<kind, day, chore, queued, told, again>>
  BY DEF Begin
<1>3. /\ wanted \subseteq Concerned(day) /\ Concerned(day) \subseteq Chores
      /\ Steady(day) \subseteq wanted
  BY <1>0 DEF Concerned, Steady, DueTomorrow, Overdue, OpenChores, Jobs
<1>4. /\ \A c \in batch : kind = "overdue" => DueOn[c] < day
      /\ \A c \in batch : kind = "deadline" => DueOn[c] = day + 1
  BY DEF DueTomorrow, Overdue
<1> HIDE DEF wanted
<1>5. /\ Tidings(batch, day) \subseteq Subjects
      /\ \A s \in Tidings(batch, day) :
           /\ s.kind = kind /\ (kind = "summary" => s.chore = Nobody)
           /\ kind = "deadline" => /\ s.chore \in batch /\ s.on = day + 1
                                   /\ chore[s.chore].doer = s.to
  BY <1>0, <1>3, <1>4, TidingsOf
<1>6. /\ job'.today = day /\ job'.pending = Tidings(batch, day)
      /\ job' \in [pc : {"waiting", "started", "queueing"}, date : Nat, today : Nat,
                   pending : SUBSET Subjects]
  BY <1>0, <1>1, <1>5 DEF DailyTypeOK
<1>7. DailyTypeOK'
  BY <1>0, <1>2, <1>6 DEF DailyTypeOK
<1>8. KeysAreTold' /\ SubjectsAreOfTheKind'
  <2>1. KeysAreTold'
    BY <1>2 DEF DailyInv, KeysAreTold, Key
  <2>2. SubjectsAreOfTheKind'
    BY <1>2, <1>5, <1>6 DEF DailyInv, SubjectsAreOfTheKind
  <2> QED
    BY <2>1, <2>2
<1>9. RemindersReachTheDoer'
  BY <1>2, <1>3, <1>5, <1>6 DEF DailyInv, RemindersReachTheDoer
<1>10. NobodyIsForgotten'
  <2> SUFFICES ASSUME (Cardinality(Concerned(job.today)) <= FetchLimit)'
               PROVE  (Tidings(Steady(job.today), job.today))' \subseteq job'.pending
    BY DEF NobodyIsForgotten
  <2>1. (Concerned(job.today))' = Concerned(day) /\ (Steady(job.today))' = Steady(day)
    BY <1>2, <1>6 DEF Concerned, Steady
  <2>2. batch = wanted
    BY <2>1, <1>1, <1>3, WholeBatch
  <2>3. Tidings(Steady(day), day) \subseteq Tidings(batch, day)
    BY <2>2, <1>0, <1>3, MoreTidings
  <2>4. (Tidings(Steady(job.today), job.today))' = Tidings(Steady(day), day)
    BY <1>2, <1>6 DEF Concerned, Steady, Tidings, Reminders, Alerts, Summaries
  <2> QED
    BY <2>3, <2>4, <1>6
<1> QED
  BY <1>7, <1>8, <1>9, <1>10 DEF DailyInv

\* A key that is in the outbox already tells of the same thing, and to the same person, unless the
\* task was changed meanwhile.
LEMMA QueueStep ==
  ASSUME DailyInv, Queue
  PROVE  DailyInv'
<1> USE DailyAssumption
<1>1. PICK s \in job.pending :
        /\ job' = [job EXCEPT !.pending = @ \ {s}]
        /\ queued' = queued \cup {Key(s)}
        /\ told' = IF IsNew(s) THEN told \cup {s} ELSE told
        /\ again' = IF IsNew(s) /\ s \in told THEN again \cup {s} ELSE again
  BY DEF Queue
<1>2. UNCHANGED <<kind, day, chore>> /\ job.pc = "queueing"
  BY DEF Queue
<1>3. DailyTypeOK /\ s \in Subjects
  BY DEF DailyInv, DailyTypeOK
<1>4. /\ job'.pending = job.pending \ {s} /\ job'.today = job.today /\ job'.pc = job.pc
      /\ job' \in [pc : {"waiting", "started", "queueing"}, date : Nat, today : Nat,
                   pending : SUBSET Subjects]
  BY <1>1, <1>3 DEF DailyTypeOK
<1>5. DailyTypeOK'
  BY <1>1, <1>2, <1>3, <1>4 DEF DailyTypeOK
<1>6. KeysAreTold'
  <2>1. CASE IsNew(s)
    BY <2>1, <1>1 DEF DailyInv, KeysAreTold, IsNew
  <2>2. CASE ~IsNew(s)
    BY <2>2, <1>1 DEF DailyInv, KeysAreTold, IsNew
  <2> QED
    BY <2>1, <2>2
<1>7. told' \cup job'.pending \subseteq told \cup job.pending
  BY <1>1, <1>4
<1>8. RemindersReachTheDoer' /\ SubjectsAreOfTheKind'
  BY <1>2, <1>7 DEF DailyInv, RemindersReachTheDoer, SubjectsAreOfTheKind
<1>9. NobodyIsForgotten'
  <2> DEFINE d == job.today
  <2>1. (Concerned(job.today))' = Concerned(d)
    BY <1>2, <1>4 DEF Concerned
  <2>2. (Tidings(Steady(job.today), job.today))' = Tidings(Steady(d), d)
    BY <1>2, <1>4 DEF Concerned, Steady, Tidings, Reminders, Alerts, Summaries
  <2> SUFFICES ASSUME s \in Tidings(Steady(d), d)
               PROVE  s \in told'
    BY <1>1, <1>2, <1>4, <2>1, <2>2 DEF DailyInv, NobodyIsForgotten
  <2>3. CASE IsNew(s)
    BY <2>3, <1>1
  <2>4. CASE ~IsNew(s)
    <3>1. PICK t \in told : Key(t) = Key(s)
      BY <2>4 DEF IsNew, DailyInv, KeysAreTold
    <3>2. t \in Subjects /\ s.kind = kind /\ t.kind = kind
      BY <1>3, <3>1 DEF DailyTypeOK, DailyInv, SubjectsAreOfTheKind
    <3>3. t.on = s.on /\ t.chore = s.chore /\ t.to = s.to
      <4>1. CASE kind = "deadline"
        <5>1. t.chore = s.chore /\ t.on = s.on
          BY <4>1, <3>1, <3>2 DEF Key
        <5>2. s.chore \in Steady(d) /\ s.on = d + 1 /\ chore[s.chore].doer = s.to
          <6>1. Steady(d) \subseteq Chores /\ d \in Nat
            BY <1>3 DEF Steady, Concerned, DailyTypeOK
          <6>2. \A c \in Steady(d) : DueOn[c] = d + 1
            BY <4>1 DEF Steady, Concerned
          <6> QED
            BY <6>1, <6>2, <4>1, <1>3, TidingsOf
        <5>3. chore[s.chore].changed + 1 < s.on
          <6>1. s.chore \in Chores /\ chore[s.chore].changed < d
            BY <5>2 DEF Steady, Concerned
          <6>2. chore[s.chore].changed \in Nat /\ d \in Nat
            BY <6>1, <1>3 DEF DailyTypeOK
          <6> QED
            BY <5>2, <6>1, <6>2
        <5>4. chore[s.chore].doer = t.to
          BY <5>1, <5>3, <3>2, <4>1 DEF DailyInv, RemindersReachTheDoer
        <5> QED
          BY <5>1, <5>2, <5>4
      <4>2. CASE kind = "overdue"
        BY <4>2, <3>1, <3>2 DEF Key
      <4>3. CASE kind = "summary"
        <5>1. s.chore = Nobody /\ t.chore = Nobody
          BY <4>3, <3>1 DEF DailyInv, SubjectsAreOfTheKind
        <5> QED
          BY <4>3, <5>1, <3>1, <3>2 DEF Key
      <4> QED
        BY <4>1, <4>2, <4>3, <1>3 DEF DailyTypeOK, Jobs
    <3>4. s = t
      BY <1>3, <3>2, <3>3 DEF Subjects
    <3> QED
      BY <3>4, <2>4, <1>1
  <2> QED
    BY <2>3, <2>4
<1> QED
  BY <1>5, <1>6, <1>8, <1>9 DEF DailyInv

\* A change leaves a task open to the day's run, or out of what the run must tell of.
LEMMA ChangeStep ==
  ASSUME DailyInv, NEW c \in Chores, ChangeChore(c)
  PROVE  DailyInv'
<1> USE DailyAssumption
<1>1. /\ UNCHANGED <<kind, day, job, queued, told, again>>
      /\ \A b \in Chores \ {c} : chore'[b] = chore[b]
      /\ chore'[c].changed = day
      /\ chore' \in [Chores -> [open : BOOLEAN, doer : Staff \cup {Nobody}, changed : Nat]]
  <2> DEFINE Row == [open : BOOLEAN, doer : Staff \cup {Nobody}, changed : Nat]
  <2>1. chore \in [Chores -> Row] /\ day \in Nat
    BY DEF DailyInv, DailyTypeOK
  <2>2. ASSUME NEW s \in Staff, chore' = [chore EXCEPT ![c].doer = s, ![c].changed = day]
        PROVE  /\ chore'[c] \in Row /\ chore'[c].changed = day
               /\ \A b \in Chores \ {c} : chore'[b] = chore[b]
               /\ chore' = [b \in Chores |-> chore'[b]]
    BY <2>1, <2>2
  <2>3. ASSUME chore' = [chore EXCEPT ![c].open = FALSE, ![c].changed = day]
        PROVE  /\ chore'[c] \in Row /\ chore'[c].changed = day
               /\ \A b \in Chores \ {c} : chore'[b] = chore[b]
               /\ chore' = [b \in Chores |-> chore'[b]]
    BY <2>1, <2>3
  <2> HIDE DEF Row
  <2>4. /\ chore'[c] \in Row /\ chore'[c].changed = day
        /\ \A b \in Chores \ {c} : chore'[b] = chore[b]
        /\ chore' = [b \in Chores |-> chore'[b]]
    BY <2>2, <2>3 DEF ChangeChore
  <2>5. chore' \in [Chores -> Row]
    BY <2>1, <2>4
  <2> QED
    BY <2>4, <2>5 DEF ChangeChore, Row
<1>2. DailyTypeOK
  BY DEF DailyInv
<1>3. DailyTypeOK'
  BY <1>1, <1>2 DEF DailyTypeOK
<1>4. KeysAreTold' /\ SubjectsAreOfTheKind'
  BY <1>1 DEF DailyInv, KeysAreTold, Key, SubjectsAreOfTheKind
<1>5. RemindersReachTheDoer'
  <2> SUFFICES ASSUME NEW s \in told \cup job.pending, s.kind = "deadline"
               PROVE  /\ s.chore \in Chores /\ s.on <= day + 1
                      /\ chore'[s.chore].changed + 1 < s.on => chore'[s.chore].doer = s.to
    BY <1>1 DEF RemindersReachTheDoer
  <2>1. s.chore \in Chores /\ s.on <= day + 1
    BY DEF DailyInv, RemindersReachTheDoer
  <2>2. s.on \in Nat /\ day \in Nat
    BY <1>2 DEF DailyTypeOK, Subjects
  <2>3. CASE s.chore = c
    BY <2>1, <2>2, <2>3, <1>1
  <2>4. CASE s.chore # c
    BY <2>1, <2>4, <1>1 DEF DailyInv, RemindersReachTheDoer
  <2> QED
    BY <2>1, <2>3, <2>4
<1>6. NobodyIsForgotten'
  <2> DEFINE d == job.today
  <2>1. d \in Nat /\ day \in Nat /\ d <= day
    BY <1>2 DEF DailyTypeOK
  <2>2. Concerned(d) \subseteq (Concerned(job.today))'
    <3> SUFFICES ASSUME NEW b \in Chores, chore[b].open \/ chore[b].changed >= d
                 PROVE  chore'[b].open \/ chore'[b].changed >= d
      BY <1>1 DEF Concerned
    <3> QED
      BY <1>1, <2>1
  <2>3. Cardinality((Concerned(job.today))') <= FetchLimit
          => Cardinality(Concerned(d)) <= FetchLimit
    <3>1. (Concerned(job.today))' \subseteq Chores
      BY DEF Concerned
    <3>2. IsFiniteSet((Concerned(job.today))')
      BY <3>1, FS_Subset
    <3>3. /\ Cardinality(Concerned(d)) <= Cardinality((Concerned(job.today))')
          /\ IsFiniteSet(Concerned(d))
      BY <2>2, <3>2, FS_Subset
    <3>4. Cardinality(Concerned(d)) \in Nat /\ Cardinality((Concerned(job.today))') \in Nat
      BY <3>2, <3>3, FS_CardinalityType
    <3> QED
      BY <3>3, <3>4
  <2>4. /\ (Steady(job.today))' \subseteq Steady(d)
        /\ \A b \in (Steady(job.today))' : chore'[b] = chore[b]
    <3> SUFFICES ASSUME NEW b \in (Steady(job.today))'
                 PROVE  b \in Steady(d) /\ chore'[b] = chore[b]
      OBVIOUS
    <3>1. b \in Chores /\ chore'[b].changed < d
      BY <1>1 DEF Steady, Concerned
    <3>2. b # c
      BY <3>1, <2>1, <1>1
    <3> QED
      BY <3>1, <3>2, <1>1 DEF Steady, Concerned
  <2>5. (Tidings(Steady(job.today), job.today))' \subseteq Tidings(Steady(d), d)
    <3>1. (Reminders(Steady(job.today), job.today))' \subseteq Reminders(Steady(d), d)
      BY <2>4, <1>1 DEF Reminders
    <3>2. (Summaries(Steady(job.today), job.today))' \subseteq Summaries(Steady(d), d)
      BY <2>4, <1>1 DEF Summaries
    <3>3. (Alerts(Steady(job.today), job.today))' \subseteq Alerts(Steady(d), d)
      <4> SUFFICES ASSUME NEW s \in (Alerts(Steady(job.today), job.today))'
                   PROVE  s \in Alerts(Steady(d), d)
        OBVIOUS
      <4>1. PICK b \in (Steady(job.today))' :
              /\ (d - DueOn[b]) % AlertEvery = 0
              /\ s \in {About("overdue", b, to, d - DueOn[b]) :
                          to \in {Author[b], chore'[b].doer} \ {Nobody}}
        <5>1. (Alerts(Steady(job.today), job.today))' =
                UNION {{About("overdue", b, to, d - DueOn[b]) :
                          to \in {Author[b], chore'[b].doer} \ {Nobody}}
                         : b \in {e \in (Steady(job.today))' : (d - DueOn[e]) % AlertEvery = 0}}
          BY <1>1 DEF Alerts
        <5> QED
          BY <5>1
      <4> QED
        BY <4>1, <2>4 DEF Alerts
    <3> QED
      BY <3>1, <3>2, <3>3, <1>1, <1>2 DEF Tidings, DailyTypeOK, Jobs
  <2> QED
    BY <1>1, <2>3, <2>5 DEF DailyInv, NobodyIsForgotten
<1> QED
  BY <1>3, <1>4, <1>5, <1>6 DEF DailyInv

\* Nothing else that happens touches the tasks or a run that reads them.
LEMMA IdleSteps ==
  ASSUME DailyInv, UNCHANGED <<kind, chore, queued, told, again>>,
         \/ day' \in {day, day + 1} /\ job' = job
         \/ /\ day' = day
            /\ job' \in [pc : {"waiting", "started"}, date : Nat, today : {0}, pending : {{}}]
  PROVE  DailyInv'
<1>1. DailyTypeOK
  BY DEF DailyInv
<1>2. DailyTypeOK' /\ day' >= day /\ day \in Nat
  <2>1. day' \in Nat /\ day' >= day /\ day \in Nat
    BY <1>1 DEF DailyTypeOK
  <2>2. /\ job' \in [pc : {"waiting", "started", "queueing"}, date : Nat, today : Nat,
                     pending : SUBSET Subjects]
        /\ job'.today \in {0, job.today}
    <3>1. CASE job' = job
      BY <1>1, <3>1 DEF DailyTypeOK
    <3>2. CASE job' \in [pc : {"waiting", "started"}, date : Nat, today : {0}, pending : {{}}]
      BY <3>2
    <3> QED
      BY <3>1, <3>2
  <2>3. job'.today <= day'
    BY <1>1, <2>1, <2>2 DEF DailyTypeOK
  <2> QED
    BY <1>1, <2>1, <2>2, <2>3 DEF DailyTypeOK
<1>3. job'.pending \subseteq job.pending
  OBVIOUS
<1>4. KeysAreTold' /\ SubjectsAreOfTheKind'
  BY <1>3 DEF DailyInv, KeysAreTold, Key, SubjectsAreOfTheKind
<1>5. RemindersReachTheDoer'
  <2> SUFFICES ASSUME NEW s \in told \cup job.pending, s.kind = "deadline"
               PROVE  s.on <= day' + 1
    BY <1>3 DEF RemindersReachTheDoer, DailyInv
  <2>1. s.on \in Nat /\ s.on <= day + 1
    BY <1>1 DEF DailyTypeOK, Subjects, DailyInv, RemindersReachTheDoer
  <2> QED
    BY <2>1, <1>2 DEF DailyTypeOK
<1>6. NobodyIsForgotten'
  <2>1. CASE job' = job
    <3>1. (Concerned(job.today))' = Concerned(job.today)
      BY <2>1 DEF Concerned
    <3>2. (Tidings(Steady(job.today), job.today))' = Tidings(Steady(job.today), job.today)
      BY <2>1 DEF Concerned, Steady, Tidings, Reminders, Alerts, Summaries
    <3> QED
      BY <2>1, <3>1, <3>2 DEF DailyInv, NobodyIsForgotten
  <2>2. CASE job' # job
    <3>1. job'.pc # "queueing"
      BY <2>2
    <3> QED
      BY <3>1 DEF NobodyIsForgotten
  <2> QED
    BY <2>1, <2>2
<1> QED
  BY <1>2, <1>4, <1>5, <1>6 DEF DailyInv

\* What the tables and the run at work have in common, whatever changes between its steps.
THEOREM DailyInvariance == DailySpec => []DailyInv
<1>1. DailyInit => DailyInv
  <2> SUFFICES ASSUME DailyInit PROVE DailyInv
    OBVIOUS
  <2>1. chore \in [Chores -> [open : BOOLEAN, doer : Staff \cup {Nobody}, changed : Nat]]
    <3>1. /\ \A c \in Chores : chore[c].doer \in Staff \cup {Nobody}
          /\ \A c \in Chores : chore[c] = [open |-> TRUE, doer |-> chore[c].doer, changed |-> 0]
          /\ chore = [c \in Chores |-> chore[c]]
      BY DEF DailyInit
    <3>2. \A p \in Staff \cup {Nobody} :
            [open |-> TRUE, doer |-> p, changed |-> 0]
              \in [open : BOOLEAN, doer : Staff \cup {Nobody}, changed : Nat]
      OBVIOUS
    <3>3. \A c \in Chores : chore[c] \in [open : BOOLEAN, doer : Staff \cup {Nobody}, changed : Nat]
      <4> TAKE c \in Chores
      <4>1. chore[c] = [open |-> TRUE, doer |-> chore[c].doer, changed |-> 0]
        BY <3>1
      <4>2. chore[c].doer \in Staff \cup {Nobody}
        BY <3>1
      <4>3. [open |-> TRUE, doer |-> chore[c].doer, changed |-> 0]
              \in [open : BOOLEAN, doer : Staff \cup {Nobody}, changed : Nat]
        BY ONLY <4>2, <3>2
      <4> QED
        BY ONLY <4>1, <4>3, Zenon
    <3> QED
      BY ONLY <3>1, <3>3
  <2>2. job \in [pc : {"waiting", "started", "queueing"}, date : Nat, today : Nat,
                 pending : SUBSET Subjects]
    BY DEF DailyInit, Waiting
  <2>3. DailyTypeOK
    BY <2>1, <2>2 DEF DailyInit, DailyTypeOK, Waiting
  <2> QED
    BY <2>3 DEF DailyInit, DailyInv, KeysAreTold, RemindersReachTheDoer, SubjectsAreOfTheKind,
                NobodyIsForgotten, Waiting
<1>2. DailyInv /\ [DailyNext]_dailyVars => DailyInv'
  <2> SUFFICES ASSUME DailyInv, [DailyNext]_dailyVars PROVE DailyInv'
    OBVIOUS
  <2>1. CASE PassTime
    BY <2>1, IdleSteps DEF PassTime
  <2>2. CASE Tick
    <3>1. job' \in [pc : {"waiting", "started"}, date : Nat, today : {0}, pending : {{}}]
      BY <2>2 DEF Tick, Waiting, DailyInv, DailyTypeOK
    <3> QED
      BY <2>2, <3>1, IdleSteps DEF Tick
  <2>3. CASE FinishRun \/ FailRun \/ RestartJobs
    <3>1. job' \in [pc : {"waiting", "started"}, date : Nat, today : {0}, pending : {{}}]
      BY <2>3 DEF FinishRun, FailRun, RestartJobs, End, Waiting
    <3> QED
      BY <2>3, <3>1, IdleSteps DEF FinishRun, FailRun, RestartJobs
  <2>4. CASE UNCHANGED dailyVars
    BY <2>4, IdleSteps DEF dailyVars
  <2> QED
    BY <2>1, <2>2, <2>3, <2>4, ChangeStep, BeginStep, QueueStep DEF DailyNext
<1> QED
  BY <1>1, <1>2, PTL DEF DailySpec

\* Nobody is told twice of the same thing: a run that is repeated, or that stops half-way and
\* begins again, finds the keys of what it queued in the outbox (enqueue, ON CONFLICT DO NOTHING).
THEOREM DailyToldOnce == DailySpec => []ToldOnce
<1>1. DailyInv => ToldOnce
  BY DEF DailyInv, KeysAreTold, ToldOnce
<1> QED
  BY <1>1, DailyInvariance, PTL

\* A run that ends has told everyone concerned, if they fit in the batch that it reads: a task that
\* nobody changed that day is told of (deadline_notifications.rs, notification_jobs.rs).
THEOREM DailyTellsEveryone == DailySpec => []EveryoneIsTold
<1>1. DailyInv => EveryoneIsTold
  BY DEF DailyInv, NobodyIsForgotten, EveryoneIsTold
<1> QED
  BY <1>1, DailyInvariance, PTL

-----------------------------------------------------------------------------
(* The calls of outside services *)

UnderWay == {c \in Callers : caller[c].pc = "sent"}

CallsTypeOK ==
  /\ breaker \in [failures : Nat, until : Nat]
  /\ caller \in [Callers -> [pc : {"free", "trying", "sent"}, attempt : Nat]]
  /\ clock \in Nat \ {0}
  /\ statuses \in Seq(Nat)

\* Every error status is counted, and each from the threshold on has kept the breaker open since.
StatusesCount ==
  /\ Len(statuses) = breaker.failures
  /\ \A i \in DOMAIN statuses :
       /\ statuses[i] <= clock
       /\ i >= Threshold => statuses[i] + OpenFor <= breaker.until

\* While the breaker is open, what the service has answered lately and what it may still answer
\* are together no more than it may.
OpenSpares ==
  BreakerIsOpen =>
    Cardinality(Recent) + Cardinality(UnderWay) <= Threshold - 1 + Cardinality(Callers)

CallsInv == CallsTypeOK /\ StatusesCount /\ OpenSpares

\* The sets that are counted are finite.
LEMMA CallSets ==
  ASSUME CallsTypeOK
  PROVE  /\ IsFiniteSet(Recent) /\ Cardinality(Recent) \in Nat
         /\ IsFiniteSet(UnderWay) /\ Cardinality(UnderWay) \in Nat
         /\ Cardinality(UnderWay) <= Cardinality(Callers)
         /\ Cardinality(Callers) \in Nat
<1>1. IsFiniteSet(DOMAIN statuses)
  <2>1. DOMAIN statuses = 1..Len(statuses) /\ Len(statuses) \in Nat
    BY DEF CallsTypeOK
  <2> QED
    BY <2>1, FS_Interval
<1>2. IsFiniteSet(Recent)
  BY <1>1, FS_Subset DEF Recent
<1>3. IsFiniteSet(UnderWay) /\ Cardinality(UnderWay) <= Cardinality(Callers)
  BY CallsAssumption, FS_Subset DEF UnderWay
<1> QED
  BY <1>2, <1>3, CallsAssumption, FS_CardinalityType

\* While the breaker is closed, all that is recent came before the threshold.
LEMMA ClosedSpares ==
  ASSUME CallsTypeOK, StatusesCount, ~BreakerIsOpen
  PROVE  Cardinality(Recent) <= Threshold - 1
<1> USE CallsAssumption
<1>1. Recent \subseteq 1..Threshold - 1
  <2> SUFFICES ASSUME NEW i \in Recent PROVE i \in 1..Threshold - 1
    OBVIOUS
  <2>1. i \in Nat /\ i >= 1 /\ i \in DOMAIN statuses
    BY DEF Recent, CallsTypeOK
  <2>2. statuses[i] \in Nat /\ clock \in Nat /\ breaker.until \in Nat
    BY <2>1 DEF CallsTypeOK
  <2>3. statuses[i] + OpenFor > clock
    BY <2>2 DEF Recent
  <2>4. breaker.until <= clock
    BY <2>2 DEF BreakerIsOpen
  <2>5. ~(i >= Threshold)
    BY <2>1, <2>2, <2>3, <2>4 DEF StatusesCount
  <2> QED
    BY <2>1, <2>5
<1>2. IsFiniteSet(1..Threshold - 1) /\ Cardinality(1..Threshold - 1) = Threshold - 1
  BY FS_Interval
<1> QED
  BY <1>1, <1>2, FS_Subset

\* The bound holds whether the breaker is open or closed.
LEMMA SparesService == CallsInv => ServiceIsSpared
<1> SUFFICES ASSUME CallsInv PROVE ServiceIsSpared
  OBVIOUS
<1>1. Cardinality(Recent) \in Nat /\ Cardinality(UnderWay) \in Nat /\ Cardinality(Callers) \in Nat
  BY CallSets DEF CallsInv
<1>2. CASE BreakerIsOpen
  BY <1>1, <1>2, CallsAssumption DEF CallsInv, OpenSpares, ServiceIsSpared
<1>3. CASE ~BreakerIsOpen
  BY <1>1, <1>3, ClosedSpares, CallsAssumption DEF CallsInv, ServiceIsSpared
<1> QED
  BY <1>2, <1>3

\* A step after which no more requests are under way, nothing new is recent, and the breaker is as
\* it was or has closed.
LEMMA QuieterStep ==
  ASSUME CallsInv, CallsTypeOK', StatusesCount',
         Recent' \subseteq Recent, UnderWay' \subseteq UnderWay,
         BreakerIsOpen' => BreakerIsOpen
  PROVE  CallsInv'
<1>1. /\ IsFiniteSet(Recent) /\ IsFiniteSet(UnderWay)
      /\ Cardinality(Recent) \in Nat /\ Cardinality(UnderWay) \in Nat
      /\ Cardinality(Callers) \in Nat
  BY CallSets DEF CallsInv
<1>2. /\ Cardinality(Recent') <= Cardinality(Recent) /\ IsFiniteSet(Recent')
      /\ Cardinality(UnderWay') <= Cardinality(UnderWay) /\ IsFiniteSet(UnderWay')
  BY <1>1, FS_Subset
<1>3. Cardinality(Recent') \in Nat /\ Cardinality(UnderWay') \in Nat
  BY <1>2, FS_CardinalityType
<1>4. OpenSpares'
  <2> SUFFICES ASSUME BreakerIsOpen'
               PROVE  Cardinality(Recent') + Cardinality(UnderWay') <= Threshold - 1 + Cardinality(Callers)
    BY DEF OpenSpares
  <2>1. Cardinality(Recent) + Cardinality(UnderWay) <= Threshold - 1 + Cardinality(Callers)
    BY DEF CallsInv, OpenSpares
  <2> QED
    BY <1>1, <1>2, <1>3, <2>1, CallsAssumption
<1> QED
  BY <1>4 DEF CallsInv

\* An error status is counted: it may open the breaker, and it is one answer fewer to come.
LEMMA ErrorStep ==
  ASSUME CallsInv, NEW c \in Callers, ErrorStatus(c)
  PROVE  CallsInv'
<1> USE CallsAssumption
<1>1. /\ breaker \in [failures : Nat, until : Nat] /\ clock \in Nat \ {0} /\ statuses \in Seq(Nat)
      /\ caller \in [Callers -> [pc : {"free", "trying", "sent"}, attempt : Nat]]
      /\ Len(statuses) = breaker.failures /\ clock' = clock
      /\ statuses' = Append(statuses, clock)
  BY DEF CallsInv, CallsTypeOK, StatusesCount, ErrorStatus
<1>2. /\ breaker'.failures = breaker.failures + 1
      /\ breaker'.until = IF breaker.failures + 1 >= Threshold THEN clock + OpenFor ELSE breaker.until
      /\ breaker' \in [failures : Nat, until : Nat]
  BY <1>1 DEF ErrorStatus, OpensAt
<1>3. caller' \in [Callers -> [pc : {"free", "trying", "sent"}, attempt : Nat]]
      /\ caller'[c].pc # "sent" /\ \A d \in Callers \ {c} : caller'[d] = caller[d]
  BY <1>1 DEF ErrorStatus, Again, Free
<1>4. /\ statuses' \in Seq(Nat) /\ Len(statuses') = Len(statuses) + 1
      /\ \A i \in DOMAIN statuses : statuses'[i] = statuses[i]
      /\ statuses'[Len(statuses) + 1] = clock
      /\ DOMAIN statuses = 1..Len(statuses) /\ DOMAIN statuses' = 1..(Len(statuses) + 1)
      /\ Len(statuses) \in Nat
  BY <1>1
<1>5. CallsTypeOK'
  BY <1>1, <1>2, <1>3, <1>4 DEF CallsTypeOK
<1>6. StatusesCount'
  <2>1. Len(statuses') = breaker'.failures
    BY <1>1, <1>2, <1>4
  <2>2. ASSUME NEW i \in DOMAIN statuses'
        PROVE  /\ statuses'[i] <= clock'
               /\ i >= Threshold => statuses'[i] + OpenFor <= breaker'.until
    <3>1. CASE i = Len(statuses) + 1
      BY <1>1, <1>2, <1>4, <3>1
    <3>2. CASE i # Len(statuses) + 1
      <4>1. i \in DOMAIN statuses /\ i \in Nat /\ i <= breaker.failures
        BY <1>1, <1>4, <3>2
      <4>2. statuses[i] <= clock /\ statuses[i] \in Nat
        BY <1>1, <4>1 DEF CallsInv, StatusesCount
      <4>3. i >= Threshold => breaker'.until = clock + OpenFor
        BY <1>1, <1>2, <4>1
      <4> QED
        BY <1>1, <1>4, <4>1, <4>2, <4>3
    <3> QED
      BY <3>1, <3>2
  <2> QED
    BY <2>1, <2>2 DEF StatusesCount
<1>7. /\ Recent' = Recent \cup {Len(statuses) + 1} /\ Len(statuses) + 1 \notin Recent
      /\ UnderWay' = UnderWay \ {c} /\ c \in UnderWay
  <2>1. Recent' = Recent \cup {Len(statuses) + 1}
    BY <1>1, <1>4 DEF Recent
  <2>2. Len(statuses) + 1 \notin Recent
    BY <1>4 DEF Recent
  <2> QED
    BY <1>1, <1>3, <2>1, <2>2 DEF UnderWay, ErrorStatus
<1>8. /\ IsFiniteSet(Recent) /\ Cardinality(Recent) \in Nat
      /\ IsFiniteSet(UnderWay) /\ Cardinality(UnderWay) \in Nat
      /\ Cardinality(UnderWay) <= Cardinality(Callers) /\ Cardinality(Callers) \in Nat
  BY CallSets DEF CallsInv
<1>9. Cardinality(Recent') = Cardinality(Recent) + 1 /\ Cardinality(UnderWay') = Cardinality(UnderWay) - 1
  BY <1>7, <1>8, FS_AddElement, FS_RemoveElement
<1>10. CASE BreakerIsOpen
  BY <1>5, <1>6, <1>8, <1>9, <1>10 DEF CallsInv, OpenSpares
<1>11. CASE ~BreakerIsOpen
  <2>1. Cardinality(Recent) <= Threshold - 1
    BY <1>11, ClosedSpares DEF CallsInv
  <2> QED
    BY <1>5, <1>6, <1>8, <1>9, <2>1 DEF CallsInv, OpenSpares
<1> QED
  BY <1>10, <1>11

\* A caller that goes on to its next attempt or gives up.
LEMMA CallerSteps ==
  ASSUME CallsInv, NEW c \in Callers, UNCHANGED <<breaker, clock, statuses>>,
         NEW next \in [pc : {"free", "trying", "sent"}, attempt : Nat],
         caller' = [caller EXCEPT ![c] = next],
         next.pc = "sent" => ~BreakerIsOpen
  PROVE  CallsInv'
<1>1. CallsTypeOK'
  BY DEF CallsInv, CallsTypeOK
<1>2. StatusesCount'
  BY DEF CallsInv, StatusesCount
<1>3. CASE BreakerIsOpen
  <2>1. Recent' = Recent /\ UnderWay' \subseteq UnderWay
    BY <1>3 DEF Recent, UnderWay, CallsInv, CallsTypeOK
  <2> QED
    BY <1>1, <1>2, <1>3, <2>1, QuieterStep
<1>4. CASE ~BreakerIsOpen
  BY <1>1, <1>2, <1>4 DEF CallsInv, OpenSpares, BreakerIsOpen
<1> QED
  BY <1>3, <1>4

\* However many callers there are at once, a service that answers with errors gets no more requests
\* within the time the breaker stays open than the threshold and the callers allow
\* (circuit_breaker.rs; retry loops of the AI clients).
THEOREM CallsSpareTheService == CallsSpec => []ServiceIsSpared
<1> USE CallsAssumption
<1>1. CallsInit => CallsInv
  <2> SUFFICES ASSUME CallsInit PROVE CallsInv
    OBVIOUS
  <2>1. CallsTypeOK
    BY DEF CallsInit, CallsTypeOK, Free
  <2> QED
    BY <2>1 DEF CallsInit, CallsInv, StatusesCount, OpenSpares, BreakerIsOpen
<1>2. CallsInv /\ [CallsNext]_callVars => CallsInv'
  <2> SUFFICES ASSUME CallsInv, [CallsNext]_callVars PROVE CallsInv'
    OBVIOUS
  <2> DEFINE CallerStates == [pc : {"free", "trying", "sent"}, attempt : Nat]
  <2>0. caller \in [Callers -> CallerStates] /\ clock \in Nat
    BY DEF CallsInv, CallsTypeOK
  <2>1. CASE PassTick
    <3>1. CallsTypeOK' /\ StatusesCount'
      BY <2>1 DEF PassTick, CallsInv, CallsTypeOK, StatusesCount
    <3>2. Recent' \subseteq Recent /\ UnderWay' = UnderWay
      BY <2>1 DEF PassTick, Recent, UnderWay, CallsInv, CallsTypeOK
    <3>3. BreakerIsOpen' => BreakerIsOpen
      BY <2>1 DEF PassTick, BreakerIsOpen, CallsInv, CallsTypeOK
    <3> QED
      BY <3>1, <3>2, <3>3, QuieterStep
  <2>2. ASSUME NEW c \in Callers, Call(c) PROVE CallsInv'
    BY <2>2, CallerSteps DEF Call
  <2>3. ASSUME NEW c \in Callers, TurnedAway(c) \/ Lost(c) PROVE CallsInv'
    <3>1. PICK next \in CallerStates : next.pc # "sent" /\ caller' = [caller EXCEPT ![c] = next]
      BY <2>0, <2>3 DEF TurnedAway, Lost, Again, Free
    <3> QED
      BY <2>3, <3>1, CallerSteps DEF TurnedAway, Lost
  <2>4. ASSUME NEW c \in Callers, Send(c) PROVE CallsInv'
    <3>1. [caller[c] EXCEPT !.pc = "sent"] \in CallerStates
      BY <2>0
    <3>2. caller' = [caller EXCEPT ![c] = [caller[c] EXCEPT !.pc = "sent"]]
      BY <2>4 DEF Send
    <3> QED
      BY <2>4, <3>1, <3>2, CallerSteps DEF Send
  <2>5. ASSUME NEW c \in Callers, Refused(c) PROVE CallsInv'
    BY <2>5, CallerSteps DEF Refused, Free
  <2>6. ASSUME NEW c \in Callers, Succeed(c) PROVE CallsInv'
    <3>1. CallsTypeOK'
      BY <2>0, <2>6 DEF Succeed, CallsInv, CallsTypeOK, Free
    <3> QED
      BY <2>6, <3>1 DEF Succeed, CallsInv, StatusesCount, OpenSpares, BreakerIsOpen
  <2>7. CASE UNCHANGED callVars
    BY <2>7 DEF callVars, CallsInv, CallsTypeOK, StatusesCount, OpenSpares, BreakerIsOpen, Recent, UnderWay
  <2> QED
    BY <2>1, <2>2, <2>3, <2>4, <2>5, <2>6, <2>7, ErrorStep DEF CallsNext
<1> QED
  BY <1>1, <1>2, SparesService, PTL DEF CallsSpec

-----------------------------------------------------------------------------
(* The voice records *)

VoiceRows == [state : VoiceStates \cup {"none"}, error : BOOLEAN, hash : BOOLEAN,
         completed : {"never", "recent", "old"}]

Transactions == [pc : {"insert", "move", "transcribed"}, file : Files,
             from : VoiceStates \cup {"none"}, to : VoiceStates, stale : BOOLEAN]

\* A client moves a record along an edge of its states only.
RequestIsLegal(o) ==
  CASE o.pc = "insert" -> o.from = "none" /\ o.to = "queued"
    [] o.pc = "move" -> CanTransition(o.from, o.to)
    [] o.pc = "transcribed" -> o.from = "transcribing" /\ o.to = "transcribed"

\* What a transaction has read is what is there, unless somebody wrote since.
ReadsAreFresh ==
  \A c \in Clients :
    op[c].pc # "idle" =>
      /\ RequestIsLegal(op[c])
      /\ ~op[c].stale => record[op[c].file].state = op[c].from

\* A record somebody was told to transcribe has left the queue for good.
StartedHasLeft ==
  \A f \in Files :
    granted[f] = 0 \/ (granted[f] = 1 /\ record[f].state \notin {"none", "queued"})

VoiceTypeOK ==
  /\ record \in [Files -> VoiceRows]
  /\ op \in [Clients -> Transactions \cup {NoOp}]
  /\ granted \in [Files -> Nat]

VoiceInv == VoiceTypeOK /\ ReadsAreFresh /\ StartedHasLeft

\* A transaction becomes stale, or ends, and is otherwise what it was.
LEMMA StaledOps ==
  ASSUME NEW ops \in [Clients -> Transactions \cup {NoOp}]
  PROVE  /\ Staled(ops) \in [Clients -> Transactions \cup {NoOp}]
         /\ \A c \in Clients : \/ Staled(ops)[c] = NoOp
                               \/ /\ Staled(ops)[c].stale
                                  /\ RequestIsLegal(ops[c]) => RequestIsLegal(Staled(ops)[c])
<1> SUFFICES ASSUME NEW c \in Clients
             PROVE  /\ Staled(ops)[c] \in Transactions \cup {NoOp}
                    /\ \/ Staled(ops)[c] = NoOp
                       \/ /\ Staled(ops)[c].stale
                          /\ RequestIsLegal(ops[c]) => RequestIsLegal(Staled(ops)[c])
  BY DEF Staled
<1>1. CASE ops[c].pc = "idle"
  BY <1>1 DEF Staled
<1>2. CASE ops[c].pc # "idle"
  <2>1. ops[c] \in Transactions
    BY <1>2 DEF NoOp
  <2>2. Staled(ops)[c] = [ops[c] EXCEPT !.stale = TRUE]
    BY <1>2 DEF Staled
  <2>3. /\ Staled(ops)[c] \in Transactions
        /\ Staled(ops)[c].stale
        /\ Staled(ops)[c].pc = ops[c].pc
        /\ Staled(ops)[c].from = ops[c].from
        /\ Staled(ops)[c].to = ops[c].to
    BY <2>1, <2>2 DEF Transactions
  <2> QED
    BY <2>3 DEF RequestIsLegal
<1> QED
  BY <1>1, <1>2

\* The beginning of a transaction that has read the state it wants to leave.
LEMMA OpenStep ==
  ASSUME VoiceInv, NEW c \in Clients, NEW f \in Files,
         NEW pc \in {"insert", "move", "transcribed"},
         NEW from \in VoiceStates \cup {"none"}, NEW to \in VoiceStates,
         record[f].state = from, RequestIsLegal(Request(pc, f, from, to)),
         Open(c, Request(pc, f, from, to))
  PROVE  VoiceInv'
<1> DEFINE o == Request(pc, f, from, to)
<1>1. o \in Transactions /\ o.file = f /\ o.from = from
  BY DEF Request, Transactions
<1>2. VoiceTypeOK'
  BY <1>1 DEF Open, VoiceInv, VoiceTypeOK
<1>3. \A d \in Clients : op'[d] = IF d = c THEN o ELSE op[d]
  BY DEF Open, VoiceInv, VoiceTypeOK
<1>4. UNCHANGED <<record, granted>>
  BY DEF Open
<1> HIDE DEF o
<1>5. ReadsAreFresh'
  <2> SUFFICES ASSUME NEW d \in Clients, op'[d].pc # "idle"
               PROVE  /\ RequestIsLegal(op'[d])
                      /\ ~op'[d].stale => record'[op'[d].file].state = op'[d].from
    BY DEF ReadsAreFresh, RequestIsLegal
  <2>1. CASE d = c
    BY <2>1, <1>1, <1>3, <1>4 DEF o
  <2>2. CASE d # c
    BY <2>2, <1>3, <1>4 DEF VoiceInv, ReadsAreFresh
  <2> QED
    BY <2>1, <2>2
<1>6. StartedHasLeft'
  BY <1>4 DEF VoiceInv, StartedHasLeft
<1> QED
  BY <1>2, <1>5, <1>6 DEF VoiceInv

\* A write lands only on the state that was read, so that the move out of the queue happens once.
LEMMA WriteRecordStep ==
  ASSUME VoiceInv, NEW c \in Clients, WriteRecord(c)
  PROVE  VoiceInv'
<1> DEFINE o == op[c]
           f == o.file
           rest == [op EXCEPT ![c] = NoOp]
<1>1. /\ o \in Transactions /\ f \in Files
      /\ RequestIsLegal(o)
      /\ record[f].state = o.from /\ record[f] \in VoiceRows
  BY DEF WriteRecord, MayWrite, VoiceInv, VoiceTypeOK, ReadsAreFresh, Transactions, NoOp
<1>2. Written(c) \in VoiceRows /\ Written(c).state = o.to
  <2>1. CASE o.pc = "insert"
    <3>1. o.to = "queued"
      BY <2>1, <1>1 DEF RequestIsLegal
    <3> QED
      BY <2>1, <3>1 DEF Written, QueuedRow, NoRow, VoiceRows, VoiceStates
  <2>2. CASE o.pc = "move"
    BY <2>2, <1>1 DEF Written, VoiceRows, Transactions
  <2>3. CASE o.pc = "transcribed"
    BY <2>3, <1>1 DEF Written, VoiceRows, Transactions
  <2> QED
    BY <2>1, <2>2, <2>3, <1>1 DEF Transactions
<1>3. /\ record' = [record EXCEPT ![f] = Written(c)]
      /\ op' = Staled(rest)
      /\ granted' = IF o.pc = "move" /\ o.to = "transcribing"
                      THEN [granted EXCEPT ![f] = @ + 1] ELSE granted
  BY DEF WriteRecord
<1>4. rest \in [Clients -> Transactions \cup {NoOp}]
  BY DEF VoiceInv, VoiceTypeOK
<1> HIDE DEF rest
<1>5. VoiceTypeOK'
  <2>1. op' \in [Clients -> Transactions \cup {NoOp}]
    BY <1>3, <1>4, StaledOps
  <2>2. record' \in [Files -> VoiceRows] /\ granted' \in [Files -> Nat]
    BY <1>1, <1>2, <1>3 DEF VoiceInv, VoiceTypeOK
  <2> QED
    BY <2>1, <2>2 DEF VoiceTypeOK
<1>6. ReadsAreFresh'
  <2> SUFFICES ASSUME NEW d \in Clients, op'[d].pc # "idle"
               PROVE  RequestIsLegal(op'[d]) /\ op'[d].stale
    BY DEF ReadsAreFresh, RequestIsLegal
  <2>1. op'[d].stale /\ (RequestIsLegal(rest[d]) => RequestIsLegal(op'[d]))
    BY <1>3, <1>4, StaledOps DEF NoOp
  <2>2. rest[d].pc # "idle"
    BY <1>3 DEF Staled, NoOp
  <2>3. rest[d] = op[d]
    BY <2>2 DEF rest, NoOp, VoiceInv, VoiceTypeOK
  <2>4. RequestIsLegal(rest[d])
    BY <2>2, <2>3 DEF VoiceInv, ReadsAreFresh
  <2> QED
    BY <2>1, <2>4
<1>7. StartedHasLeft'
  <2>1. \A g \in Files \ {f} : record'[g] = record[g] /\ granted'[g] = granted[g]
    BY <1>1, <1>3 DEF VoiceInv, VoiceTypeOK
  <2>2. record'[f].state = o.to
    BY <1>1, <1>2, <1>3 DEF VoiceInv, VoiceTypeOK
  <2>3. CASE o.pc = "move" /\ o.to = "transcribing"
    <3>1. record[f].state = "queued"
      BY <2>3, <1>1 DEF RequestIsLegal, CanTransition
    <3>2. granted'[f] = 1
      BY <2>3, <3>1, <1>1, <1>3 DEF VoiceInv, VoiceTypeOK, StartedHasLeft
    <3> QED
      BY <2>1, <2>2, <2>3, <3>2 DEF VoiceInv, StartedHasLeft
  <2>4. CASE ~(o.pc = "move" /\ o.to = "transcribing")
    <3>1. granted' = granted
      BY <2>4, <1>3
    <3>2. record[f].state \notin {"none", "queued"} => o.to \notin {"none", "queued"}
      BY <1>1 DEF RequestIsLegal, CanTransition, Transactions
    <3> QED
      BY <2>1, <2>2, <3>1, <3>2 DEF VoiceInv, StartedHasLeft
  <2> QED
    BY <2>3, <2>4
<1> QED
  BY <1>5, <1>6, <1>7 DEF VoiceInv

\* A rollback leaves no trace, and neither the age of a record nor its purge moves it.
LEMMA VoiceOtherSteps ==
  ASSUME VoiceInv,
         \/ \E c \in Clients : RollBack(c)
         \/ \E f \in Files : Grow(f)
         \/ Purge
  PROVE  VoiceInv'
<1>1. ASSUME NEW c \in Clients, RollBack(c) PROVE VoiceInv'
  BY <1>1 DEF RollBack, VoiceInv, VoiceTypeOK, ReadsAreFresh, StartedHasLeft, NoOp
<1>2. ASSUME NEW f \in Files, Grow(f) PROVE VoiceInv'
  <2>1. /\ record' \in [Files -> VoiceRows]
        /\ \A g \in Files : record'[g].state = record[g].state
    BY <1>2 DEF Grow, VoiceInv, VoiceTypeOK, VoiceRows
  <2>2. UNCHANGED <<op, granted>>
    BY <1>2 DEF Grow
  <2>3. ReadsAreFresh'
    <3>1. \A c \in Clients : op[c].pc # "idle" => op[c].file \in Files
      BY DEF VoiceInv, VoiceTypeOK, Transactions, NoOp
    <3> QED
      BY <2>1, <2>2, <3>1 DEF VoiceInv, ReadsAreFresh
  <2> QED
    BY <2>1, <2>2, <2>3 DEF VoiceInv, VoiceTypeOK, StartedHasLeft
<1>3. ASSUME Purge PROVE VoiceInv'
  <2>1. /\ record' \in [Files -> VoiceRows]
        /\ \A g \in Files : record'[g].state = record[g].state
    BY <1>3 DEF Purge, VoiceInv, VoiceTypeOK, VoiceRows
  <2>2. op' = Staled(op) /\ granted' = granted
    BY <1>3 DEF Purge
  <2>3. op' \in [Clients -> Transactions \cup {NoOp}]
    BY <2>2, StaledOps DEF VoiceInv, VoiceTypeOK
  <2>4. ReadsAreFresh'
    <3> SUFFICES ASSUME NEW d \in Clients, op'[d].pc # "idle"
                 PROVE  RequestIsLegal(op'[d]) /\ op'[d].stale
      BY DEF ReadsAreFresh, RequestIsLegal
    <3>1. op'[d].stale /\ (RequestIsLegal(op[d]) => RequestIsLegal(op'[d]))
      BY <2>2, StaledOps DEF NoOp, VoiceInv, VoiceTypeOK
    <3>2. op[d].pc # "idle"
      BY <2>2 DEF Staled, NoOp
    <3> QED
      BY <3>1, <3>2 DEF VoiceInv, ReadsAreFresh
  <2> QED
    BY <2>1, <2>2, <2>3, <2>4 DEF VoiceInv, VoiceTypeOK, StartedHasLeft
<1> QED
  BY <1>1, <1>2, <1>3

\* A voice file is told to be transcribed once: the state that a transaction has read is still that
\* of the record when its write lands, and the only edge out of the queue is taken once.
THEOREM VoiceStartsOnce == VoiceSpec => []OneStart
<1>1. VoiceInit => VoiceInv
  BY DEF VoiceInit, VoiceInv, VoiceTypeOK, ReadsAreFresh, StartedHasLeft, NoRow, VoiceRows, NoOp
<1>2. VoiceInv /\ [VoiceNext]_voiceVars => VoiceInv'
  <2> SUFFICES ASSUME VoiceInv, [VoiceNext]_voiceVars PROVE VoiceInv'
    OBVIOUS
  <2>1. ASSUME NEW c \in Clients, NEW f \in Files, GetOrCreate(c, f) PROVE VoiceInv'
    <3>1. record[f].state = "none"
      BY <2>1 DEF GetOrCreate, NoRow
    <3>2. RequestIsLegal(Request("insert", f, "none", "queued"))
      BY DEF RequestIsLegal, Request
    <3> QED
      BY <2>1, <3>1, <3>2, OpenStep DEF GetOrCreate, VoiceStates
  <2>2. ASSUME NEW c \in Clients, NEW f \in Files, MarkTranscribed(c, f) PROVE VoiceInv'
    <3>1. RequestIsLegal(Request("transcribed", f, "transcribing", "transcribed"))
      BY DEF RequestIsLegal, Request
    <3> QED
      BY <2>2, <3>1, OpenStep DEF MarkTranscribed, Expected, VoiceStates
  <2>3. ASSUME NEW c \in Clients, NEW f \in Files, NEW from \in VoiceStates, NEW to \in VoiceStates,
               BeginTransition(c, f, from, to)
        PROVE  VoiceInv'
    <3>1. RequestIsLegal(Request("move", f, from, to))
      BY <2>3 DEF BeginTransition, RequestIsLegal, Request
    <3> QED
      BY <2>3, <3>1, OpenStep DEF BeginTransition, Expected
  <2>4. CASE UNCHANGED voiceVars
    BY <2>4 DEF voiceVars, VoiceInv, VoiceTypeOK, ReadsAreFresh, StartedHasLeft
  <2> QED
    BY <2>1, <2>2, <2>3, <2>4, WriteRecordStep, VoiceOtherSteps DEF VoiceNext
<1>3. VoiceInv => OneStart
  BY DEF VoiceInv, VoiceTypeOK, StartedHasLeft, OneStart
<1> QED
  BY <1>1, <1>2, <1>3, PTL DEF VoiceSpec

-----------------------------------------------------------------------------
(* The lists of tasks *)

ListTypeOK ==
  /\ scope \in Scopes
  /\ rows \in [ListTasks -> [belongs : BOOLEAN, shape : Shapes]]
  /\ cursor \in 1..LastTask + 1
  /\ walking \in BOOLEAN
  /\ steady \in SUBSET ListTasks

\* The cursor parts the tasks that were listed from those that are to come.
CursorParts == \A i \in listed : i \in ListTasks /\ i >= cursor

\* What has been in the list all the time and is behind the cursor was shown.
ShownBehind ==
  /\ \A i \in steady : rows[i].belongs
  /\ scope # "manager_inbox" =>
       \A i \in steady : i >= cursor => i \in shown \/ (scope = "focus" /\ Closed(rows[i].shape))

\* Nothing that has been in the list all the time is left when the walk is over.
NothingAhead == ~walking => \A i \in steady : i >= cursor

ListInv == ListTypeOK /\ ~repeated /\ CursorParts /\ ShownBehind /\ NothingAhead

\* A set of naturals has a least element.
LEMMA LeastOf ==
  ASSUME NEW T \in SUBSET Nat, T # {}
  PROVE  \E x \in T : \A y \in T : x <= y
<1>1. PICK x \in T : \A y \in T : ~ (<<y, x>> \in OpToRel(<, Nat))
  BY NatLessThanWellFounded, WFMin
<1>2. ASSUME NEW y \in T PROVE x <= y
  <2>1. ~ (<<y, x>> \in OpToRel(<, Nat))
    BY <1>1
  <2>2. ~ (y < x)
    BY <2>1 DEF OpToRel
  <2> QED
    BY <2>2
<1> QED
  BY <1>2

\* A bounded set of naturals has a greatest element.
LEMMA GreatestOf ==
  ASSUME NEW T \in SUBSET ListTasks, T # {}
  PROVE  \E x \in T : \A y \in T : y <= x
<1> USE ListsAssumption DEF ListTasks
<1> DEFINE U == {LastTask - i : i \in T}
<1>0. \A i \in T : i \in Nat /\ i <= LastTask /\ LastTask - i \in Nat
  OBVIOUS
<1>1. U \in SUBSET Nat /\ U # {}
  BY <1>0
<1>2. PICK u \in U : \A v \in U : u <= v
  BY <1>1, LeastOf
<1>3. PICK x \in T : u = LastTask - x
  OBVIOUS
<1>4. ASSUME NEW y \in T PROVE y <= x
  <2>1. LastTask - x <= LastTask - y
    BY <1>2, <1>3
  <2> QED
    BY <2>1, <1>0, <1>3
<1> QED
  BY <1>4

\* A page is empty only when nothing is left.
LEMMA SomeOnPage ==
  ASSUME NEW S \in SUBSET ListTasks, S # {}
  PROVE  Greatest(PageSize, S) # {}
<1>1. PICK x \in S : \A y \in S : y <= x
  BY GreatestOf
<1>2. {j \in S : j > x} = {}
  <2>1. \A y \in S : y \in Nat
    BY ListsAssumption DEF ListTasks
  <2> QED
    BY <1>1, <2>1
<1>3. Cardinality({j \in S : j > x}) < PageSize
  BY <1>2, FS_EmptySet, ListsAssumption
<1> QED
  BY <1>3 DEF Greatest

\* A page passes nothing over.
LEMMA PageIsUpward ==
  ASSUME NEW S \in SUBSET ListTasks, NEW i \in Greatest(PageSize, S), NEW j \in S, i <= j
  PROVE  j \in Greatest(PageSize, S)
<1> DEFINE Above(n) == {k \in S : k > n}
<1>1. IsFiniteSet(ListTasks)
  BY FS_Interval, ListsAssumption DEF ListTasks
<1>2. IsFiniteSet(Above(i)) /\ IsFiniteSet(Above(j))
  BY <1>1, FS_Subset
<1>3. Above(j) \subseteq Above(i)
  <2>1. i \in Nat /\ j \in Nat /\ \A k \in S : k \in Nat
    BY ListsAssumption DEF Greatest, ListTasks
  <2>2. ASSUME NEW k \in S, k > j PROVE k > i
    BY <2>1, <2>2
  <2> QED
    BY <2>2
<1>4. Cardinality(Above(j)) <= Cardinality(Above(i))
  BY <1>2, <1>3, FS_Subset
<1>5. Cardinality(Above(j)) \in Nat /\ Cardinality(Above(i)) \in Nat
  BY <1>2, FS_CardinalityType
<1>6. Cardinality(Above(i)) < PageSize
  BY DEF Greatest
<1>7. Cardinality(Above(j)) < PageSize
  BY <1>4, <1>5, <1>6, ListsAssumption
<1> QED
  BY <1>7 DEF Greatest

\* A page of any list but the inbox has a heading for each of its tasks, but for closed ones in the
\* list of what to do now.
LEMMA HasHeading ==
  ASSUME NEW t \in ShapeType, scope \in Scopes \ {"manager_inbox"}
  PROVE  InASection(t) \/ (scope = "focus" /\ Closed(t))
BY DEF InASection, New, Attention, Closed, ShapeType, Scopes

\* A page is the tasks of the list from the new cursor to the old one.
LEMMA PageParts ==
  ASSUME ListTypeOK
  PROVE  /\ Page \subseteq ListTasks
         /\ \A i \in Page : i < cursor
         /\ Page = {} => \A i \in Belonging : i >= cursor
         /\ Page # {} =>
              LET least == CHOOSE i \in Page : \A j \in Page : i <= j
              IN  /\ least \in Page
                  /\ \A j \in Page : least <= j
                  /\ \A i \in Belonging : i < cursor /\ least <= i => i \in Page
<1> DEFINE ahead == {i \in Belonging : i < cursor}
<1>1. ahead \in SUBSET ListTasks /\ Page \subseteq ahead /\ Page = Greatest(PageSize, ahead)
  BY DEF Page, Belonging, Greatest
<1>2. ListTasks \subseteq Nat /\ cursor \in Nat
  BY ListsAssumption DEF ListTasks, ListTypeOK
<1>3. Page = {} => \A i \in Belonging : i >= cursor
  <2> SUFFICES ASSUME Page = {}, NEW i \in Belonging PROVE i >= cursor
    OBVIOUS
  <2>1. i \notin ahead /\ i \in Nat
    BY <1>1, <1>2, SomeOnPage DEF Belonging
  <2> QED
    BY <2>1, <1>2
<1>4. ASSUME Page # {}
      PROVE  LET least == CHOOSE i \in Page : \A j \in Page : i <= j
             IN  /\ least \in Page
                 /\ \A j \in Page : least <= j
                 /\ \A i \in Belonging : i < cursor /\ least <= i => i \in Page
  <2> DEFINE least == CHOOSE i \in Page : \A j \in Page : i <= j
  <2>1. \E i \in Page : \A j \in Page : i <= j
    BY <1>1, <1>2, <1>4, LeastOf
  <2>2. least \in Page /\ \A j \in Page : least <= j
    BY <2>1
  <2>3. \A i \in Belonging : i < cursor /\ least <= i => i \in Page
    BY <1>1, <2>2, PageIsUpward
  <2> QED
    BY <2>2, <2>3
<1> QED
  BY <1>1, <1>3, <1>4

\* A page shows what is ahead of the cursor once, and moves the cursor past it.
LEMMA ShowPageStep ==
  ASSUME ListInv, ShowPage
  PROVE  ListInv'
<1> USE ListsAssumption
<1>0. /\ ListTypeOK /\ ListTasks \subseteq Nat /\ cursor \in Nat /\ listed \subseteq ListTasks
      /\ UNCHANGED <<scope, rows, steady>>
  BY DEF ListInv, ListTypeOK, ListTasks, CursorParts, ShowPage
<1>1. ~repeated'
  <2>1. ASSUME NEW i \in listed PROVE i \notin Page
    <3>1. i >= cursor /\ i \in Nat
      BY <1>0, <2>1 DEF ListInv, CursorParts
    <3>2. i \in Page => i < cursor
      BY <1>0, PageParts
    <3> QED
      BY <1>0, <3>1, <3>2
  <2> QED
    BY <2>1 DEF ShowPage, ListInv
<1>2. \A i \in steady : i \in Belonging
  BY <1>0 DEF ListInv, ListTypeOK, ShownBehind, Belonging
<1>3. CASE Page = {}
  <2>1. cursor' = cursor /\ listed' = listed /\ shown' = shown /\ walking' = FALSE
    BY <1>3 DEF ShowPage
  <2>2. \A i \in steady : i >= cursor
    BY <1>0, <1>2, <1>3, PageParts
  <2> QED
    BY <1>0, <1>1, <2>1, <2>2 DEF ListInv, ListTypeOK, CursorParts, ShownBehind, NothingAhead
<1>4. CASE Page # {}
  <2>1. /\ cursor' \in Page
        /\ \A j \in Page : cursor' <= j
        /\ \A i \in Belonging : i < cursor /\ cursor' <= i => i \in Page
    BY <1>0, <1>4, PageParts DEF ShowPage
  <2>2. cursor' \in ListTasks /\ cursor' < cursor
    BY <1>0, <2>1, PageParts
  <2>3. listed' = listed \cup Page /\ walking' = TRUE
    BY <1>4 DEF ShowPage
  <2>4. ListTypeOK'
    BY <1>0, <2>2, <2>3 DEF ListTypeOK, ListTasks
  <2>5. CursorParts'
    BY <1>0, <2>1, <2>2, <2>3, PageParts DEF ListInv, CursorParts
  <2>6. ShownBehind'
    <3> SUFFICES ASSUME scope # "manager_inbox", NEW i \in steady, i >= cursor'
                 PROVE  i \in shown' \/ (scope = "focus" /\ Closed(rows[i].shape))
      BY <1>0 DEF ListInv, ShownBehind, Closed
    <3>1. CASE i >= cursor
      BY <3>1 DEF ListInv, ShownBehind, ShowPage
    <3>2. CASE i < cursor
      <4>1. i \in Page
        BY <1>2, <2>1, <3>2
      <4>2. rows[i].shape \in ShapeType /\ scope \in Scopes \ {"manager_inbox"}
        BY <1>0, <4>1, PageParts DEF ListTypeOK
      <4> QED
        BY <4>1, <4>2, HasHeading DEF ShowPage
    <3> QED
      BY <1>0, <3>1, <3>2 DEF ListTypeOK
  <2>7. NothingAhead'
    BY <2>3 DEF NothingAhead
  <2> QED
    BY <1>1, <2>4, <2>5, <2>6, <2>7 DEF ListInv
<1> QED
  BY <1>3, <1>4

\* A task that changes between two pages is out of the count, or still where it was.
LEMMA MoveStep ==
  ASSUME ListInv, NEW i \in ListTasks, Move(i)
  PROVE  ListInv'
<1>1. PICK now \in [belongs : BOOLEAN, shape : Shapes] : rows' = [rows EXCEPT ![i] = now]
  BY DEF Move
<1>2. steady' = steady \ {i} /\ UNCHANGED <<scope, cursor, walking, listed, repeated, shown>>
  BY DEF Move
<1>3. /\ rows' \in [ListTasks -> [belongs : BOOLEAN, shape : Shapes]]
      /\ \A j \in ListTasks \ {i} : rows'[j] = rows[j]
  BY <1>1 DEF ListInv, ListTypeOK
<1>4. ListTypeOK'
  BY <1>2, <1>3 DEF ListInv, ListTypeOK
<1>5. steady \subseteq ListTasks
  BY DEF ListInv, ListTypeOK
<1>6. ShownBehind'
  BY <1>2, <1>3, <1>5 DEF ListInv, ShownBehind, Closed
<1> QED
  BY <1>2, <1>4, <1>6 DEF ListInv, CursorParts, NothingAhead

\* A walk through the pages of a list shows what was in the list all the time, and nothing twice,
\* whatever other tasks come, go and change meanwhile (list_tasks.rs, the cursor of task_repository).
THEOREM ListsAreWhole == ListSpec => []ListedExactlyOnce
<1>1. ListInit => ListInv
  <2> SUFFICES ASSUME ListInit PROVE ListInv
    OBVIOUS
  <2>1. ListTypeOK /\ steady \subseteq ListTasks
    BY ListsAssumption DEF ListInit, ListTypeOK
  <2>2. \A i \in steady : rows[i].belongs /\ ~(i >= cursor)
    BY ListsAssumption DEF ListInit, ListTasks
  <2> QED
    BY <2>1, <2>2 DEF ListInit, ListInv, CursorParts, ShownBehind, NothingAhead
<1>2. ListInv /\ [ListNext]_listVars => ListInv'
  <2>1. CASE UNCHANGED listVars
    BY <2>1 DEF listVars, ListInv, ListTypeOK, CursorParts, ShownBehind, NothingAhead, Closed
  <2> QED
    BY <2>1, ShowPageStep, MoveStep DEF ListNext
<1>3. ListInv => ListedExactlyOnce
  BY DEF ListInv, NothingAhead, ShownBehind, ListedExactlyOnce
<1> QED
  BY <1>1, <1>2, <1>3, PTL DEF ListSpec

-----------------------------------------------------------------------------
(* The data of the buttons *)

\* The forms that encode_callback writes.
WrittenForms == BareForms \cup IdForms \cup TaskForms

\* What is read of a part that was written for an argument is the argument.
LEMMA ReadsWhatIsWritten ==
  ASSUME NEW arg \in {"origin", "mode", "status", "field", "role", "cursor", "task", "number",
                      "nonce", "flag"},
         NEW value \in Values(arg)
  PROVE  Read(arg, Code(arg, value)) = {value}
<1>1. CASE arg = "origin"
  <2>1. value \in DOMAIN OriginCode
    BY <1>1 DEF Values
  <2>2. OriginCode[value] \in DOMAIN OriginName /\ OriginName[OriginCode[value]] = value
    BY <2>1 DEF OriginCode, OriginName
  <2> QED  BY <1>1, <2>2 DEF Read, Code
<1>2. CASE arg = "mode"
  <2>1. value \in DOMAIN ModeCode
    BY <1>2 DEF Values
  <2>2. ModeCode[value] \in DOMAIN ModeName /\ ModeName[ModeCode[value]] = value
    BY <2>1 DEF ModeCode, ModeName
  <2> QED  BY <1>2, <2>2 DEF Read, Code
<1>3. CASE arg = "status"
  <2>1. value \in DOMAIN StatusCode
    BY <1>3 DEF Values
  <2>2. StatusCode[value] \in DOMAIN StatusName /\ StatusName[StatusCode[value]] = value
    BY <2>1 DEF StatusCode, StatusName
  <2> QED  BY <1>3, <2>2 DEF Read, Code
<1>4. CASE arg = "field"
  <2>1. value \in DOMAIN FieldCode
    BY <1>4 DEF Values
  <2>2. FieldCode[value] \in DOMAIN FieldName /\ FieldName[FieldCode[value]] = value
    BY <2>1 DEF FieldCode, FieldName
  <2> QED  BY <1>4, <2>2 DEF Read, Code
<1>5. CASE arg = "role"
  <2>1. value \in DOMAIN RoleCode
    BY <1>5 DEF Values
  <2>2. RoleCode[value] \in DOMAIN RoleName /\ RoleName[RoleCode[value]] = value
    BY <2>1 DEF RoleCode, RoleName
  <2> QED  BY <1>5, <2>2 DEF Read, Code
<1>6. CASE arg = "cursor"
  <2>1. value \in TaskUids \cup {NoCursor}
    BY <1>6 DEF Values
  <2> QED  BY <1>6, <2>1, CursorAssumption DEF Read, Code
<1>7. CASE arg \in {"task", "number"}
  BY <1>7 DEF Values, Read, Code
<1>8. CASE arg \in {"nonce", "flag"}
  BY <1>8 DEF Values, Read, Code
<1> QED  BY <1>1, <1>2, <1>3, <1>4, <1>5, <1>6, <1>7, <1>8

\* The words and arguments of the forms.
LEMMA WordsShape ==
  ASSUME NEW group, NEW words, NEW kinds, NEW f \in Words(group, words, kinds)
  PROVE  f.words = <<group, f.words[2]>> /\ f.args = <<>> /\ DOMAIN f = {"kind", "words", "args"}
<1>1. PICK i \in DOMAIN words : f = Form(kinds[i], <<group, words[i]>>, <<>>)
  BY DEF Words
<1> QED  BY <1>1 DEF Form

\* The forms without arguments,
LEMMA BareShape ==
  ASSUME NEW f \in BareForms
  PROVE  /\ f.words = <<f.words[1], f.words[2]>> /\ f.words[1] \in {"m", "c", "d", "a"}
         /\ f.args = <<>>
<1>1. \E group \in {"m", "c", "d", "a"} : f.words = <<group, f.words[2]>> /\ f.args = <<>>
  BY WordsShape DEF BareForms
<1> QED  BY <1>1

\* with a number, a field, a nonce or a flag,
LEMMA IdShape ==
  ASSUME NEW f \in IdForms
  PROVE  /\ f.words = <<f.words[1], f.words[2]>> /\ f.words[1] \in {"c", "d", "a"}
         /\ f.args \in {<<"number">>, <<"field">>, <<"number", "role">>, <<"nonce">>, <<"flag">>}
BY DEF IdForms, Form

\* and of a task.
LEMMA TaskShape ==
  ASSUME NEW f \in TaskForms
  PROVE  \/ f = Form("ListTasks", <<"l">>, <<"origin", "cursor">>)
         \/ /\ f.words = <<f.words[1], f.words[2]>> /\ f.words[1] \in {"t", "i"}
            /\ f.args \in {<<"origin", "task">>, <<"origin", "task", "mode">>, <<"origin", "task", "status">>}
BY DEF TaskForms, Form

\* Within a family the kind and the words tell a form: the forms without arguments,
LEMMA BareKinds ==
  ASSUME NEW f \in BareForms, NEW g \in BareForms, f.kind = g.kind \/ f.words = g.words
  PROVE  f = g
BY DEF BareForms, Words, Form

\* with a number, a field, a nonce or a flag,
LEMMA IdKinds ==
  ASSUME NEW f \in IdForms, NEW g \in IdForms, f.kind = g.kind \/ f.words = g.words
  PROVE  f = g
BY DEF IdForms, Form

\* and of a task.
LEMMA TaskKinds ==
  ASSUME NEW f \in TaskForms, NEW g \in TaskForms, f.kind = g.kind \/ f.words = g.words
  PROVE  f = g
BY DEF TaskForms, Form

\* The forms that are written have each their kind, and are read.
LEMMA KindsDiffer ==
  ASSUME NEW f \in WrittenForms, NEW g \in WrittenForms, f.kind = g.kind
  PROVE  f = g
<1> DEFINE BareKind == {"MenuHome", "MenuHelp", "MenuSettings", "MenuStats", "MenuTeamStats",
                 "MenuCreate", "MenuSyncEmployees", "StartQuickCreate", "StartGuidedCreate", "VoiceCreateConfirm",
                      "VoiceCreateEdit", "VoiceCreateBack", "VoiceCreateCancel",
                      "RegistrationContinueUnlinked", "ClarificationCreateUnassigned",
                      "DraftSkipAssignee", "DraftSkipDeadline", "DraftSubmit",
                      "AdminMenu", "AdminUsers", "AdminCancelPending", "AdminAudit",
                      "AdminSecurityAudit", "AdminFeatures"}
           IdKind == {"RegistrationPickEmployee", "ClarificationPickEmployee", "GuidedAssigneeConfirm",
                      "DraftEdit", "AdminUserDetails", "AdminUserPrepareRoleChange",
                      "AdminUserPrepareDeactivate", "AdminUserPrepareReactivate",
                      "AdminConfirmNonce", "AdminToggleFeature"}
<1>1. \A h \in BareForms : h.kind \in BareKind
  BY DEF BareForms, Words, Form
<1>2. \A h \in IdForms : h.kind \in IdKind
  BY DEF IdForms, Form
<1>3. \A h \in TaskForms : h.kind \notin BareKind \cup IdKind
  BY DEF TaskForms, Form
<1>4. BareKind \cap IdKind = {}
  OBVIOUS
<1> HIDE DEF BareKind, IdKind
<1> QED  BY <1>1, <1>2, <1>3, <1>4, BareKinds, IdKinds, TaskKinds DEF WrittenForms

\* What is written is read.
LEMMA WrittenIsRead == WrittenForms \subseteq ModernForms
BY DEF WrittenForms, ModernForms, TaskForms

\* The forms that are read and not written: a card without a mode.
LEMMA ModernShape ==
  ASSUME NEW f \in ModernForms
  PROVE  f \in WrittenForms \/ f = Form("OpenTask", <<"t", "open">>, <<"origin", "task">>)
BY DEF WrittenForms, ModernForms, TaskForms

CardForm == Form("OpenTask", <<"t", "open">>, <<"origin", "task">>)

ListForm == Form("ListTasks", <<"l">>, <<"origin", "cursor">>)

ArgNames == {"origin", "mode", "status", "field", "role", "cursor", "task", "number", "nonce", "flag"}

ArgLists ==
  {<<>>, <<"number">>, <<"field">>, <<"number", "role">>, <<"nonce">>, <<"flag">>,
   <<"origin", "cursor">>, <<"origin", "task">>, <<"origin", "task", "mode">>,
   <<"origin", "task", "status">>}

\* A form has at most three arguments.
LEMMA ArgListFacts ==
  ASSUME NEW args \in ArgLists
  PROVE  /\ Len(args) \in 0..3 /\ DOMAIN args = 1..Len(args)
         /\ \A i \in DOMAIN args : args[i] \in ArgNames
BY DEF ArgLists, ArgNames

\* Of the forms written, only the list has one word.
LEMMA WrittenShape ==
  ASSUME NEW f \in WrittenForms
  PROVE  /\ f = ListForm \/ (f.words = <<f.words[1], f.words[2]>> /\ f.words[1] # "l")
         /\ f.args \in ArgLists
<1>1. CASE f \in BareForms
  BY <1>1, BareShape DEF ArgLists
<1>2. CASE f \in IdForms
  BY <1>2, IdShape DEF ArgLists
<1>3. CASE f \in TaskForms
  BY <1>3, TaskShape DEF ArgLists, ListForm, Form
<1> QED  BY <1>1, <1>2, <1>3 DEF WrittenForms

\* So it is of the forms read.
LEMMA FormShape ==
  ASSUME NEW f \in ModernForms
  PROVE  /\ f = ListForm \/ (f.words = <<f.words[1], f.words[2]>> /\ f.words[1] # "l")
         /\ f.args \in ArgLists
BY WrittenShape, ModernShape DEF Form, ArgLists

\* The form of the list.
LEMMA ListFacts ==
  /\ ListForm.words = <<"l">> /\ Len(ListForm.words) = 1 /\ ListForm.words[1] = "l"
  /\ ListForm.kind = "ListTasks" /\ ListForm.args = <<"origin", "cursor">>
BY DEF ListForm, Form

\* The words of a form and the number of its arguments tell it from the others.
LEMMA WordsDiffer ==
  ASSUME NEW f \in WrittenForms, NEW g \in ModernForms, f.words = g.words, Len(f.args) = Len(g.args)
  PROVE  f = g
<1>1. \A h \in BareForms : h.words[1] \in {"m", "c", "d", "a"} /\ Len(h.args) = 0
  BY BareShape
<1>2. \A h \in IdForms : h.words[1] \in {"c", "d", "a"} /\ Len(h.args) \in {1, 2}
  BY IdShape
<1>3. \A h \in TaskForms : h.words[1] \in {"l", "t", "i"}
  BY TaskShape, ListFacts DEF ListForm
<1>4. ASSUME f \in TaskForms, f.words = <<"t", "open">> PROVE Len(f.args) = 3
  BY <1>4 DEF TaskForms, Form
<1>5. CardForm.words = <<"t", "open">> /\ CardForm.words[1] = "t" /\ Len(CardForm.args) = 2
  BY DEF CardForm, Form
<1>6. CASE g \in WrittenForms
  BY <1>1, <1>2, <1>3, <1>6, BareKinds, IdKinds, TaskKinds DEF WrittenForms
<1>7. CASE g = CardForm
  <2>1. f.words = <<"t", "open">> /\ f.words[1] = "t" /\ Len(f.args) = 2
    BY <1>5, <1>7
  <2> QED  BY <1>1, <1>2, <1>4, <2>1 DEF WrittenForms
<1> QED  BY <1>6, <1>7, ModernShape DEF CardForm

\* A form has one word or two.
LEMMA WordsLength ==
  ASSUME NEW f \in ModernForms
  PROVE  Len(f.words) \in {1, 2} /\ (f # ListForm => Len(f.words) = 2) /\ Len(f.args) \in Nat
<1>1. Len(f.args) \in Nat
  BY FormShape, ArgListFacts
<1>2. CASE f = ListForm
  BY <1>1, <1>2, ListFacts
<1>3. CASE f # ListForm
  <2> DEFINE a == f.words[1]
             b == f.words[2]
  <2>1. f.words = <<a, b>>
    BY <1>3, FormShape
  <2> HIDE DEF a, b
  <2>2. Len(<<a, b>>) = 2
    OBVIOUS
  <2> QED  BY <1>1, <2>1, <2>2
<1> QED  BY <1>2, <1>3

\* The parts the arguments are written as.
Coded(f, v) == [i \in DOMAIN f.args |-> Code(f.args[i], v[f.args[i]])]

\* Two sequences joined, place by place.
LEMMA JoinFacts ==
  ASSUME NEW R, NEW words \in Seq(R), NEW rest \in Seq(R)
  PROVE  /\ Len(words \o rest) = Len(words) + Len(rest)
         /\ \A i \in 1..Len(words) : (words \o rest)[i] = words[i]
         /\ \A i \in 1..Len(rest) : (words \o rest)[Len(words) + i] = rest[i]
         /\ SubSeq(words \o rest, 1, Len(words)) = words
<1>1. Len(words) \in Nat /\ Len(rest) \in Nat
  BY LenProperties
<1>2. /\ Len(words \o rest) = Len(words) + Len(rest)
      /\ \A i \in 1..Len(words) + Len(rest) :
           (words \o rest)[i] = IF i <= Len(words) THEN words[i] ELSE rest[i - Len(words)]
  BY ConcatProperties
<1> DEFINE data == words \o rest
<1> HIDE DEF data
<1>3. \A i \in 1..Len(words) : data[i] = words[i]
  BY <1>1, <1>2 DEF data
<1>4. \A i \in 1..Len(rest) : data[Len(words) + i] = rest[i]
  <2> TAKE i \in 1..Len(rest)
  <2>1. Len(words) + i \in 1..Len(words) + Len(rest) /\ ~(Len(words) + i <= Len(words))
        /\ Len(words) + i - Len(words) = i
    BY <1>1
  <2> QED  BY <1>2, <2>1 DEF data
<1>5. SubSeq(data, 1, Len(words)) = words
  <2>1. \A i \in 1..Len(words) : data[i] \in R
    BY <1>1, <1>3, ElementOfSeq
  <2>2. /\ SubSeq(data, 1, Len(words)) \in Seq(R)
        /\ Len(SubSeq(data, 1, Len(words))) = Len(words)
        /\ \A i \in 1..Len(words) : SubSeq(data, 1, Len(words))[i] = data[i]
    BY <1>1, <2>1, SubSeqProperties
  <2> QED  BY <1>3, <2>2, SeqEqual
<1> QED  BY <1>2, <1>3, <1>4, <1>5 DEF data

\* The data of a callback: its words, and its arguments as they are written.
Data(f, v) == f.words \o Coded(f, v)

\* The data of a callback, place by place.
LEMMA DataFacts ==
  ASSUME NEW f \in WrittenForms, NEW v
  PROVE  /\ Len(f.words) \in {1, 2} /\ DOMAIN f.args = 1..Len(f.args) /\ Len(f.args) \in Nat
         /\ Len(Data(f, v)) = Len(f.words) + Len(f.args)
         /\ \A i \in 1..Len(f.words) : Data(f, v)[i] = f.words[i]
         /\ \A i \in 1..Len(f.args) : Data(f, v)[Len(f.words) + i] = Code(f.args[i], v[f.args[i]])
         /\ SubSeq(Data(f, v), 1, Len(f.words)) = f.words
<1> DEFINE rest == Coded(f, v)
           R == {rest[i] : i \in DOMAIN f.args} \cup {f.words[1], f.words[2], "l"}
           n == Len(f.args)
<1>1. DOMAIN f.args = 1..n /\ n \in Nat
  BY WrittenShape, ArgListFacts
<1>2. rest \in [1..n -> R] /\ \A i \in 1..n : rest[i] = Code(f.args[i], v[f.args[i]])
  BY <1>1 DEF Coded
<1>3. f.words[1] \in R /\ f.words[2] \in R /\ "l" \in R
  OBVIOUS
<1> HIDE DEF R, rest, n
<1>4. rest \in Seq(R)
  BY <1>1, <1>2, SeqDef
<1>5. Len(rest) = n
  <2>1. DOMAIN rest = 1..n /\ DOMAIN rest = 1..Len(rest) /\ Len(rest) \in Nat
    BY <1>2, <1>4, LenProperties
  <2> QED  BY <1>1, <2>1
<1>6. f.words \in Seq(R) /\ Len(f.words) \in {1, 2}
  <2>1. CASE f = ListForm
    BY <1>3, <2>1, ListFacts
  <2>2. CASE f.words = <<f.words[1], f.words[2]>>
    <3> DEFINE a == f.words[1]
               b == f.words[2]
    <3>1. a \in R /\ b \in R
      BY <1>3
    <3> HIDE DEF a, b
    <3>2. <<a, b>> \in Seq(R) /\ Len(<<a, b>>) = 2
      BY <3>1
    <3> QED  BY <2>2, <3>2 DEF a, b
  <2> QED  BY <2>1, <2>2, WrittenShape
<1> DEFINE words == f.words
<1> HIDE DEF words
<1>7. /\ Len(words \o rest) = Len(words) + n
      /\ \A i \in 1..Len(words) : (words \o rest)[i] = words[i]
      /\ \A i \in 1..n : (words \o rest)[Len(words) + i] = rest[i]
      /\ SubSeq(words \o rest, 1, Len(words)) = words
  BY <1>4, <1>5, <1>6, JoinFacts DEF words
<1>8. Data(f, v) = words \o rest
  BY DEF Data, words, rest
<1> QED  BY <1>1, <1>2, <1>6, <1>7, <1>8 DEF words, n

\* The forms that data fit.
Fits(g, data) == Len(data) = Len(g.words) + Len(g.args) /\ SubSeq(data, 1, Len(g.words)) = g.words

\* The first places of a sequence, place by place.
LEMMA SubSeqFacts ==
  ASSUME NEW data, NEW words, NEW n \in Nat, SubSeq(data, 1, n) = words
  PROVE  \A i \in 1..n : words[i] = data[i]
<1> DEFINE R == {data[i] : i \in 1..n}
<1>1. \A i \in 1..n : data[i] \in R
  OBVIOUS
<1> HIDE DEF R
<1> QED  BY <1>1, SubSeqProperties

\* The first place of a sequence of one or two.
LEMMA FirstPlace ==
  ASSUME NEW n \in {1, 2}
  PROVE  1 \in 1..n
<1>1. n = 1 \/ n = 2
  OBVIOUS
<1>2. 1 \in 1..1 /\ 1 \in 1..2
  OBVIOUS
<1> QED  BY <1>1, <1>2

\* The words and the number of the parts tell the forms apart, and the first word tells
\* them from the forms of earlier versions.
LEMMA OnlyItselfFits ==
  ASSUME NEW f \in WrittenForms, NEW v
  PROVE  /\ {g \in ModernForms : Fits(g, Data(f, v))} = {f}
         /\ {g \in LegacyForms : Fits(g, Data(f, v))} = {}
<1> DEFINE data == Data(f, v)
<1>1. /\ Len(f.words) \in {1, 2} /\ Len(f.args) \in Nat
      /\ Len(data) = Len(f.words) + Len(f.args)
      /\ \A i \in 1..Len(f.words) : data[i] = f.words[i]
      /\ SubSeq(data, 1, Len(f.words)) = f.words
  BY DataFacts
<1> HIDE DEF data
<1>2. f \in ModernForms /\ Fits(f, data)
  BY <1>1, WrittenIsRead DEF Fits
<1>3. ASSUME NEW g \in ModernForms, Fits(g, data) PROVE g = f
  <2>1. Len(g.words) \in {1, 2} /\ Len(g.args) \in Nat /\ Len(f.args) \in Nat
        /\ (g = ListForm \/ (g.words = <<g.words[1], g.words[2]>> /\ g.words[1] # "l"))
        /\ (f = ListForm \/ (f.words = <<f.words[1], f.words[2]>> /\ f.words[1] # "l"))
    BY FormShape, WrittenShape, WrittenIsRead, WordsLength
  <2>2. \A i \in 1..Len(g.words) : g.words[i] = data[i]
    <3> DEFINE n == Len(g.words)
               words == g.words
    <3>1. n \in Nat
      BY <2>1
    <3>3. SubSeq(data, 1, n) = words
      BY <1>3 DEF Fits
    <3> HIDE DEF n, words
    <3>2. \A i \in 1..n : words[i] = data[i]
      BY <3>1, <3>3, SubSeqFacts
    <3> QED  BY <3>2 DEF n, words
  <2>3. g.words[1] = f.words[1]
    <3>1. 1 \in 1..Len(g.words) /\ 1 \in 1..Len(f.words)
      BY <1>1, <2>1, FirstPlace
    <3>2. g.words[1] = data[1] /\ data[1] = f.words[1]
      BY <1>1, <2>2, <3>1
    <3> QED  BY <3>2
  <2>4. CASE f = ListForm \/ g = ListForm
    BY <2>1, <2>3, <2>4, ListFacts
  <2>5. CASE f # ListForm /\ g # ListForm
    <3>1. Len(f.words) = 2 /\ Len(g.words) = 2
      BY <2>5, WordsLength, WrittenIsRead
    <3>2. g.words[2] = f.words[2]
      BY <1>1, <2>2, <3>1
    <3>3. g.words = f.words
      BY <2>1, <2>3, <2>5, <3>2
    <3>4. Len(g.args) = Len(f.args)
      BY <1>1, <1>3, <2>1, <3>1 DEF Fits
    <3> QED  BY <3>3, <3>4, WordsDiffer
  <2> QED  BY <2>4, <2>5
<1>4. ASSUME NEW g \in LegacyForms, Fits(g, data) PROVE FALSE
  <2>1. Len(g.words) = 1 /\ g.words[1] \in {"status", "open", "block"}
    BY DEF LegacyForms, Form
  <2>2. g.words[1] = data[1]
    BY <1>4, <2>1, SubSeqFacts DEF Fits
  <2>3. f.words[1] \in {"m", "c", "d", "a", "l", "t", "i"}
    BY BareShape, IdShape, TaskShape, ListFacts DEF WrittenForms, ListForm
  <2>4. 1 \in 1..Len(f.words)
    BY <1>1, FirstPlace
  <2>5. data[1] = f.words[1]
    BY <1>1, <2>4
  <2> QED  BY <2>1, <2>2, <2>3, <2>5
<1>5. {g \in ModernForms : Fits(g, data)} = {f} /\ {g \in LegacyForms : Fits(g, data)} = {}
  BY <1>2, <1>3, <1>4
<1> QED  BY <1>5 DEF data

\* What comes of the data, once it is known what fits.
LEMMA ReadsBack ==
  ASSUME NEW f \in WrittenForms, NEW v \in [ArgSet(f.args) -> UNION {Values(a) : a \in ArgSet(f.args)}],
         \A a \in ArgSet(f.args) : v[a] \in Values(a)
  PROVE  ReadBy(ModernForms, Data(f, v)) = {[kind |-> f.kind, args |-> v]}
         /\ ReadBy(LegacyForms, Data(f, v)) = {}
<1> DEFINE data == Data(f, v)
           Part(g, i) == data[Len(g.words) + i]
           Carried(g) == {w \in [ArgSet(g.args) -> UNION {Read(g.args[i], Part(g, i)) : i \in DOMAIN g.args}] :
                            \A i \in DOMAIN g.args : w[g.args[i]] \in Read(g.args[i], Part(g, i))}
           Whole(g, w) == LET given == DOMAIN Given(g.kind)
                              known == IF "task" \in DOMAIN w THEN DOMAIN w \cup given ELSE DOMAIN w
                          IN  [a \in known |-> IF a \in DOMAIN w THEN w[a] ELSE Given(g.kind)[a]]
<1>1. /\ {g \in ModernForms : Fits(g, data)} = {f}
      /\ {g \in LegacyForms : Fits(g, data)} = {}
  BY OnlyItselfFits
<1>2. /\ DOMAIN f.args = 1..Len(f.args)
      /\ \A i \in DOMAIN f.args : data[Len(f.words) + i] = Code(f.args[i], v[f.args[i]])
  <2>1. /\ DOMAIN f.args = 1..Len(f.args)
        /\ \A i \in 1..Len(f.args) : data[Len(f.words) + i] = Code(f.args[i], v[f.args[i]])
    BY DataFacts
  <2> QED  BY <2>1
<1>3. \A i \in DOMAIN f.args : Read(f.args[i], Part(f, i)) = {v[f.args[i]]}
  <2> TAKE i \in DOMAIN f.args
  <2>1. f.args[i] \in ArgNames /\ v[f.args[i]] \in Values(f.args[i])
    BY WrittenShape, ArgListFacts DEF ArgSet
  <2> DEFINE arg == f.args[i]
             value == v[arg]
  <2>2. Part(f, i) = Code(arg, value) /\ arg \in ArgNames /\ value \in Values(arg)
    BY <1>2, <2>1
  <2> HIDE DEF arg, value, Part
  <2>3. Read(arg, Code(arg, value)) = {value}
    BY <2>2, ReadsWhatIsWritten DEF ArgNames
  <2> QED  BY <2>2, <2>3 DEF arg, value
<1>4. ReadBy(ModernForms, data) = UNION {{[kind |-> g.kind, args |-> Whole(g, w)] : w \in Carried(g)} : g \in {h \in ModernForms : Fits(h, data)}}
  BY DEF ReadBy, Fits
<1>5. ReadBy(LegacyForms, data) = UNION {{[kind |-> g.kind, args |-> Whole(g, w)] : w \in Carried(g)} : g \in {h \in LegacyForms : Fits(h, data)}}
  BY DEF ReadBy, Fits
<1> HIDE DEF data
<1>6. Carried(f) = {v}
  <2>1. v \in Carried(f)
    BY <1>3 DEF ArgSet
  <2>2. ASSUME NEW w \in Carried(f) PROVE w = v
    <3>1. \A i \in DOMAIN f.args : w[f.args[i]] = v[f.args[i]]
      BY <1>3
    <3>2. \A a \in ArgSet(f.args) : w[a] = v[a]
      BY <3>1 DEF ArgSet
    <3>3. DOMAIN w = ArgSet(f.args) /\ w = [a \in ArgSet(f.args) |-> w[a]]
      OBVIOUS
    <3>4. v = [a \in ArgSet(f.args) |-> v[a]]
      OBVIOUS
    <3> QED  BY <3>2, <3>3, <3>4
  <2> QED  BY <2>1, <2>2
<1> HIDE DEF Part, Carried
<1>7. Whole(f, v) = v
  <2>1. "task" \in ArgSet(f.args) => DOMAIN Given(f.kind) \subseteq ArgSet(f.args)
    <3>1. CASE f \in BareForms \cup IdForms
      BY <3>1, BareShape, IdShape DEF ArgSet
    <3>2. CASE f \in TaskForms
      BY <3>2 DEF TaskForms, Form, Given, ArgSet
    <3> QED  BY <3>1, <3>2 DEF WrittenForms
  <2> QED  BY <2>1
<1> HIDE DEF Whole
<1> QED  BY <1>1, <1>4, <1>5, <1>6, <1>7 DEF data

\* A button does what it was made for, for any identifiers, numbers, nonces and flags.
THEOREM ButtonsMeanIt == CodecInit => ButtonsMeanWhatTheySay
<1> SUFFICES ASSUME CodecInit PROVE ButtonsMeanWhatTheySay
  OBVIOUS
<1>1. PICK f \in WrittenForms :
        \E v \in [ArgSet(f.args) -> UNION {Values(a) : a \in ArgSet(f.args)}] :
          (\A a \in ArgSet(f.args) : v[a] \in Values(a)) /\ button = [kind |-> f.kind, args |-> v]
  BY DEF CodecInit, Callbacks, WrittenForms
<1>2. PICK v \in [ArgSet(f.args) -> UNION {Values(a) : a \in ArgSet(f.args)}] :
          (\A a \in ArgSet(f.args) : v[a] \in Values(a)) /\ button = [kind |-> f.kind, args |-> v]
  BY <1>1
<1>3. (CHOOSE form \in WrittenForms : form.kind = button.kind) = f
  BY <1>2, KindsDiffer
<1>4. Encode(button) = Data(f, v)
  BY <1>2, <1>3 DEF Encode, Coded, WrittenForms, Data
<1> QED  BY <1>2, <1>4, ReadsBack DEF ButtonsMeanWhatTheySay, Parse

=============================================================================
