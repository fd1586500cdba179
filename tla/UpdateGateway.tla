--------------------------- MODULE UpdateGateway ---------------------------
(***************************************************************************)
(* How updates enter the bot (presentation/telegram: gateway, dispatcher,  *)
(* dispatcher_transport).  Every update is a task of its own; it finds or  *)
(* makes the lock of its chat, waits for it, is dropped when its key was   *)
(* observed before, and is handled with a one-shot barrier that lets one   *)
(* screen or error out.  The barrier in force is looked up by chat.        *)
(*                                                                         *)
(* What the handlers do is the subject of Conversation and Onboarding; a   *)
(* handler here tries to show something any number of times.  Telegram may *)
(* deliver an update again, and a restart forgets the locks, the barriers  *)
(* and the keys.                                                           *)
(***************************************************************************)
EXTENDS Naturals, Sequences, FiniteSets

CONSTANTS
    Chats,
    Updates,       \* updates, by their key: a chat with a message or a press
    ChatOf,        \* [Updates -> Chats]
    Workers,       \* the tasks of the updates under way
    Capacity,      \* UPDATE_DEDUP_CAPACITY
    NoUpdate,      \* what an idle task carries
    MaxEffects,    \* bound on the screens one update tries to show
    MaxDeliveries, \* bound on the deliveries of one update
    MaxRestarts

ASSUME GatewayAssumption ==
    /\ ChatOf \in [Updates -> Chats]
    /\ NoUpdate \notin Updates
    /\ Capacity \in Nat \ {0}
    /\ MaxEffects \in Nat /\ MaxDeliveries \in Nat /\ MaxRestarts \in Nat

VARIABLES
    chatLock,   \* the lock of each chat: its number, 0 while there is none
    made,       \* how many locks were made
    worker,     \* the tasks: [pc, update, lock, spent, tries, effects]
    observed,   \* UpdateDedup: the keys, oldest first
    barrier,    \* current_barriers: the tasks whose barrier is in force for a chat
    delivered,  \* how often each update was delivered
    handled,    \* how often each update went into its handler
    forgotten,  \* how often the key of each update was evicted or lost
    restarts

gatewayVars == <<chatLock, made, worker, observed, barrier, delivered, handled, forgotten, restarts>>

Phases == {"idle", "find", "make", "wait", "locked", "admitted", "handling", "leaving"}

IdleWorker == [pc |-> "idle", update |-> NoUpdate, lock |-> 0, spent |-> FALSE, tries |-> 0, effects |-> 0]

Chat(w) == ChatOf[worker[w].update]

\* The tasks that hold their lock.
Inside == {w \in Workers : worker[w].pc \in {"locked", "admitted", "handling", "leaving"}}

GatewayInit ==
    /\ chatLock = [c \in Chats |-> 0]
    /\ made = 0
    /\ worker = [w \in Workers |-> IdleWorker]
    /\ observed = <<>>
    /\ barrier = [c \in Chats |-> {}]
    /\ delivered = [u \in Updates |-> 0]
    /\ handled = [u \in Updates |-> 0]
    /\ forgotten = [u \in Updates |-> 0]
    /\ restarts = 0

\* Telegram delivers an update, for the first time or again.
Deliver(w, u) ==
    /\ worker[w].pc = "idle"
    /\ delivered[u] < MaxDeliveries
    /\ delivered' = [delivered EXCEPT ![u] = @ + 1]
    /\ worker' = [worker EXCEPT ![w] = [IdleWorker EXCEPT !.pc = "find", !.update = u]]
    /\ UNCHANGED <<chatLock, made, observed, barrier, handled, forgotten, restarts>>

\* obtain_lock, under the read lock of the map.
FindLock(w) ==
    /\ worker[w].pc = "find"
    /\ worker' = [worker EXCEPT ![w].pc = IF chatLock[Chat(w)] = 0 THEN "make" ELSE "wait",
                                ![w].lock = chatLock[Chat(w)]]
    /\ UNCHANGED <<chatLock, made, observed, barrier, delivered, handled, forgotten, restarts>>

\* Mutant: the lock is made without looking again.
MakeLockMutant(w) ==
    /\ worker[w].pc = "make"
    /\ made' = made + 1
    /\ chatLock' = [chatLock EXCEPT ![Chat(w)] = made']
    /\ worker' = [worker EXCEPT ![w].pc = "wait", ![w].lock = made']
    /\ UNCHANGED <<observed, barrier, delivered, handled, forgotten, restarts>>

\* obtain_lock, under its write lock: another task may have made the lock meanwhile.
MakeLock(w) ==
    /\ worker[w].pc = "make"
    /\ made' = IF chatLock[Chat(w)] = 0 THEN made + 1 ELSE made
    /\ chatLock' = IF chatLock[Chat(w)] = 0 THEN [chatLock EXCEPT ![Chat(w)] = made'] ELSE chatLock
    /\ worker' = [worker EXCEPT ![w].pc = "wait", ![w].lock = chatLock'[Chat(w)]]
    /\ UNCHANGED <<observed, barrier, delivered, handled, forgotten, restarts>>

Enter(w) ==
    /\ worker[w].pc = "wait"
    /\ \A v \in Inside : worker[v].lock # worker[w].lock
    /\ worker' = [worker EXCEPT ![w].pc = "locked"]
    /\ UNCHANGED <<chatLock, made, observed, barrier, delivered, handled, forgotten, restarts>>

Remembered == {observed[i] : i \in DOMAIN observed}

\* An update that was observed before leaves at once.
DropDuplicate(w) ==
    /\ worker[w].pc = "locked"
    /\ worker[w].update \in Remembered
    /\ worker' = [worker EXCEPT ![w] = IdleWorker]
    /\ UNCHANGED <<chatLock, made, observed, barrier, delivered, handled, forgotten, restarts>>

\* Mutant: a full filter makes room by forgetting everything.
ObserveMutant(w) ==
    LET full == Len(observed) >= Capacity
    IN  /\ worker[w].pc = "locked"
        /\ worker[w].update \notin Remembered
        /\ observed' = IF full THEN <<worker[w].update>> ELSE Append(observed, worker[w].update)
        /\ forgotten' = IF full THEN [forgotten EXCEPT ![Head(observed)] = @ + 1] ELSE forgotten
        /\ worker' = [worker EXCEPT ![w].pc = "admitted"]
        /\ UNCHANGED <<chatLock, made, barrier, delivered, handled, restarts>>

\* observe: a new key is remembered, and the oldest one forgotten when there is no room.
Observe(w) ==
    LET full == Len(observed) >= Capacity
    IN  /\ worker[w].pc = "locked"
        /\ worker[w].update \notin Remembered
        /\ observed' = Append(IF full THEN Tail(observed) ELSE observed, worker[w].update)
        /\ forgotten' = IF full THEN [forgotten EXCEPT ![Head(observed)] = @ + 1] ELSE forgotten
        /\ worker' = [worker EXCEPT ![w].pc = "admitted"]
        /\ UNCHANGED <<chatLock, made, barrier, delivered, handled, restarts>>

\* install_barrier replaces the one that is there.
Install(w) ==
    /\ worker[w].pc = "admitted"
    /\ barrier' = [barrier EXCEPT ![Chat(w)] = {w}]
    /\ handled' = [handled EXCEPT ![worker[w].update] = @ + 1]
    /\ worker' = [worker EXCEPT ![w].pc = "handling"]
    /\ UNCHANGED <<chatLock, made, observed, delivered, forgotten, restarts>>

\* send_screen, send_fresh_screen and send_error: without a barrier they go out, with one the
\* first does.
Render(w) ==
    LET tried == [worker EXCEPT ![w].tries = @ + 1]
        out == [tried EXCEPT ![w].effects = @ + 1]
    IN  /\ worker[w].pc = "handling"
        /\ worker[w].tries < MaxEffects
        /\ \/ barrier[Chat(w)] = {} /\ worker' = out
           \/ \E b \in barrier[Chat(w)] :
                 worker' = IF worker[b].spent THEN tried ELSE [out EXCEPT ![b].spent = TRUE]
        /\ UNCHANGED <<chatLock, made, observed, barrier, delivered, handled, forgotten, restarts>>

\* uninstall_barrier takes away whichever barrier the chat has.
Uninstall(w) ==
    /\ worker[w].pc = "handling"
    /\ barrier' = [barrier EXCEPT ![Chat(w)] = {}]
    /\ worker' = [worker EXCEPT ![w].pc = "leaving"]
    /\ UNCHANGED <<chatLock, made, observed, delivered, handled, forgotten, restarts>>

\* The guard is dropped, and the lock with it.
Leave(w) ==
    /\ worker[w].pc = "leaving"
    /\ worker' = [worker EXCEPT ![w] = IdleWorker]
    /\ UNCHANGED <<chatLock, made, observed, barrier, delivered, handled, forgotten, restarts>>

\* Nothing of this is stored.
RestartGateway ==
    /\ restarts < MaxRestarts
    /\ restarts' = restarts + 1
    /\ chatLock' = [c \in Chats |-> 0]
    /\ worker' = [w \in Workers |-> IdleWorker]
    /\ barrier' = [c \in Chats |-> {}]
    /\ forgotten' = [u \in Updates |-> IF u \in Remembered THEN forgotten[u] + 1 ELSE forgotten[u]]
    /\ observed' = <<>>
    /\ UNCHANGED <<made, delivered, handled>>

HandleUpdate(w) ==
    \/ FindLock(w) \/ MakeLock(w) \/ Enter(w) \/ DropDuplicate(w) \/ Observe(w)
    \/ Install(w) \/ Render(w) \/ Uninstall(w) \/ Leave(w)

GatewayNext ==
    \/ \E w \in Workers : (\E u \in Updates : Deliver(w, u)) \/ HandleUpdate(w)
    \/ RestartGateway

GatewaySpec == GatewayInit /\ [][GatewayNext]_gatewayVars

(***************************************************************************)
(* Properties.                                                             *)
(***************************************************************************)
GatewayTypeOK ==
    /\ chatLock \in [Chats -> Nat]
    /\ made \in Nat
    /\ worker \in [Workers -> [pc : Phases, update : Updates \cup {NoUpdate}, lock : Nat,
                               spent : BOOLEAN, tries : Nat, effects : Nat]]
    /\ observed \in Seq(Updates)
    /\ barrier \in [Chats -> SUBSET Workers]
    /\ delivered \in [Updates -> Nat]
    /\ handled \in [Updates -> Nat]
    /\ forgotten \in [Updates -> Nat]
    /\ restarts \in Nat

\* Two updates of one chat are never handled at a time, even if they arrive together at a chat
\* that has no lock yet (gateway.rs:5-9); an update reaches the user once at most, and with a
\* barrier that is its own.
ChatsAreSerial ==
    \A w \in Inside :
        /\ \A v \in Inside \ {w} : Chat(v) # Chat(w)
        /\ worker[w].pc = "handling" => barrier[Chat(w)] = {w}
        /\ worker[w].effects <= 1

\* Deliveries of one update are handled once, and once more each time the filter has forgotten
\* its key: what a restart or the bound on the filter costs is all there is to it.
HandledOnce ==
    \A u \in Updates : handled[u] <= 1 + forgotten[u]

=============================================================================
