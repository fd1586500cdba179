-------------------------------- MODULE MCParts --------------------------------
(***************************************************************************)
(* Instances, for TLC, of the parts of the bot that meet only through the  *)
(* database or not at all: the gateway of the updates, the onboarding, the *)
(* daily jobs, the calls of outside services, the voice records, the lists *)
(* of tasks and the data of the buttons.  A behaviour is one of the part   *)
(* that is chosen at its beginning; the others keep one initial state.     *)
(***************************************************************************)
EXTENDS UpdateGateway, Onboarding, DailyJobs, ServiceCalls, VoiceRecords, TaskLists,
        CallbackCodec, TLC

CONSTANTS
    ann, bob,         \* users
    h1, h2, h3,       \* what runs at once: handlers, tasks, chats of a person, callers
    chat1, chat2, m1, m2, m3, \* the messages and their chats
    t1, t2,           \* tasks
    x, y              \* any two of a kind: names, employees, files

VARIABLE part

AllParts == <<gatewayVars, onboardingVars, dailyVars, callVars, voiceVars, listVars, button>>

Parts == {"gateway", "onboarding", "daily", "calls", "voice", "lists", "buttons"}

(***************************************************************************)
(* Values of the constants that a configuration cannot write.              *)
(***************************************************************************)

\* Two messages of one chat and one of another.
MCChatOf == [u \in {m1, m2, m3} |-> IF u = m3 THEN chat2 ELSE chat1]

\* A task due on the second day and one due on the first, both of Ann.
MCAuthor == [c \in {t1, t2} |-> ann]
MCDueOn == [c \in {t1, t2} |-> IF c = t1 THEN 2 ELSE 1]

\* A new task that has been left alone, one that is blocked, one that is late and whose assignee
\* has no account yet, and one that is done.
MCShapes ==
    {[status |-> "created", due |-> "none", pending |-> FALSE, stale |-> TRUE],
     [status |-> "blocked", due |-> "today", pending |-> FALSE, stale |-> FALSE],
     [status |-> "in_progress", due |-> "past", pending |-> TRUE, stale |-> FALSE],
     [status |-> "completed", due |-> "past", pending |-> FALSE, stale |-> FALSE]}

(***************************************************************************)
(* The choice of a part.                                                   *)
(***************************************************************************)
\* A part that is not chosen begins in one way.
Unchosen(name, choice) == part = name \/ choice

MCInit ==
    /\ part \in Parts
    /\ GatewayInit
    /\ OnboardingInit
    /\ DailyInit
    /\ Unchosen("daily", kind = "deadline" /\ \A c \in Chores : chore[c].doer = Nobody)
    /\ CallsInit
    /\ VoiceInit
    /\ ListInit
    /\ Unchosen("lists", /\ scope = "assigned"
                         /\ \A i \in ListTasks : ~rows[i].belongs /\ rows[i].shape.status = "blocked")
    /\ CodecInit
    /\ Unchosen("buttons", button.kind = "MenuHome")

MCNext ==
    /\ UNCHANGED part
    /\ \/ /\ part = "gateway" /\ GatewayNext
          /\ UNCHANGED <<onboardingVars, dailyVars, callVars, voiceVars, listVars, button>>
       \/ /\ part = "onboarding" /\ OnboardingNext
          /\ UNCHANGED <<gatewayVars, dailyVars, callVars, voiceVars, listVars, button>>
       \/ /\ part = "daily" /\ DailyNext
          /\ UNCHANGED <<gatewayVars, onboardingVars, callVars, voiceVars, listVars, button>>
       \/ /\ part = "calls" /\ CallsNext
          /\ UNCHANGED <<gatewayVars, onboardingVars, dailyVars, voiceVars, listVars, button>>
       \/ /\ part = "voice" /\ VoiceNext
          /\ UNCHANGED <<gatewayVars, onboardingVars, dailyVars, callVars, listVars, button>>
       \/ /\ part = "lists" /\ ListNext
          /\ UNCHANGED <<gatewayVars, onboardingVars, dailyVars, callVars, voiceVars, button>>

MCSpec == MCInit /\ [][MCNext]_<<part, AllParts>>

\* No part tells h1 and h2 apart, nor x and y.
Symmetry == Permutations({h1, h2}) \cup Permutations({x, y})

=============================================================================
