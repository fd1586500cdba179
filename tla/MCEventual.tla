------------------------------ MODULE MCEventual ------------------------------
(***************************************************************************)
(* What two parts of the bot must do in the end, in one instance for TLC:  *)
(* the queue of notifications settles every row, and the onboarding hands  *)
(* over the tasks of everyone it links.  A behaviour is one of the part    *)
(* that is chosen at its beginning, under the fairness of that part; the   *)
(* other keeps its initial state.                                          *)
(***************************************************************************)
EXTENDS NotificationQueue, Onboarding

CONSTANTS k1, k2, room, name1, employee, namesake

VARIABLE part

EventualVars == <<part, vars, onboardingVars>>

EventualInit ==
    /\ part \in {"queue", "person"}
    /\ Init
    /\ OnboardingInit

EventualNext ==
    /\ UNCHANGED part
    /\ \/ part = "queue" /\ Next /\ UNCHANGED onboardingVars
       \/ part = "person" /\ OnboardingNext /\ UNCHANGED vars

\* Fairness of NotificationQueue.
QueueFairness ==
    /\ WF_vars(part = "queue" /\ Job)
    /\ WF_vars(part = "queue" /\ Tick)

\* Less than OnboardingFairness: of what the person can send, only plain messages are sure to
\* be sent again.
Message == [kind |-> "other", value |-> Nothing]

PersonFairness ==
    \A c \in Rooms :
        /\ WF_onboardingVars(part = "person" /\ StepOf(c))
        /\ SF_onboardingVars(part = "person" /\ Receive(c, Message))

EventualSpec ==
    EventualInit /\ [][EventualNext]_EventualVars /\ QueueFairness /\ PersonFairness

=============================================================================
