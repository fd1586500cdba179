--------------------------- MODULE MCConversation ---------------------------
(***************************************************************************)
(* Instances of Conversation for TLC: a directory of two, of whom one has  *)
(* a name of his own and both share another.                               *)
(***************************************************************************)
EXTENDS Conversation

CONSTANTS old, new, ann, bob, plain, forAnn, forSome

MCNamed == [t \in Texts |-> IF t = forAnn THEN ann ELSE IF t = forSome THEN Several ELSE None]

\* What the properties of the screens, and the steps, depend on: whose name a confirmation showed
\* matters to AssignedAsShown only.
ScreensView ==
    <<active, keyboards, late, chat, tasks, IF shown = None THEN <<>> ELSE <<shown.text>>, torn, faults>>

\* A task that was closed before.
MCInitialTasks ==
    [k \in Keys |-> IF k = old THEN [text |-> forSome, assignee |-> None, open |-> FALSE] ELSE None]

=============================================================================
