------------------------------ MODULE TaskBoard ------------------------------
(***************************************************************************)
(* What the application promises about one task: its row changes in atomic *)
(* steps only, each of them a step its actor was allowed to take on the    *)
(* row as it was at that moment.                                           *)
(*                                                                         *)
(* No handler of the program is atomic.  Each reads the row, decides on    *)
(* its copy and writes later, so that this module is the abstract          *)
(* specification that TaskWorkflow is shown to implement.                  *)
(***************************************************************************)
EXTENDS TaskLifecycle

VARIABLE row   \* the row of tasks, or None before it is inserted

Init == row = None

Create ==
  /\ row = None
  /\ \E creator \in Users, res \in Resolutions :
       row' = NewTask(creator, res[1], res[2])

Change == row # None /\ row' # row /\ LegalStep(row, row')

Next == Create \/ Change

Spec == Init /\ [][Next]_row

=============================================================================
