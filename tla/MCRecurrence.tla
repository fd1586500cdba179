---------------------------- MODULE MCRecurrence ----------------------------
(***************************************************************************)
(* Instances of Recurrence for TLC: TLC tries every schedule of the rules. *)
(***************************************************************************)
EXTENDS Recurrence, TLC

CONSTANTS r1, r2

Symmetry == Permutations(Rules)

=============================================================================
