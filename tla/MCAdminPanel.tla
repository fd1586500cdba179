---------------------------- MODULE MCAdminPanel ----------------------------
(***************************************************************************)
(* Instances of AdminPanel for TLC: two accounts that can act against each *)
(* other, one of them configured.                                          *)
(***************************************************************************)
EXTENDS AdminPanel, TLC

CONSTANTS u1, u2, h1, h2

Symmetry == Permutations(Handlers)

=============================================================================
