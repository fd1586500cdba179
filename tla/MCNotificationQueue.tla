------------------------- MODULE MCNotificationQueue -------------------------
(***************************************************************************)
(* Instances of NotificationQueue for TLC: batches smaller than the queue, *)
(* so that a row can be left for a later batch.                            *)
(***************************************************************************)
EXTENDS NotificationQueue, TLC

CONSTANTS k1, k2, k3

Symmetry == Permutations(Keys)

=============================================================================
