-------------------------- MODULE MCSlaEscalation --------------------------
(***************************************************************************)
(* Instances of SlaEscalation for TLC.                                     *)
(***************************************************************************)
EXTENDS SlaEscalation

CONSTANTS t1, t2, u1

=============================================================================
