----------------------------- MODULE MCOnboarding -----------------------------
(***************************************************************************)
(* Instances of Onboarding for TLC: a person whose row is older than the   *)
(* onboarding.                                                             *)
(***************************************************************************)
EXTENDS Onboarding

CONSTANTS room, name1, name2, employee

MCLegacy == LegacyRow

=============================================================================
