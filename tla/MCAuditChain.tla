---------------------------- MODULE MCAuditChain ----------------------------
(***************************************************************************)
(* AuditChain for TLC, by itself: two transactions that record decisions,  *)
(* and nobody who touches a row.                                           *)
(***************************************************************************)
EXTENDS AuditChain, TLC

AuditSymmetry == Permutations(Writers)
=============================================================================
