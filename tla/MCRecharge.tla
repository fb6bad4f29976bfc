---------------------------- MODULE MCRecharge ----------------------------
(***************************************************************************)
(* The instance of Recharge that TLC checks.  It has no symmetry: it       *)
(* checks a liveness property.                                             *)
(***************************************************************************)
EXTENDS Recharge
===========================================================================
