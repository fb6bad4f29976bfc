----------------------------- MODULE MCPlayerMgr -----------------------------
(***************************************************************************)
(* The instances of PlayerMgr that TLC checks.                             *)
(***************************************************************************)
EXTENDS PlayerMgr, TLC

Symmetry == Permutations(Tasks) \cup Permutations(Objs)
            \cup Permutations(Links)
=============================================================================
