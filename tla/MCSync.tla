------------------------------- MODULE MCSync -------------------------------
(***************************************************************************)
(* The instance of Sync that TLC checks.  Two account logins, which nest   *)
(* the load of the same player as _entergame does (recoverplayer), and a   *)
(* loader that re-enters the player lock.                                  *)
(***************************************************************************)
EXTENDS Sync, TLC

CONSTANTS e1, e2, p1

MCIds == {e1, e2, p1}
MCNests == {<<e1, p1>>, <<e2, p1>>, <<p1, p1>>}

=============================================================================
