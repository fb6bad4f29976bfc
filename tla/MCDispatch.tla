----------------------------- MODULE MCDispatch -----------------------------
EXTENDS Dispatch, TLC

CONSTANTS boot, other, w1, w2, timer, socket

(* The first worker goes on to the next queue after every message, the     *)
(* second one first empties the queue it has.                              *)
MCWeight == (w1 :> -1) @@ (w2 :> 0)
=============================================================================
