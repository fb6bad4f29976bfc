------------------------------- MODULE Alarm --------------------------------
(***************************************************************************)
(* What the timer of the runtime promises: every timeout rings once, at    *)
(* the tick it was asked for.                                              *)
(***************************************************************************)
EXTENDS Integers

CONSTANTS Timeouts, MaxDelay

VARIABLE remaining  \* the ticks that remain, -1 for a timeout nobody waits for

NotAsked == -1
Init == remaining = [id \in Timeouts |-> NotAsked]

Ask(id, delay) ==
    /\ remaining[id] = NotAsked /\ delay > 0
    /\ remaining' = [remaining EXCEPT ![id] = delay]

Ring(id) ==
    /\ remaining[id] = 0
    /\ remaining' = [remaining EXCEPT ![id] = NotAsked]

(* Time does not go on before everything that is due has rung.             *)
Tick ==
    /\ \A id \in Timeouts : remaining[id] # 0
    /\ remaining' = [id \in Timeouts |->
                        IF remaining[id] = NotAsked THEN NotAsked ELSE remaining[id] - 1]

Next ==
    \/ \E id \in Timeouts : Ring(id) \/ \E delay \in 1..MaxDelay : Ask(id, delay)
    \/ Tick

Spec == Init /\ [][Next]_remaining
=============================================================================
