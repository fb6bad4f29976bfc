------------------------------ MODULE Services ------------------------------
(***************************************************************************)
(* What the skynet runtime promises to the code that runs on it, and what  *)
(* every other module here assumes: a service handles the messages of its  *)
(* mailbox one at a time and in order, none is lost while the service is   *)
(* up, and those that are left when it goes down are refused.              *)
(***************************************************************************)
EXTENDS Sequences

CONSTANTS Services, Messages, None

VARIABLES
    mail,     \* the messages a service has not yet handled
    running,  \* the message a service handles, or None
    status    \* "none" before the launch, "up", "down"

serviceVars == <<mail, running, status>>

(* Some services have been launched, and may have mail.                    *)
Init ==
    /\ mail \in [Services -> Seq(Messages)]
    /\ running = [s \in Services |-> None]
    /\ status \in [Services -> {"none", "up"}]
    /\ \A s \in Services : status[s] = "none" => mail[s] = <<>>

Launch(s) ==
    /\ status[s] = "none"
    /\ status' = [status EXCEPT ![s] = "up"]
    /\ UNCHANGED <<mail, running>>

Deliver(s, m) ==
    /\ status[s] = "up"
    /\ mail' = [mail EXCEPT ![s] = Append(@, m)]
    /\ UNCHANGED <<running, status>>

Take(s) ==
    /\ status[s] = "up" /\ running[s] = None
    /\ mail[s] # <<>>
    /\ running' = [running EXCEPT ![s] = Head(mail[s])]
    /\ mail' = [mail EXCEPT ![s] = Tail(@)]
    /\ UNCHANGED status

Finish(s) ==
    /\ running[s] # None
    /\ running' = [running EXCEPT ![s] = None]
    /\ UNCHANGED <<mail, status>>

(* A service never goes down in the middle of a message.                   *)
Fall(s) ==
    /\ status[s] = "up" /\ running[s] = None
    /\ status' = [status EXCEPT ![s] = "down"]
    /\ UNCHANGED <<mail, running>>

Refuse(s) ==
    /\ status[s] = "down"
    /\ mail[s] # <<>>
    /\ mail' = [mail EXCEPT ![s] = Tail(@)]
    /\ UNCHANGED <<running, status>>

Next ==
    \E s \in Services :
        \/ Launch(s) \/ Take(s) \/ Finish(s) \/ Fall(s) \/ Refuse(s)
        \/ \E m \in Messages : Deliver(s, m)

Spec == Init /\ [][Next]_serviceVars
=============================================================================
