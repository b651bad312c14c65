------------------------------ MODULE Lifecycle -----------------------------
(***************************************************************************)
(* What the supervisor promises of each container                          *)
(* (src/pkg/supervisor/supervisor.go): it is launched once, every exit of  *)
(* it is handled once, it is relaunched only when its policy calls for it, *)
(* and once its done channel is closed it is never touched again.          *)
(* Supervisor implements this specification.                               *)
(***************************************************************************)
CONSTANTS Container, Policy, Status

VARIABLES
    restart,  \* the restart policy of each container
    phase,    \* where each container is in its life
    exit      \* the status of an exit that is being handled

lifeVars == <<restart, phase, exit>>

Init ==
    /\ restart \in [Container -> Policy]
    /\ phase = [c \in Container |-> "pending"]
    /\ exit = [c \in Container |-> "none"]

Enter(c, from, to) ==
    /\ phase[c] = from
    /\ phase' = [phase EXCEPT ![c] = to]
    /\ restart' = restart

Launch(c) == Enter(c, "pending", "launching") /\ exit' = exit

Launched(c) == Enter(c, "launching", "up") /\ exit' = exit

Exited(c, s) == Enter(c, "up", "down") /\ exit' = [exit EXCEPT ![c] = s]

(* A container that exited is relaunched if its policy says so ...         *)
Relaunch(c) ==
    /\ restart[c] = "always" \/ (restart[c] = "on-failure" /\ exit[c] = "fail")
    /\ Enter(c, "down", "launching")
    /\ exit' = [exit EXCEPT ![c] = "none"]

(* ... and may be finished whatever the policy, since Stop ends restarts.  *)
Finish(c) == Enter(c, "down", "finished") /\ exit' = [exit EXCEPT ![c] = "none"]

(* A relaunch that fails finishes the container as well.                   *)
Abandon(c) == Enter(c, "launching", "finished") /\ exit' = exit

Next == \E c \in Container :
    \/ Launch(c) \/ Launched(c)
    \/ \E s \in Status : Exited(c, s)
    \/ Relaunch(c) \/ Finish(c) \/ Abandon(c)

Spec == Init /\ [][Next]_lifeVars
=============================================================================
