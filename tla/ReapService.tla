----------------------------- MODULE ReapService ----------------------------
(***************************************************************************)
(* What the reaper of src/pkg/supervisor/reaper.go promises to the rest of *)
(* PID 1, with its signals and its loop left out: as long as it runs, any  *)
(* zombie may be collected at any moment and its status is published, once *)
(* and in the order of collection, on a bounded channel that drops what    *)
(* does not fit; after a cancellation it may stop when no zombie is left,  *)
(* and then the channel is closed.                                         *)
(*                                                                         *)
(* Reaper implements this specification.  Supervisor is composed with it   *)
(* rather than with Reaper.                                                *)
(***************************************************************************)
EXTENDS Naturals, Sequences, FiniteSets

CONSTANTS
    Proc,      \* the identities of the children of PID 1
    Status,    \* the wait statuses a child can leave
    EventCap   \* capacity of the events channel, 64 in the code

VARIABLES
    zombies,   \* exited children nobody has waited for
    events,    \* the channel of Reaped values
    lost,      \* children whose event was dropped on a full channel
    closed,    \* the reaper has stopped and closed the channel
    ctxDone    \* the context given to Run is cancelled

serviceVars == <<zombies, events, lost, closed, ctxDone>>

(* A zombie, and also the Reaped event it becomes: the resource usage is   *)
(* never read.                                                             *)
Reaped == [pid : Proc, status : Status]

Pids(Z) == {z.pid : z \in Z}
Queued == {events[i] : i \in DOMAIN events}

Init ==
    /\ zombies = {}
    /\ events = <<>>
    /\ lost = {}
    /\ closed = FALSE
    /\ ctxDone = FALSE

(* The children in Z exit together.                                        *)
Exit(Z) ==
    /\ Pids(Z) \cap Pids(zombies) = {}
    /\ zombies' = zombies \cup Z
    /\ UNCHANGED <<events, lost, closed, ctxDone>>

(* Another goroutine waits for the child p by its pid (exec.Cmd.Wait):     *)
(* the zombie is gone afterwards, if the reaper had left it there.         *)
Collect(p) ==
    /\ zombies' = {z \in zombies : z.pid # p}
    /\ UNCHANGED <<events, lost, closed, ctxDone>>

Cancel ==
    /\ ctxDone' = TRUE
    /\ UNCHANGED <<zombies, events, lost, closed>>

(* Mutant: the channel grows without a bound.                              *)
Wait4Unbounded(z) ==
    /\ ~closed /\ z \in zombies
    /\ zombies' = zombies \ {z} /\ events' = Append(events, z)
    /\ UNCHANGED <<lost, closed, ctxDone>>

(* The reaper collects a zombie and sends its event, or drops it when the  *)
(* channel has no room: it never blocks.                                   *)
Wait4(z) ==
    /\ ~closed
    /\ z \in zombies
    /\ zombies' = zombies \ {z}
    /\ \/ /\ Len(events) < EventCap
          /\ events' = Append(events, z)
          /\ lost' = lost
       \/ /\ Len(events) = EventCap
          /\ lost' = lost \cup {z.pid}
          /\ events' = events
    /\ UNCHANGED <<closed, ctxDone>>

Close ==
    /\ ~closed /\ ctxDone /\ zombies = {}
    /\ closed' = TRUE
    /\ UNCHANGED <<zombies, events, lost, ctxDone>>

(* The consumer's side of the channel.                                     *)
Receive ==
    /\ events # <<>>
    /\ events' = Tail(events)
    /\ UNCHANGED <<zombies, lost, closed, ctxDone>>

(* The range over the channel ends.                                        *)
Drained == closed /\ events = <<>>

Next ==
    \/ \E z \in Reaped : Exit({z})
    \/ \E p \in Pids(zombies) : Collect(p)
    \/ Cancel
    \/ \E z \in zombies : Wait4(z)
    \/ Close
    \/ Receive

(* A zombie nobody else waits for is collected in the end.                 *)
Fairness == \A z \in Reaped : WF_serviceVars(Wait4(z))

Spec == Init /\ [][Next]_serviceVars /\ Fairness
=============================================================================
