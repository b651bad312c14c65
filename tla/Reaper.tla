------------------------------- MODULE Reaper -------------------------------
(***************************************************************************)
(* The zombie reaper of PID 1 (src/pkg/supervisor/reaper.go) together with *)
(* the two things outside it that it races with: the kernel, which keeps   *)
(* the zombies and one pending SIGCHLD, and Go's signal package, which     *)
(* forwards the signal to a channel without ever blocking.                 *)
(*                                                                         *)
(* The environment lets any child exit at any time.  ReapService says what *)
(* all of this amounts to for the supervisor.                              *)
(***************************************************************************)
EXTENDS Naturals, Sequences, FiniteSets

CONSTANTS
    Proc,      \* the identities of the children of PID 1
    Status,    \* the wait statuses a child can leave
    EventCap,  \* capacity of the events channel, 64 in the code
    SigCap     \* capacity of the signal channel, 4 in the code

ASSUME CapsArePositive ==
    /\ EventCap \in Nat \ {0}
    /\ SigCap \in Nat \ {0}

VARIABLES
    zombies,   \* exited children nobody has waited for
    sigchld,   \* a SIGCHLD is pending: signals of one kind coalesce
    sigCh,     \* number of signals in the channel given to signal.Notify
    reaper,    \* where Run is
    events,    \* the channel of Reaped values
    lost,      \* children whose event was dropped on a full channel
    ctxDone    \* the context given to Run is cancelled

reaperVars == <<zombies, sigchld, sigCh, reaper, events, lost, ctxDone>>

Reaped == [pid : Proc, status : Status]

Pids(Z) == {z.pid : z \in Z}

Init ==
    /\ zombies = {}
    /\ sigchld = FALSE
    /\ sigCh = 0
    /\ reaper = "new"
    /\ events = <<>>
    /\ lost = {}
    /\ ctxDone = FALSE

-----------------------------------------------------------------------------
(* The kernel and the signal package.                                      *)

(* signal.Notify has been called and signal.Stop has not.                  *)
Subscribed == reaper \in {"select", "drain", "final"}

(* The children in Z exit together.  The Go runtime discards a SIGCHLD     *)
(* that nobody subscribed to.                                              *)
Exit(Z) ==
    /\ Pids(Z) \cap Pids(zombies) = {}
    /\ zombies' = zombies \cup Z
    /\ sigchld' = (sigchld \/ Subscribed)
    /\ UNCHANGED <<sigCh, reaper, events, lost, ctxDone>>

(* Mutant: the forwarding does not check for room.                         *)
DeliverUnchecked ==
    /\ sigchld /\ sigchld' = FALSE
    /\ sigCh' = IF Subscribed THEN sigCh + 1 ELSE sigCh
    /\ UNCHANGED <<zombies, reaper, events, lost, ctxDone>>

(* os/signal forwards the signal, or drops it when the channel is full.    *)
Deliver ==
    /\ sigchld
    /\ sigchld' = FALSE
    /\ sigCh' = IF Subscribed /\ sigCh < SigCap THEN sigCh + 1 ELSE sigCh
    /\ UNCHANGED <<zombies, reaper, events, lost, ctxDone>>

(* Another goroutine waits for the child p by its pid (exec.Cmd.Wait):     *)
(* the zombie is gone afterwards, if the reaper had left it there.         *)
Collect(p) ==
    /\ zombies' = {z \in zombies : z.pid # p}
    /\ UNCHANGED <<sigchld, sigCh, reaper, events, lost, ctxDone>>

Cancel ==
    /\ ctxDone' = TRUE
    /\ UNCHANGED <<zombies, sigchld, sigCh, reaper, events, lost>>

-----------------------------------------------------------------------------
(* Reaper.Run                                                              *)

(* Mutant: no initial drain.                                               *)
SubscribeOnly ==
    /\ reaper = "new" /\ reaper' = "select"
    /\ UNCHANGED <<zombies, sigchld, sigCh, events, lost, ctxDone>>

(* Run subscribes first, then makes the initial drain.                     *)
Subscribe ==
    /\ reaper = "new"
    /\ reaper' = "drain"
    /\ UNCHANGED <<zombies, sigchld, sigCh, events, lost, ctxDone>>

(* The select of the loop: either ready case may be taken.                 *)
SelectSignal ==
    /\ reaper = "select" /\ sigCh > 0
    /\ sigCh' = sigCh - 1
    /\ reaper' = "drain"
    /\ UNCHANGED <<zombies, sigchld, events, lost, ctxDone>>

(* Mutant: no drain after the cancellation.                                *)
SelectDoneOnly ==
    /\ reaper = "select" /\ ctxDone /\ reaper' = "exited"
    /\ UNCHANGED <<zombies, sigchld, sigCh, events, lost, ctxDone>>

SelectDone ==
    /\ reaper = "select" /\ ctxDone
    /\ reaper' = "final"
    /\ UNCHANGED <<zombies, sigchld, sigCh, events, lost, ctxDone>>

(* Mutant: a send that waits for room.                                     *)
Wait4Blocking(z) ==
    /\ reaper \in {"drain", "final"} /\ z \in zombies /\ Len(events) < EventCap
    /\ zombies' = zombies \ {z} /\ events' = Append(events, z)
    /\ UNCHANGED <<sigchld, sigCh, reaper, lost, ctxDone>>

(* One round of drain: wait4(-1, WNOHANG) returns some zombie and its      *)
(* event is sent, or dropped when the channel has no room.                 *)
Wait4(z) ==
    /\ reaper \in {"drain", "final"}
    /\ z \in zombies
    /\ zombies' = zombies \ {z}
    /\ \/ /\ Len(events) < EventCap
          /\ events' = Append(events, z)
          /\ lost' = lost
       \/ /\ Len(events) = EventCap
          /\ lost' = lost \cup {z.pid}
          /\ events' = events
    /\ UNCHANGED <<sigchld, sigCh, reaper, ctxDone>>

(* wait4 finds no zombie (0 or ECHILD).  After the final drain the         *)
(* deferred calls unsubscribe and close the channel.                       *)
DrainEnd ==
    /\ zombies = {}
    /\ \/ reaper = "drain" /\ reaper' = "select"
       \/ reaper = "final" /\ reaper' = "exited"
    /\ UNCHANGED <<zombies, sigchld, sigCh, events, lost, ctxDone>>

(* The consumer's side of the channel.                                     *)
Receive ==
    /\ events # <<>>
    /\ events' = Tail(events)
    /\ UNCHANGED <<zombies, sigchld, sigCh, reaper, lost, ctxDone>>

-----------------------------------------------------------------------------
ReaperStep ==
    \/ Subscribe
    \/ SelectSignal
    \/ SelectDone
    \/ \E z \in zombies : Wait4(z)
    \/ DrainEnd

Next ==
    \/ ReaperStep
    \/ Deliver
    \/ Cancel
    \/ Receive
    \/ \E z \in Reaped : Exit({z})
    \/ \E p \in Pids(zombies) : Collect(p)

(* The goroutine and the signal package keep running.  wait4 goes through  *)
(* the children in order, so no zombie is passed over for ever.            *)
ReaperFairness ==
    /\ WF_reaperVars(Subscribe \/ SelectSignal \/ SelectDone \/ DrainEnd)
    /\ \A z \in Reaped : SF_reaperVars(Wait4(z))
    /\ WF_reaperVars(Deliver)

Spec == Init /\ [][Next]_reaperVars /\ ReaperFairness

-----------------------------------------------------------------------------
TypeOK ==
    /\ zombies \subseteq Reaped
    /\ sigchld \in BOOLEAN
    /\ sigCh \in 0..SigCap
    /\ reaper \in {"new", "select", "drain", "final", "exited"}
    /\ events \in Seq(Reaped)
    /\ lost \subseteq Proc
    /\ ctxDone \in BOOLEAN

(* While the reaper sleeps in its select, every zombie is announced: a     *)
(* SIGCHLD is pending or in the channel.  That signals coalesce and are    *)
(* dropped when the channel is full, and that children exit before the     *)
(* subscription, must never leave a zombie nobody will come for.           *)
NoStrandedZombie ==
    (reaper = "select" /\ zombies # {}) => (sigchld \/ sigCh > 0)

(* Every zombie is eventually collected, unless the reaper has exited.     *)
EveryZombieCollected ==
    \A z \in Reaped : z \in zombies ~> (z \notin zombies \/ reaper = "exited")

(* The reaper keeps the promise the supervisor relies on.                  *)
Service == INSTANCE ReapService WITH closed <- (reaper = "exited")
ImplementsService == Service!Spec
=============================================================================
