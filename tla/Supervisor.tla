----------------------------- MODULE Supervisor -----------------------------
(***************************************************************************)
(* The container supervisor of PID 1 (src/pkg/supervisor/supervisor.go),   *)
(* its signal goroutine (src/cmd/weft-init/main.go) and the runtime client *)
(* it calls (src/pkg/runtime/crun/crun.go), composed with ReapService.     *)
(*                                                                         *)
(* Three goroutines share the supervisor: "main" runs Supervisor.Run and   *)
(* with it every first start, "consumer" runs consumeReaper and with it    *)
(* every restart, "stop" waits for a termination signal and runs Stop.     *)
(* pc[g] is where goroutine g is.                                          *)
(*                                                                         *)
(* Every call of the runtime forks the crun binary.  A call whose result   *)
(* is used has two actions: Invoke is the crun process doing its work and  *)
(* exiting, Ret is the exec.Cmd.Wait of the caller.  Between the two the   *)
(* child is a zombie like any other, and the reaper's wait4(-1) may take   *)
(* it first: Wait then finds no child and the call returns an error        *)
(* whatever crun did.  A call whose result is ignored (Kill, Delete) is    *)
(* one action, and its process is one of Helper: to the rest of the        *)
(* program it is a child that exits and that the reaper may take.          *)
(***************************************************************************)
EXTENDS Naturals, Sequences, FiniteSets

CONSTANTS
    N,           \* number of containers of the pod
    Pid, NoPid,  \* pids of containers' inits, and the pid 0 of a failed lookup
    Helper,      \* other children of PID 1: orphans, crun's helpers, crun kill
    Policies,    \* the restart policies the pods of this instance use
    EventCap,    \* capacity of the reaper's events channel
    CrunMayFail, \* crun may fail, or print a state without a pid, for no reason
    Console      \* /dev/console can be opened

Container == 1..N
NoContainer == 0
Starter == {"main", "consumer"}
Goroutine == Starter \cup {"stop"}
Child == Pid \cup Helper \cup Starter
Status == {"ok", "fail"}
Policy == {"never", "on-failure", "always"}

ASSUME ConstantsAreSound ==
    /\ N \in Nat \ {0}
    /\ NoPid \notin Pid
    /\ Pid \cap Starter = {} /\ Pid \cap Helper = {} /\ Helper \cap Starter = {}
    /\ Policies \subseteq Policy
    /\ EventCap \in Nat \ {0}
    /\ CrunMayFail \in BOOLEAN /\ Console \in BOOLEAN

VARIABLES
    \* The reaper and the kernel's zombies: see ReapService.
    zombies, events, lost, closed, ctxDone,
    restart,   \* the pod: the restart policy of each container
    \* The fields of Supervisor and containerState that are read.
    states,    \* containers that have an entry in the states map
    pidIndex,  \* the container a pid is registered for
    lastExit,  \* containers whose lastExit is not nil
    stopped,   \* containers whose stopped flag is set
    closes,    \* how often the done channel was closed: twice is a panic
    \* The runtime's and the kernel's side.
    rt,        \* what crun knows of each container
    init,      \* the pid of its init while that is alive, else NoPid
    \* Locals of the goroutines.
    pc, target, gotPid,
    evStatus,  \* the status in the event the consumer handles
    ids, todo, \* Stop's snapshot, and what its current loop has left
    runErr     \* what Run returned

reapVars == <<zombies, events, lost, closed, ctxDone>>
supVars    == <<states, pidIndex, lastExit, stopped, closes>>
rtVars     == <<rt, init>>
locals     == <<target, gotPid, evStatus, ids, todo, runErr>>
vars       == <<reapVars, restart, supVars, rtVars, pc, locals>>

Reap == INSTANCE ReapService WITH Proc <- Child

Init ==
    /\ Reap!Init
    /\ restart \in [Container -> Policies]
    /\ states = {}
    /\ pidIndex = [p \in Pid |-> NoContainer]
    /\ lastExit = {}
    /\ stopped = {}
    /\ closes = [c \in Container |-> 0]
    /\ rt = [c \in Container |-> "absent"]
    /\ init = [c \in Container |-> NoPid]
    /\ pc = [g \in Goroutine |-> IF g = "main" THEN "next"
                                ELSE IF g = "consumer" THEN "off" ELSE "idle"]
    /\ target = [g \in Starter |-> 1]
    /\ gotPid = [g \in Starter |-> NoPid]
    /\ evStatus = "ok"
    /\ ids = {}
    /\ todo = {}
    /\ runErr = "none"

Goto(g, label) == pc' = [pc EXCEPT ![g] = label]

-----------------------------------------------------------------------------
(* The OCI runtime.                                                        *)

(* The inits that have not exited; the exit of a process set by force.     *)
Alive == {init[c] : c \in Container} \ {NoPid}
Killed(P) == {[pid |-> p, status |-> "fail"] : p \in P \ {NoPid}}

(* The pids of live inits and of those whose exit the consumer has not     *)
(* received, or never will because its event was dropped.                  *)
InFlight == Alive \cup Reap!Pids(zombies) \cup Reap!Pids(Reap!Queued) \cup lost

(* The kernel is assumed not to give such a pid to a new process: it hands *)
(* pids out in turn and wraps around much later.                           *)
Free == Pid \ InFlight

(* crun can fail for reasons of its own.  A cancelled context makes every  *)
(* call fail; that exec then forks nothing is not told apart.              *)
Fallible == CrunMayFail \/ ctxDone

(* The exited crun process that goroutine g ran.                           *)
Ran(g, s) == [pid |-> g, status |-> s]

(* exec.Cmd.Run returns nil only if the child is still there to be waited  *)
(* for and left status 0.                                                  *)
Succeeded(g) == Ran(g, "ok") \in zombies

Return(g, ifNil, ifErr) ==
    /\ Reap!Collect(g)
    /\ Goto(g, IF Succeeded(g) THEN ifNil ELSE ifErr)

(* crun delete --force: kills the init, if it lives, and forgets c.        *)
Delete(c) ==
    \/ /\ ~ctxDone
       /\ rt' = [rt EXCEPT ![c] = "absent"]
       /\ init' = [init EXCEPT ![c] = NoPid]
       /\ Reap!Exit(Killed({init[c]}))
    \/ /\ Fallible
       /\ UNCHANGED <<reapVars, rtVars>>

(* crun kill KILL: ends the init, if it lives.                             *)
Kill(c) ==
    \/ /\ ~ctxDone
       /\ init' = [init EXCEPT ![c] = NoPid]
       /\ Reap!Exit(Killed({init[c]}))
       /\ rt' = rt
    \/ /\ Fallible
       /\ UNCHANGED <<reapVars, rtVars>>

-----------------------------------------------------------------------------
(* startOne, run by main for the first start and by the consumer for a     *)
(* restart.  The bundle lookup cannot fail: prepareBundles made them all.  *)

(* startOne returns an error: fatal for Run, the end of this container for *)
(* the consumer.                                                           *)
GiveUp(g) == IF g = "main" THEN "failed" ELSE "close"

CreateInvoke(g) ==
    LET c == target[g] IN
    /\ pc[g] = "create"
    /\ \/ /\ ~ctxDone /\ rt[c] = "absent"
          /\ rt' = [rt EXCEPT ![c] = "created"]
          /\ \E p \in Free : init' = [init EXCEPT ![c] = p]
          /\ Reap!Exit({Ran(g, "ok")})
       \/ /\ Fallible \/ rt[c] # "absent"
          /\ Reap!Exit({Ran(g, "fail")})
          /\ UNCHANGED rtVars
    /\ Goto(g, "createRet")
    /\ UNCHANGED <<restart, supVars, locals>>

(* Without a console exec.Cmd captures the output in a pipe, which the     *)
(* container's init inherits: Run returns only when that init is gone.     *)
CreateRet(g) ==
    /\ pc[g] = "createRet"
    /\ Console \/ init[target[g]] = NoPid
    /\ Return(g, "start", GiveUp(g))
    /\ UNCHANGED <<restart, supVars, rtVars, locals>>

StartInvoke(g) ==
    LET c == target[g] IN
    /\ pc[g] = "start"
    /\ \/ /\ ~ctxDone /\ rt[c] = "created" /\ init[c] # NoPid
          /\ rt' = [rt EXCEPT ![c] = "running"]
          /\ Reap!Exit({Ran(g, "ok")})
       \/ /\ Fallible \/ rt[c] # "created" \/ init[c] = NoPid
          /\ rt' = rt
          /\ Reap!Exit({Ran(g, "fail")})
    /\ Goto(g, "startRet")
    /\ UNCHANGED <<restart, supVars, init, locals>>

StartRet(g) ==
    /\ pc[g] = "startRet"
    /\ Return(g, "state", "undo")
    /\ UNCHANGED <<restart, supVars, rtVars, locals>>

(* A failed start deletes the container and ignores the result.            *)
StartUndo(g) ==
    /\ pc[g] = "undo"
    /\ Delete(target[g])
    /\ Goto(g, GiveUp(g))
    /\ UNCHANGED <<restart, supVars, locals>>

(* crun state prints the init's pid, or 0 once the init has exited.  An    *)
(* output without a readable pid counts as a failure here: both yield 0.   *)
StateInvoke(g) ==
    /\ pc[g] = "state"
    /\ \/ /\ ~ctxDone
          /\ gotPid' = [gotPid EXCEPT ![g] = init[target[g]]]
          /\ Reap!Exit({Ran(g, "ok")})
       \/ /\ Fallible
          /\ gotPid' = gotPid
          /\ Reap!Exit({Ran(g, "fail")})
    /\ Goto(g, "stateRet")
    /\ UNCHANGED <<restart, supVars, rtVars, target, evStatus, ids, todo, runErr>>

(* What follows a successful startOne: Run goes on to the next container,  *)
(* after the last one it launches the consumer and begins to wait.         *)
AfterStart(g) ==
    IF g = "consumer"
    THEN Goto("consumer", "recv") /\ target' = target
    ELSE IF target["main"] < N
    THEN /\ Goto("main", "next")
         /\ target' = [target EXCEPT !["main"] = @ + 1]
    ELSE /\ pc' = [pc EXCEPT !["main"] = "wait", !["consumer"] = "recv"]
         /\ target' = [target EXCEPT !["main"] = 1]

(* A failed lookup is only logged.  The critical section that follows      *)
(* indexes the pid unless it is 0; nothing else touches the index          *)
(* meanwhile, so it is part of the same step.                              *)
StateRet(g) ==
    /\ pc[g] = "stateRet"
    /\ Reap!Collect(g)
    /\ pidIndex' = IF Succeeded(g) /\ gotPid[g] # NoPid
                   THEN [pidIndex EXCEPT ![gotPid[g]] = target[g]] ELSE pidIndex
    /\ gotPid' = [gotPid EXCEPT ![g] = NoPid]
    /\ AfterStart(g)
    /\ UNCHANGED <<restart, states, lastExit, stopped, closes, rtVars,
                   evStatus, ids, todo, runErr>>

StartOne(g) ==
    \/ CreateInvoke(g) \/ CreateRet(g)
    \/ StartInvoke(g) \/ StartRet(g)
    \/ StartUndo(g)
    \/ StateInvoke(g) \/ StateRet(g)

-----------------------------------------------------------------------------
(* Supervisor.Run, and the tail of run() and main() that follow it.        *)

(* Mutant: the consumer is launched before the starts, not after them.     *)
RunNextConsuming ==
    /\ pc["main"] = "next"
    /\ states' = states \cup {target["main"]}
    /\ pc' = [pc EXCEPT !["main"] = "create",
                       !["consumer"] = IF @ = "off" THEN "recv" ELSE @]
    /\ UNCHANGED <<reapVars, restart, pidIndex, lastExit, stopped, closes, rtVars, locals>>

(* The next container gets its entry in the states map.                    *)
RunNext ==
    /\ pc["main"] = "next"
    /\ states' = states \cup {target["main"]}
    /\ Goto("main", "create")
    /\ UNCHANGED <<reapVars, restart, pidIndex, lastExit, stopped, closes, rtVars, locals>>

(* Run returns err, and run() with it: its deferred cancel follows.  Then  *)
(* main powers off; the others run on until the machine is down.           *)
RunReturns(err) ==
    /\ runErr' = err
    /\ Reap!Cancel
    /\ Goto("main", "poweroff")

RunFailed ==
    /\ pc["main"] = "failed"
    /\ RunReturns("start")
    /\ UNCHANGED <<restart, supVars, rtVars, target, gotPid, evStatus, ids, todo>>

(* Mutant: Run returns when the first container is done.                   *)
RunDoneFirst ==
    /\ pc["main"] = "wait" /\ closes[target["main"]] > 0
    /\ RunReturns("nil")
    /\ UNCHANGED <<restart, supVars, rtVars, target, gotPid, evStatus, ids, todo>>

(* The select of the wait loop: the done channel of the next container.    *)
RunDone ==
    /\ pc["main"] = "wait" /\ closes[target["main"]] > 0
    /\ IF target["main"] < N
       THEN /\ target' = [target EXCEPT !["main"] = @ + 1]
            /\ UNCHANGED <<reapVars, pc, runErr>>
       ELSE /\ RunReturns("nil")
            /\ UNCHANGED target
    /\ UNCHANGED <<restart, supVars, rtVars, gotPid, evStatus, ids, todo>>

(* The select of the wait loop: the context.                               *)
RunCancelled ==
    /\ pc["main"] = "wait" /\ ctxDone
    /\ RunReturns("cancelled")
    /\ UNCHANGED <<restart, supVars, rtVars, target, gotPid, evStatus, ids, todo>>

MainStep ==
    \/ RunNext \/ StartOne("main") \/ RunFailed
    \/ RunDone \/ RunCancelled

-----------------------------------------------------------------------------
(* consumeReaper                                                           *)

(* Mutants: an unknown pid is taken for the container handled last; an     *)
(* unknown pid ends the loop.                                              *)
ConsumerReceiveUnknown ==
    /\ pc["consumer"] = "recv" /\ Reap!Receive
    /\ LET ev == Head(events)
           c == IF ev.pid \in Pid /\ pidIndex[ev.pid] # NoContainer
                THEN pidIndex[ev.pid] ELSE target["consumer"] IN
       /\ pidIndex' = [p \in Pid |-> IF p = ev.pid THEN NoContainer ELSE pidIndex[p]]
       /\ lastExit' = lastExit \cup {c}
       /\ target' = [target EXCEPT !["consumer"] = c]
       /\ evStatus' = ev.status
    /\ Goto("consumer", "delete")
    /\ UNCHANGED <<restart, states, stopped, closes, rtVars, gotPid, ids, todo, runErr>>

ConsumerReceiveReturning ==
    /\ pc["consumer"] = "recv" /\ Reap!Receive
    /\ LET c == IF Head(events).pid \in Pid THEN pidIndex[Head(events).pid] ELSE NoContainer IN
       IF c = NoContainer
       THEN Goto("consumer", "exited") /\ UNCHANGED <<pidIndex, lastExit, target, evStatus>>
       ELSE /\ pidIndex' = [pidIndex EXCEPT ![Head(events).pid] = NoContainer]
            /\ lastExit' = lastExit \cup {c}
            /\ target' = [target EXCEPT !["consumer"] = c]
            /\ evStatus' = Head(events).status
            /\ Goto("consumer", "delete")
    /\ UNCHANGED <<restart, states, stopped, closes, rtVars, gotPid, ids, todo, runErr>>

(* Receive an event and correlate it, in one critical section.             *)
ConsumerReceive ==
    /\ pc["consumer"] = "recv"
    /\ Reap!Receive
    /\ LET ev == Head(events) IN
       IF ev.pid \in Pid /\ pidIndex[ev.pid] # NoContainer
       THEN /\ pidIndex' = [pidIndex EXCEPT ![ev.pid] = NoContainer]
            /\ lastExit' = lastExit \cup {pidIndex[ev.pid]}
            /\ target' = [target EXCEPT !["consumer"] = pidIndex[ev.pid]]
            /\ evStatus' = ev.status
            /\ Goto("consumer", "delete")
       ELSE UNCHANGED <<pidIndex, lastExit, target, evStatus, pc>>
    /\ UNCHANGED <<restart, states, stopped, closes, rtVars, gotPid, ids, todo, runErr>>

ConsumerClosed ==
    /\ pc["consumer"] = "recv" /\ Reap!Drained
    /\ Goto("consumer", "exited")
    /\ UNCHANGED <<reapVars, restart, supVars, rtVars, locals>>

(* The best-effort delete: its result is ignored.                          *)
ConsumerDelete ==
    /\ pc["consumer"] = "delete"
    /\ Delete(target["consumer"])
    /\ Goto("consumer", "decide")
    /\ UNCHANGED <<restart, supVars, locals>>

(* Mutant: on-failure restarts after any exit.                             *)
ShouldRestartAlways(c, s) == c \notin stopped /\ restart[c] # "never"

(* shouldRestart reads the stopped flag without the mutex: a data race     *)
(* with Stop.  The load follows the system calls of the delete and its     *)
(* value is that of some moment after them, which is any moment at which   *)
(* this step can happen.  A signalled exit counts as a failure.            *)
ShouldRestart(c, s) ==
    /\ c \notin stopped
    /\ restart[c] = "always" \/ (restart[c] = "on-failure" /\ s = "fail")

CloseDone(c) == closes' = [closes EXCEPT ![c] = @ + 1]

(* Mutant: no continue after the restart, so done is closed as well.       *)
ConsumerDecideClosing ==
    LET c == target["consumer"] IN
    /\ pc["consumer"] = "decide"
    /\ Goto("consumer", IF ShouldRestart(c, evStatus) THEN "create" ELSE "recv")
    /\ CloseDone(c)
    /\ UNCHANGED <<reapVars, restart, states, pidIndex, lastExit, stopped, rtVars, locals>>

ConsumerDecide ==
    LET c == target["consumer"] IN
    /\ pc["consumer"] = "decide"
    /\ IF ShouldRestart(c, evStatus)
       THEN Goto("consumer", "create") /\ UNCHANGED closes
       ELSE Goto("consumer", "recv") /\ CloseDone(c)
    /\ UNCHANGED <<reapVars, restart, states, pidIndex, lastExit, stopped, rtVars, locals>>

(* The restart failed.                                                     *)
ConsumerGivesUp ==
    /\ pc["consumer"] = "close"
    /\ CloseDone(target["consumer"])
    /\ Goto("consumer", "recv")
    /\ UNCHANGED <<reapVars, restart, states, pidIndex, lastExit, stopped, rtVars, locals>>

ConsumerStep ==
    \/ ConsumerReceive \/ ConsumerClosed
    \/ ConsumerDelete
    \/ ConsumerDecide \/ ConsumerGivesUp
    \/ StartOne("consumer")

-----------------------------------------------------------------------------
(* The signal goroutine and Stop                                           *)

(* A termination signal arrives: Stop's critical section marks and lists   *)
(* the containers started so far.                                          *)
StopSignal ==
    /\ pc["stop"] = "idle"
    /\ stopped' = stopped \cup states
    /\ ids' = states
    /\ todo' = states
    /\ Goto("stop", "term")
    /\ UNCHANGED <<reapVars, restart, states, pidIndex, lastExit, closes, rtVars,
                   target, gotPid, evStatus, runErr>>

(* One turn of a loop over the snapshot, in the map's random order.  TERM  *)
(* changes nothing by itself: a running container may exit at any time     *)
(* with or without it, a created one ignores it.                           *)
StopTerm ==
    /\ pc["stop"] = "term"
    /\ \E c \in todo : todo' = todo \ {c}
    /\ UNCHANGED <<reapVars, restart, supVars, rtVars, pc, target, gotPid, evStatus, ids, runErr>>

StopKill ==
    /\ pc["stop"] = "kill"
    /\ \E c \in todo : Kill(c) /\ todo' = todo \ {c}
    /\ UNCHANGED <<restart, supVars, pc, target, gotPid, evStatus, ids, runErr>>

(* All TERMs are sent: the grace period begins.                            *)
StopTermed ==
    /\ pc["stop"] = "term" /\ todo = {}
    /\ Goto("stop", "poll")
    /\ UNCHANGED <<reapVars, restart, supVars, rtVars, locals>>

AllExited == states \subseteq lastExit

(* A look at allExited every 100 ms ...                                    *)
StopAllExited ==
    /\ pc["stop"] = "poll" /\ AllExited
    /\ Goto("stop", "cancel")
    /\ UNCHANGED <<reapVars, restart, supVars, rtVars, locals>>

(* Mutant: the timer is armed anew in every round, so it never fires.      *)
StopDeadlineRearmed == pc["stop"] = "deadline" /\ UNCHANGED vars

(* ... until the deadline, which the select may prefer to another look.    *)
StopDeadline ==
    /\ pc["stop"] = "poll"
    /\ todo' = ids
    /\ Goto("stop", "kill")
    /\ UNCHANGED <<reapVars, restart, supVars, rtVars, target, gotPid, evStatus, ids, runErr>>

StopKilled ==
    /\ pc["stop"] = "kill" /\ todo = {}
    /\ Goto("stop", "cancel")
    /\ UNCHANGED <<reapVars, restart, supVars, rtVars, locals>>

(* Stop has returned: the signal goroutine cancels the context.            *)
StopCancel ==
    /\ pc["stop"] = "cancel"
    /\ Reap!Cancel
    /\ Goto("stop", "done")
    /\ UNCHANGED <<restart, supVars, rtVars, locals>>

StopStep ==
    \/ StopTerm \/ StopTermed
    \/ StopAllExited \/ StopDeadline
    \/ StopKill \/ StopKilled
    \/ StopCancel

-----------------------------------------------------------------------------
(* The rest of the machine.                                                *)

unchangedByKernel == <<restart, supVars, pc, locals>>

(* A container's init exits on its own, or is ended by Stop's TERM.        *)
ContainerExit(c, s) ==
    /\ rt[c] = "running" /\ init[c] # NoPid
    /\ init' = [init EXCEPT ![c] = NoPid]
    /\ Reap!Exit({[pid |-> init[c], status |-> s]})
    /\ UNCHANGED <<unchangedByKernel, rt>>

HelperExit(h) ==
    /\ Reap!Exit({[pid |-> h, status |-> "ok"]})
    /\ UNCHANGED <<unchangedByKernel, rtVars>>

ReapChild(p) ==
    /\ \E z \in zombies : z.pid = p /\ Reap!Wait4(z)
    /\ UNCHANGED <<unchangedByKernel, rtVars>>

ReaperExit == Reap!Close /\ UNCHANGED <<unchangedByKernel, rtVars>>

(* The machine goes down.                                                  *)
Halted == pc["main"] = "poweroff" /\ UNCHANGED vars

Next ==
    \/ MainStep \/ ConsumerStep
    \/ StopSignal \/ StopStep
    \/ \E p \in Reap!Pids(zombies) : ReapChild(p)
    \/ ReaperExit
    \/ \E c \in Container, s \in Status : ContainerExit(c, s)
    \/ \E h \in Helper : HelperExit(h)
    \/ Halted

(* Goroutines are scheduled, crun calls return, the grace period ends.     *)
(* Containers need not exit, helpers need not, a signal need not come.     *)
Fairness ==
    /\ WF_vars(MainStep) /\ WF_vars(ConsumerStep) /\ WF_vars(StopStep)
    /\ \A p \in Child : WF_vars(ReapChild(p))

Spec == Init /\ [][Next]_vars
FairSpec == Spec /\ Fairness

-----------------------------------------------------------------------------
StarterLabel == {"create", "createRet", "start", "startRet", "undo", "state", "stateRet"}
MainLabel == StarterLabel \cup {"next", "wait", "failed", "poweroff"}
ConsumerLabel == StarterLabel \cup {"off", "recv", "delete", "decide", "close", "exited"}
StopLabel == {"idle", "term", "poll", "kill", "cancel", "done"}

TypeOK ==
    /\ zombies \subseteq Reap!Reaped
    /\ events \in Seq(Reap!Reaped) /\ Len(events) <= EventCap
    /\ lost \subseteq Child
    /\ closed \in BOOLEAN /\ ctxDone \in BOOLEAN
    /\ restart \in [Container -> Policy]
    /\ states \subseteq Container
    /\ pidIndex \in [Pid -> Container \cup {NoContainer}]
    /\ lastExit \subseteq Container /\ stopped \subseteq Container
    /\ closes \in [Container -> Nat]
    /\ rt \in [Container -> {"absent", "created", "running"}]
    /\ init \in [Container -> Pid \cup {NoPid}]
    /\ pc \in [Goroutine -> MainLabel \cup ConsumerLabel \cup StopLabel]
    /\ pc["main"] \in MainLabel /\ pc["consumer"] \in ConsumerLabel /\ pc["stop"] \in StopLabel
    /\ target \in [Starter -> Container]
    /\ gotPid \in [Starter -> Pid \cup {NoPid}]
    /\ evStatus \in Status
    /\ ids \subseteq Container /\ todo \subseteq ids
    /\ runErr \in {"none", "nil", "start", "cancelled"}

(* No done channel is closed twice: the second close would panic, and a    *)
(* panic of PID 1 takes the machine down.  An exit and a failed restart    *)
(* both close it, from different places of the consumer's loop.            *)
ClosedAtMostOnce == \A c \in Container : closes[c] <= 1

(* A pid in the index is alive or its exit is still on its way to the      *)
(* consumer, unless the reaper dropped the event.  startOne registers a    *)
(* pid long after crun returned it, so the exit can be reaped first: the   *)
(* code is right only because whoever registers is also the one receiver,  *)
(* and the receiver is not started before main has done all its starts.    *)
IndexAccounted ==
    \A p \in Pid : pidIndex[p] # NoContainer => p \in InFlight

(* After an exit the consumer deletes, by force, only a container whose    *)
(* init is gone: an event correlated to the wrong container would kill a   *)
(* healthy one.  The other delete, that of a start that failed, is not     *)
(* meant: it ends a container whose crun start did succeed, if the reaper  *)
(* has taken that process (see ReapingHelpersIsHarmless).                  *)
ConsumerDeletesOnlyExited ==
    pc["consumer"] = "delete" => init[target["consumer"]] = NoPid

(* When Run returns without an error, no container that is never restarted *)
(* is still alive: the machine is about to be powered off under it.        *)
NilReturnAfterExits ==
    runErr = "nil" => \A c \in Container : restart[c] = "never" => init[c] = NoPid

(* What the supervisor does with each container is what Lifecycle allows.  *)
Launching(c) ==
    \/ \E g \in Starter : target[g] = c /\ pc[g] \in StarterLabel \cup {"failed", "close"}
    \/ target["main"] = c /\ runErr = "start"

Handling(c) == target["consumer"] = c /\ pc["consumer"] \in {"delete", "decide"}

Phase(c) ==
    IF c \notin states THEN "pending"
    ELSE IF closes[c] > 0 THEN "finished"
    ELSE IF Handling(c) THEN "down"
    ELSE IF Launching(c) THEN "launching" ELSE "up"

Life == INSTANCE Lifecycle WITH
    phase <- [c \in Container |-> Phase(c)],
    exit  <- [c \in Container |-> IF closes[c] = 0 /\ Handling(c) THEN evStatus ELSE "none"]

ImplementsLifecycle == Life!Spec

(* Whatever the containers do, a termination signal ends in a poweroff.    *)
ShutdownCompletes == pc["stop"] # "idle" ~> pc["main"] = "poweroff"

(* Once its pid is indexed, the exit of an init reaches the consumer,      *)
(* unless the channel overflowed or the machine is going down.  An init    *)
(* that exits before that is the subject of RunUnblocks.                   *)
IndexedExitHandled ==
    \A p \in Pid :
        (pidIndex[p] # NoContainer /\ p \notin Alive)
            ~> (pidIndex[p] = NoContainer \/ p \in lost \/ ctxDone)

-----------------------------------------------------------------------------
(* What the comments of the code say of it, and the code does not do.      *)

(* supervisor.go:213, "Sends SIGTERM to every still-running container,     *)
(* waits up to grace, then SIGKILLs survivors": Stop does not return       *)
(* before the deadline while a container it signalled is alive.            *)
StopWaitsForContainers ==
    [][StopAllExited => \A c \in ids : init[c] = NoPid]_vars

(* supervisor.go:59, Run "blocks until ctx is cancelled OR all             *)
(* non-restarting containers have exited": it returns after either.        *)
RunUnblocks ==
    (ctxDone \/ (pc["main"] = "wait" /\ Alive = {} /\ \A c \in Container : restart[c] = "never"))
        ~> pc["main"] = "poweroff"

(* supervisor.go:214-215, Stop "Disables restart for the remainder of the  *)
(* supervisor's life": of a container that Stop has marked and that has    *)
(* exited, no new incarnation is started.                                  *)
StopDisablesRestart ==
    [][\A c \in stopped \cap lastExit : rt'[c] = "running" => rt[c] = "running"]_vars

(* supervisor.go:59, Run "blocks until ctx is cancelled": a cancellation   *)
(* ends it.  Without a console it may not: crun create has exited, but     *)
(* main waits for the end of a pipe that the new container holds.  If it   *)
(* was made after Stop had sent its kills, nobody will end it.             *)
CancelEndsRun == ctxDone ~> pc["main"] = "poweroff"

(* supervisor.go:149, "Reaper events for PIDs we don't know about          *)
(* (intermediate runtime helpers) are silently ignored": reaping the       *)
(* runtime's own processes does no harm, and Run fails only when crun did. *)
ReapingHelpersIsHarmless ==
    [][RunFailed => CrunMayFail \/ ctxDone]_vars
=============================================================================
